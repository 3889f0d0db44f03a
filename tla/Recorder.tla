------------------------------- MODULE Recorder -------------------------------
(***************************************************************************)
(* recorder/ptrace_recorder.c: adr-recorder runs the target under ptrace,   *)
(* writes one line of events.jsonl per completed syscall, appends the bytes *)
(* the syscall produced to payload.bin, and leaves result.json.             *)
(*                                                                          *)
(* Every write another process could see, or a crash could separate from    *)
(* the next, is a step of its own.  The trace directory outlives the        *)
(* process: a later adr-recorder may be started on the same --out.          *)
(***************************************************************************)
EXTENDS Target, Recording

CONSTANTS
  MaxRuns,  \* adr-recorder processes started on this directory
  MaxSync   \* lines the preloaded hook appends from other threads

ASSUME RecorderAssumption == MaxRuns \in Nat /\ MaxSync \in Nat

VARIABLES
  events,      \* events.jsonl
  payload,     \* payload.bin, as other processes see it
  result,      \* result.json
  runs,        \* adr-recorder processes started so far
  base,        \* the length events.jsonl had when this process opened it
  synced,      \* lines appended by the hook so far
  pc,          \* where main() is
  in_syscall,
  entry,       \* entry.syscall_no
  seq,         \* tw.seq
  prev_hash,   \* tw.prev_hash
  payload_json \* the payload_ref of the syscall being emitted

diskVars == << events, payload, result >>
writerVars == << seq, prev_hash >>
loopVars == << in_syscall, entry, payload_json >>
vars == << targetVars, diskVars, runs, base, synced, pc, writerVars, loopVars >>

\* result.json.  stdout.log is a function of what the target observed, so the
\* observations stand for stdout_hash and, with signal 0, for the exit code.
\* run names the process that wrote the file; 0 is no file.
NoResult == [run |-> 0, signal |-> 0, observed |-> << >>]
ResultType == [run : Nat, signal : {0, 9}, observed : Seq(ObservationType)]

Active == {"opened", "attach", "resume", "wait", "stopped", "payload", "emit",
           "exited", "signalled", "close"}
Over == {"idle", "done", "failed", "crashed"}

TypeOK ==
  /\ TargetTypeOK
  /\ events \in Seq(LineType)
  /\ payload \in Seq(Byte)
  /\ result \in ResultType
  /\ runs \in Nat
  /\ base \in Nat
  /\ synced \in Nat
  /\ pc \in Active \cup Over
  /\ in_syscall \in BOOLEAN
  /\ entry \in Calls
  /\ seq \in Nat
  /\ prev_hash \in HashType
  /\ payload_json \in RefType

Init ==
  /\ TargetInit
  /\ events = << >>
  /\ payload = << >>
  /\ result = NoResult
  /\ runs = 0
  /\ base = 0
  /\ synced = 0
  /\ pc = "idle"
  /\ in_syscall = FALSE
  /\ entry = "read"
  /\ seq = 0
  /\ prev_hash = << >>
  /\ payload_json = NoRef

(***************************************************************************)
(* emit_line: append the line, flush it, move the chain to its hash.        *)
(***************************************************************************)
\* Seeded fault: prev_hash is not moved on.
EmitUnchained(body) ==
  /\ events' = Append(events, Line(prev_hash, body))
  /\ prev_hash' = prev_hash
  /\ seq' = body.seq

Emit(body) ==
  /\ events' = Append(events, Line(prev_hash, body))
  /\ prev_hash' = Append(prev_hash, body)
  /\ seq' = body.seq

EmitProcess(name) == Emit(ProcessBody(name, seq + 1))

(***************************************************************************)
(* main() up to the loop.                                                   *)
(***************************************************************************)
\* events.jsonl is opened for appending and payload.bin is truncated.
\* result.json, which an earlier process may have left, is not touched.
Opens ==
  /\ pc \in Over
  /\ runs < MaxRuns
  /\ runs' = runs + 1
  /\ base' = Len(events)
  /\ TargetUnborn
  /\ pc' = "opened"
  /\ UNCHANGED << events, result, synced, loopVars >>

\* Seeded faults: payload.bin is opened for appending; the writer goes on
\* numbering where the last process stopped.
OpenTraceAppends == Opens /\ payload' = payload /\ seq' = 0 /\ prev_hash' = << >>
OpenTraceNumbersOn == Opens /\ payload' = << >> /\ UNCHANGED writerVars

OpenTrace == Opens /\ payload' = << >> /\ seq' = 0 /\ prev_hash' = << >>

\* fopen, write_metadata or fork fails: main returns 1.
StartFails ==
  /\ "start" \in Faults
  /\ pc = "opened"
  /\ pc' = "failed"
  /\ UNCHANGED << targetVars, diskVars, runs, base, synced, writerVars, loopVars >>

Fork ==
  /\ pc = "opened"
  /\ TargetFork
  /\ in_syscall' = FALSE
  /\ entry' = "read"
  /\ payload_json' = NoRef
  /\ pc' = "attach"
  /\ UNCHANGED << diskVars, runs, base, synced, writerVars >>

\* The first waitpid, PTRACE_SETOPTIONS and the program_start line.  The status
\* is not looked at: a child that was killed is collected here.
Attach ==
  /\ pc = "attach"
  /\ \/ tstate = "raised" /\ UNCHANGED targetVars
     \/ tstate = "killed" /\ ReapTarget
  /\ EmitProcess("program_start")
  /\ pc' = "resume"
  /\ UNCHANGED << payload, result, runs, base, synced, loopVars >>

(***************************************************************************)
(* The loop.                                                                *)
(***************************************************************************)
Resume ==
  /\ pc = "resume"
  /\ ResumeTarget
  /\ pc' = "wait"
  /\ UNCHANGED << diskVars, runs, base, synced, writerVars, loopVars >>

\* Seeded fault: the loop's break falls into write_result.
PtraceFailsWithResult ==
  /\ pc \in {"resume", "stopped"}
  /\ tstate \in {"killed", "reaped"}
  /\ pc' = "exited"
  /\ UNCHANGED << targetVars, diskVars, runs, base, synced, writerVars, loopVars >>

\* ptrace fails with ESRCH, at PTRACE_SYSCALL or at PTRACE_GETREGS, once the
\* target is dead: the loop is left without a waitpid and without a result.
PtraceFails ==
  /\ pc \in {"resume", "stopped"}
  /\ tstate \in {"killed", "reaped"}
  /\ pc' = "close"
  /\ UNCHANGED << targetVars, diskVars, runs, base, synced, writerVars, loopVars >>

\* Seeded fault: WIFSIGNALED is not looked at.
WaitExitOnly ==
  /\ pc = "wait"
  /\ tstate = "exited"
  /\ EmitProcess("program_exit")
  /\ pc' = "exited"
  /\ ReapTarget
  /\ UNCHANGED << payload, result, runs, base, synced, loopVars >>

\* waitpid reports WIFEXITED or WIFSIGNALED.
WaitDeath ==
  /\ pc = "wait"
  /\ tstate \in {"exited", "killed"}
  /\ EmitProcess(IF tstate = "exited" THEN "program_exit" ELSE "program_signal")
  /\ pc' = IF tstate = "exited" THEN "exited" ELSE "signalled"
  /\ ReapTarget
  /\ UNCHANGED << payload, result, runs, base, synced, loopVars >>

\* waitpid reports a stop that is not a syscall stop: continue.
WaitSignalStop ==
  /\ pc = "wait"
  /\ tstate = "signal"
  /\ pc' = "resume"
  /\ UNCHANGED << targetVars, diskVars, runs, base, synced, writerVars, loopVars >>

\* Seeded fault: the 0x80 bit that PTRACE_O_TRACESYSGOOD sets is not looked at.
WaitAnyStop ==
  /\ pc = "wait"
  /\ tstate \in {"entry", "exitstop", "signal"}
  /\ pc' = "stopped"
  /\ UNCHANGED << targetVars, diskVars, runs, base, synced, writerVars, loopVars >>

WaitSyscallStop ==
  /\ pc = "wait"
  /\ tstate \in {"entry", "exitstop"}
  /\ pc' = "stopped"
  /\ UNCHANGED << targetVars, diskVars, runs, base, synced, writerVars, loopVars >>

\* Seeded fault: only a payload syscall is remembered.
AtEntryStale ==
  /\ pc = "stopped"
  /\ tstate \in Stopped
  /\ ~in_syscall
  /\ entry' = IF call \in PayloadCalls THEN call ELSE entry
  /\ in_syscall' = TRUE
  /\ pc' = "resume"
  /\ UNCHANGED << targetVars, diskVars, runs, base, synced, writerVars, payload_json >>

\* PTRACE_GETREGS at a stop taken for an entry.
AtEntry ==
  /\ pc = "stopped"
  /\ tstate \in Stopped
  /\ ~in_syscall
  /\ entry' = call
  /\ in_syscall' = TRUE
  /\ pc' = "resume"
  /\ UNCHANGED << targetVars, diskVars, runs, base, synced, writerVars, payload_json >>

\* PTRACE_GETREGS at a stop taken for an exit.
AtExit ==
  /\ pc = "stopped"
  /\ tstate \in Stopped
  /\ in_syscall
  /\ pc' = "payload"
  /\ UNCHANGED << targetVars, diskVars, runs, base, synced, writerVars, loopVars >>

\* The bytes of the buffer the syscall filled: nothing for other syscalls.
CapturedBytes ==
  IF entry \in PayloadCalls THEN Take(mem, PayloadLen(entry, ret)) ELSE << >>

\* Seeded fault: the offset is the end of the file less the bytes, taken before
\* they are written.
PayloadOffsetEarly == Len(payload) - Len(CapturedBytes)

\* read_child_mem and append_payload, whose fflush puts the bytes in the file.
PayloadOffset == Len(payload)
CapturedRef ==
  IF CapturedBytes = << >> THEN NoRef ELSE Ref(PayloadOffset, CapturedBytes)

\* Seeded fault: no fflush, the bytes stay in stdio's buffer.
SavePayloadUnflushed ==
  /\ pc = "payload"
  /\ CapturedBytes # << >> => tstate # "killed"
  /\ payload' = payload
  /\ payload_json' = CapturedRef
  /\ pc' = "emit"
  /\ UNCHANGED << targetVars, events, result, runs, base, synced, writerVars,
                  in_syscall, entry >>

SavePayload ==
  /\ pc = "payload"
  /\ CapturedBytes # << >> => tstate # "killed"
  /\ payload' = payload \o CapturedBytes
  /\ payload_json' = CapturedRef
  /\ pc' = "emit"
  /\ UNCHANGED << targetVars, events, result, runs, base, synced, writerVars,
                  in_syscall, entry >>

\* The target is gone, or malloc or fwrite fails, maybe after writing a part:
\* the line will carry no payload_ref.
SavePayloadFails ==
  /\ pc = "payload"
  /\ CapturedBytes # << >>
  /\ \/ tstate = "killed" /\ payload' = payload
     \/ /\ "payload" \in Faults
        /\ \E n \in 0 .. Len(CapturedBytes) - 1 :
             payload' = payload \o Take(CapturedBytes, n)
  /\ payload_json' = NoRef
  /\ pc' = "emit"
  /\ UNCHANGED << targetVars, events, result, runs, base, synced, writerVars,
                  in_syscall, entry >>

\* The disk is full when append_payload flushes: fflush's result is not looked
\* at, stdio drops what it could not write, and the payload_ref stands.
FlushFails ==
  /\ "flush" \in Faults
  /\ pc = "payload"
  /\ CapturedBytes # << >>
  /\ tstate # "killed"
  /\ \E n \in 0 .. Len(CapturedBytes) - 1 :
       payload' = payload \o Take(CapturedBytes, n)
  /\ payload_json' = CapturedRef
  /\ pc' = "emit"
  /\ UNCHANGED << targetVars, events, result, runs, base, synced, writerVars,
                  in_syscall, entry >>

\* Seeded fault: in_syscall is left set after the line.
EmitSyscallKeepsFlag ==
  /\ pc = "emit"
  /\ Emit(SyscallBody(entry, seq + 1, ret, payload_json))
  /\ pc' = "resume"
  /\ UNCHANGED << targetVars, payload, result, runs, base, synced, loopVars >>

EmitSyscall ==
  /\ pc = "emit"
  /\ Emit(SyscallBody(entry, seq + 1, ret, payload_json))
  /\ in_syscall' = FALSE
  /\ pc' = "resume"
  /\ UNCHANGED << targetVars, payload, result, runs, base, synced, entry, payload_json >>

(***************************************************************************)
(* After the loop.                                                          *)
(***************************************************************************)
\* write_result in the two branches of the loop that end it.
WriteResult ==
  /\ pc \in {"exited", "signalled"}
  /\ result' = [run |-> runs, signal |-> IF pc = "exited" THEN 0 ELSE 9,
                observed |-> hist]
  /\ pc' = "close"
  /\ UNCHANGED << targetVars, events, payload, runs, base, synced, writerVars, loopVars >>

\* write_result fails, and main does not look at it: the file cannot be opened and
\* is what it was, or is truncated and not written.
WriteResultFails ==
  /\ "result" \in Faults
  /\ pc \in {"exited", "signalled"}
  /\ result' \in {result, NoResult}
  /\ pc' = "close"
  /\ UNCHANGED << targetVars, events, payload, runs, base, synced, writerVars, loopVars >>

\* fclose and return 0, whatever happened to the target.
Close ==
  /\ pc = "close"
  /\ pc' = "done"
  /\ UNCHANGED << targetVars, diskVars, runs, base, synced, writerVars, loopVars >>

RecorderStep ==
  \/ Fork \/ Attach \/ Resume \/ PtraceFails
  \/ WaitDeath \/ WaitSignalStop \/ WaitSyscallStop
  \/ AtEntry \/ AtExit \/ SavePayload \/ SavePayloadFails \/ FlushFails \/ EmitSyscall
  \/ WriteResult \/ WriteResultFails \/ Close

(***************************************************************************)
(* The environment.                                                         *)
(***************************************************************************)
\* The recorder is killed: all its lines and payloads have been flushed.
Crash ==
  /\ "crash" \in Faults
  /\ pc \in Active
  /\ DetachTarget
  /\ pc' = "crashed"
  /\ UNCHANGED << diskVars, runs, base, synced, writerVars, loopVars >>

\* Another thread of the target runs a hooked pthread call: one O_APPEND write.
HookAppends ==
  /\ synced < MaxSync
  /\ tstate \in (Alive \ {"raised"}) \cup {"detached"}
  /\ synced' = synced + 1
  /\ events' = Append(events, SyncLine(synced + 1))
  /\ UNCHANGED << targetVars, payload, result, runs, base, pc, writerVars, loopVars >>

TargetMoves ==
  /\ TargetNext
  /\ UNCHANGED << diskVars, runs, base, synced, pc, writerVars, loopVars >>

Next ==
  \/ OpenTrace
  \/ StartFails
  \/ RecorderStep
  \/ TargetMoves
  \/ Crash
  \/ HookAppends

Spec == Init /\ [][Next]_vars

\* The kernel schedules the recorder and the target and completes the target's
\* syscalls; nothing is assumed of faults, signals, the hook or a new process.
Fairness == WF_vars(RecorderStep) /\ WF_vars(TargetRuns /\ TargetMoves)
FairSpec == Spec /\ Fairness

(***************************************************************************)
(* Properties of the lines one process wrote, whatever the hook appended    *)
(* between them and whatever an earlier process left above them.            *)
(***************************************************************************)
Own(i) == i \in base + 1 .. Len(events) /\ events[i].body.etype # "SYNC"
OwnLines == {i \in base + 1 .. Len(events) : Own(i)}

\* The loop's in_syscall flag, toggled once per syscall stop, agrees with the
\* side of the syscall the target is stopped at: no signal stop, kill or
\* fault puts the two out of step, so no argument is taken for a result.
StopsAlternate ==
  pc = "stopped" /\ tstate \in Stopped => (in_syscall <=> tstate = "exitstop")

\* At every moment, and so after a crash of the recorder at any moment, every
\* payload_ref this process put in events.jsonl addresses bytes that are in
\* payload.bin and hash to its sha256.
PayloadsAddressed ==
  \A i \in OwnLines : Addresses(payload, events[i].body.payload_ref)

\* A syscall's line is on disk, with the name, result and bytes the program
\* will see, before the program is resumed to see them: the k-th result the
\* target observed is in the line numbered k + 1, and at most one line is
\* ahead of the target.
SyscallLine(i) == events[i].body.etype = "SYSCALL"
Records(body, o) ==
  /\ body.name = o.call
  /\ body.ret = o.ret
  /\ body.payload_ref.length > 0 => body.payload_ref.sha256 = o.data
Recorded(k, o) ==
  \E i \in OwnLines :
    SyscallLine(i) /\ events[i].body.seq = k + 1 /\ Records(events[i].body, o)
WriteAhead ==
  /\ \A k \in 1 .. Len(hist) : Recorded(k, hist[k])
  /\ \A i \in OwnLines : SyscallLine(i) => events[i].body.seq <= Len(hist) + 2

\* This process's lines, in file order, are numbered 1, 2, 3, ... and each
\* carries the hash of the one before it, the first one "00".
Between(i, j) == {k \in OwnLines : i < k /\ k < j}
LinesChained ==
  /\ \A j \in OwnLines : Between(base, j) = {} =>
       events[j].body.seq = 1 /\ events[j].prev_hash = << >>
  /\ \A i, j \in OwnLines : i < j /\ Between(i, j) = {} =>
       /\ events[j].body.seq = events[i].body.seq + 1
       /\ events[j].prev_hash = events[i].event_hash

\* A result.json of this process that reports a normal exit stands beside a
\* complete trace: a line for every result the target observed, between
\* program_start and program_exit, and nothing missing in between.
ResultMatchesTrace ==
  result.run = runs /\ result.run > 0 /\ result.signal = 0 =>
    /\ result.observed = hist
    /\ \E i \in OwnLines :
         /\ events[i].body.name = "program_exit"
         /\ events[i].body.seq = Len(hist) + 2
         /\ \A j \in OwnLines : j <= i

\* Where no payload was given up and no flush fails, it stands beside exactly the
\* recording of what the target observed: every line, reference and byte, in order,
\* and no other.
Wrote(lines) ==
  /\ \A i \in OwnLines :
       events[i].body.seq \in DOMAIN lines /\ events[i] = lines[events[i].body.seq]
  /\ \A n \in DOMAIN lines : \E i \in OwnLines : events[i].body.seq = n
  /\ \A i, j \in OwnLines : i < j => events[i].body.seq < events[j].body.seq
NoneGivenUp ==
  \A k \in DOMAIN hist : hist[k].data # << >> =>
    \E i \in OwnLines :
      events[i].body.seq = k + 1 /\ events[i].body.payload_ref # NoRef
CompleteRecording ==
  /\ result.run = runs /\ result.run > 0 /\ result.signal = 0
  /\ "flush" \notin Faults
  /\ NoneGivenUp
  => Wrote(RecordedLines(hist)) /\ payload = RecordedBytes(hist)

\* What the verifier's pass rests on: the result.json of a first recording, whether it
\* tells of an exit or of a kill, stands beside lines that transcribe what the
\* program observed, with the hook's between them, or a payload was given up.
ResultTranscribed ==
  result.run = runs /\ result.run > 0 /\ base = 0 /\ NoneGivenUp =>
    Transcribes(events, result.observed)

\* The recorder implements the write-ahead journal of Journal.tla: its entries are
\* this process's syscall lines, and only the opening of a new recording, the
\* writing of a line and the resumption of the target at an exit stop show in it.
Entry(body) ==
  [k |-> body.seq - 1, call |-> body.name, ret |-> body.ret,
   kept |-> body.payload_ref.length > 0, data |-> body.payload_ref.sha256]
Entries == {Entry(events[i].body) : i \in {j \in OwnLines : SyscallLine(j)}}
J == INSTANCE Journal WITH journal <- Entries, seen <- hist
ImplementsJournal == J!Spec

\* Liveness.  A recorder whose target neither hangs nor faults comes to an end,
\* whether the target exits or is killed at whatever moment.
Finishes == (pc \in Active) ~> (pc \in Over)

(***************************************************************************)
(* What the documentation says of the trace; the code does not keep these.  *)
(***************************************************************************)
\* README.md:8: adr record stores the result.
ResultEventuallyStored == <>(result.run > 0)
=============================================================================
