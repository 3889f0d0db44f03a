# Specifications of the deterministic replay system

TLA+ models of `adr-recorder`, `adr-replayer`, the verifier, the analyzer, `adr run`,
the pthread hook and the SHA-256 they share, TLC configurations that check them on
small instances, and TLAPS proofs about each of them for every instance. Paths below are relative to the repository.

## 1. The system

| component | state it keeps | operations | speaks to |
| --- | --- | --- | --- |
| Trace store (`docs/trace_schema_v1.md`) | `events.jsonl`, `payload.bin`, `result.json`, `metadata.json`, `stdout.log`, `stderr.log` | append a line, append a payload, write a result | written by recorder, replayer and hook; read by replayer, verifier, analyzer |
| Recorder (`recorder/ptrace_recorder.c`) | `seq`, `prev_hash`, `in_syscall`, `entry` | open, fork, attach, resume, wait, capture a payload, emit a line, write the result | target through ptrace and waitpid; trace store |
| Replayer (`replayer/ptrace_replayer.c`) | the same, and `replay_events`, `cursor`, `active` | load the recorded results, trace, choose, inject, emit | a recording; target; a trace store of its own |
| Sync hook (`hooks/sync_hook.c`) | `sync_seq`, `in_hook` per thread | log before and after seven pthread functions | runs in the target's threads; appends to `events.jsonl` |
| Verifier (`verifier/verifier.py`) | none | load, select, compare two directories | trace stores; `verify.json` |
| Analyzer (`analyzer/rule_analyzer.py`) | none | window around the first mismatch, rules, ranking, Markdown | trace stores, `verify.json` |
| CLI (`src/adr_cli/adr.py`) | none | `record`, `replay`, `verify`, `analyze`, `run` | runs the others as processes or modules |
| SHA-256, utilities (`src/common`) | a hashing context | init, update, final; paths, clock, JSON escaping | called by the C programs |

What is hard in it. The recorder and the target are two processes that take turns
at ptrace stops, except that signals and SIGKILL arrive at any time; the hook
writes the recorder's file from threads the recorder does not trace; a crash
separates any two writes; a directory outlives the process that wrote it. The
replay has to spend recorded results at the right syscalls while other syscalls
run live, and the verdict is about two files while its meaning is about two
executions. `PROJECT.json` lists the hazards line by line.

What makes each part correct:

- recorder: what the program is about to observe is on disk before it observes it;
  references address bytes that are there; lines are numbered and chained;
  `result.json` stands beside a complete trace; the recording ends;
- replayer: the program observes what it observed when recorded, as long as the
  injections reach it; recorded results are spent in order on syscalls of their kind; its
  trace tells what the program saw of every other result;
- verifier: a pass means the executions agreed, agreement gives a pass, and the
  first mismatch is the first;
- analyzer: the cause of the mismatch is among the few that are kept;
- `adr run`: the exit code and the report are about the repetitions they seem to be;
- SHA-256: a digest is of the whole input, padded once, however it came in;
- hook: the lines show disjoint critical sections, deadlock cycles and fork/join
  order as they really were.

## 2. Modules

| module | models |
| --- | --- |
| `Trace` | syscalls, payload lengths, references, lines, the hash chain, `payload.bin` |
| `Target` | the traced thread and the kernel, behind ptrace and waitpid (external) |
| `Recording` | the contract: the directory a complete recording of given observations must be |
| `Journal` | what the recorder promises, abstractly: a write-ahead journal of observations |
| `Recorder` | `adr-recorder`, the processes that reuse its directory, the hook's lines |
| `Replayer` | `adr-replayer` on a directory described by `Recording`, intact or damaged |
| `Verifier` | `verifier.py` as operators |
| `Session` | composes `Replayer` and `Verifier`: replay, then verify |
| `Analyzer` | `rule_analyzer.py` as operators |
| `Pipeline` | composes `Session` and `Analyzer`: `adr run` |
| `SyncHook` | the hooked pthread functions and the threads that call them |
| `Sha256` | `hash.c`: the streaming context, the padding, and its two callers |
| `TargetProofs` | lemmas about the vocabulary, the recording's bytes and the target that the others share |
| `RecorderProofs`, `JournalProofs`, `ReplayerProofs`, `SessionProofs`, `PipelineProofs`, `SyncHookProofs`, `Sha256Proofs` | theorems |
| `MCRecorder`, `MCReplayer`, `MCSession`, `MCPipeline`, `MCSyncHook`, `MCSha256` | programs, kernel results, directories and messages for TLC |

`Recorder` and `Replayer` both extend `Target`, which extends `Trace`. `Recording`
links them: `CompleteRecording` checks that the recorder leaves the directory
`RecordedTrace(hist)`, and the replayer's runs start from directories of that form;
`ResultTranscribed` checks what the verifier's pass needs of a recording
(`Transcribes`), also of one of a killed target or with the hook's lines.
`Recorder` implements `Journal`; `Pipeline` extends `Session`, which extends `Replayer`
and `Verifier`. The proof modules follow: `PipelineProofs` extends `SessionProofs`, which
extends `ReplayerProofs`, and `JournalProofs` extends `RecorderProofs`.

### Target

The traced thread is a deterministic program: `NextCall` maps the results observed
so far to the next syscall. `LiveResults` is what the kernel may answer. `tstate`
holds the place of the thread: running, in the kernel, at a stop (`raised`,
`entry`, `exitstop`, `signal`) or gone. Resuming an exit stop is the moment the
program sees the result, and appends it to `hist`. `ResumeTarget` delivers no
signal, as the code's `ptrace(PTRACE_SYSCALL, child, NULL, NULL)` does not. A signal comes
between two syscalls (`SignalStops`) or interrupts one that blocks (`Interrupts`): then
there is an exit stop with `-ERESTARTSYS` (`Restarts`), the tracer suppresses the signal,
and the thread enters the same syscall again. The tracer writes a line for each of the two
exits; `hist` has both, as the tracer's log does, but the program's next syscall
(`Upcoming`) depends only on the results it is shown (`Shown`). SIGKILL (`Killed`) takes
the thread out of any state.

### Recorder

`pc` is the place in `main()`. Every write another process could see is a step of
its own: `SavePayload` (read_child_mem and append_payload with its flush),
`EmitSyscall` (emit_line), `WriteResult`. `SavePayloadFails` is the path where
`append_payload` or `malloc` fails, `FlushFails` the one where its ignored `fflush`
does. `PtraceFails` is ESRCH at `PTRACE_SYSCALL` or `PTRACE_GETREGS`, which leaves
the loop without a result. `WriteResultFails` is a `write_result` nobody looks at: 0 is
returned with no `result.json`, or with an earlier one's. `OpenTrace` may start a new recorder on the directory
an earlier one left (finished, failed or crashed). `HookAppends` is a line of the
sync hook between any two steps. `Crash` ends the recorder and detaches the target.

### Journal

A journal is a set of entries, each about the k-th result, and the results observed.
Three things happen in it: an entry is written for the next result, which has none yet;
the program observes the result the entry tells; everything starts over. `Recorder!J`
maps it: an entry is a syscall line of this process, numbered from its `seq`, and what
is seen is `hist`. `EmitSyscall` is a `Write`, the `Resume` of an exit stop an
`Observe`, `OpenTrace` a `StartOver`, and every other step a stutter. The journal says
in one step relation what `WriteAhead` says of a state, and more: that no line is ever
written twice, changed or taken back.

### Replayer

`LoadLine` is an iteration of `load_replay_events`. `Chosen` is the match of the
entered syscall with the event at the cursor; `Inject` is read_payload,
write_child_mem, PTRACE_SETREGS and the copy to the new `payload.bin`;
`InjectFails` is the path where `read_payload` fails, on which the cursor moves all
the same. `shown` is the local `ret`, the result the trace will show. The `DRIFT`
branch (lines 484-488) is dead, as `drifted` is never assigned; it has no action.

`main` looks at none of the results of `write_child_mem`, PTRACE_SETREGS, `fwrite` and the
final `fclose`, and goes on as if all had been done, so each has its failures here:
`Written(n)` is how many of n bytes reach the target (lines 84-107: a short
`process_vm_writev`, a word that cannot be written), `RegsSet` whether the register is set,
`Accepted(n)` how many bytes `fwrite` and `fclose` take. `InjectFails` may also happen to
an intact recording (`fopen`, `malloc`). The faults `"inject"` and `"payload"` turn them
on; a target that was just killed has neither memory nor registers without them. Nothing
flushes the replay's `payload.bin`, so `Crash` leaves any beginning of it. Two history
variables note what no variable of the program does, and the properties use them to say
what still holds: `missed` has the lines whose injection did not reach a live program,
`unsaved` those whose bytes did not reach `payload.bin` (0 for `fclose`).

`Leftovers` is what the output directory may hold when the replayer starts: `Loaded`
truncates `payload.bin` and leaves the rest. `OwnLines` are the lines of this replay,
the last `seq` ones. `TargetUnknown` is the exit when neither `--target` nor the
recording's `metadata.json` names a target.

### Verifier and Session

The verifier reads two directories nobody writes, so it is a function.
`Session!Verify` applies it when the replayer has ended in whatever way. A result holds
what the program observed; the constant `Output` turns that into its exit code and
outputs, so that `Outcome` is what a `result.json` holds and `Checks` is the four
comparisons of `verify`. `MCSession` takes a program that prints one line per
syscall, and one that prints on stderr for a failed one and fails if its last syscall
did, so that runs that differ may print the same and the comparison of events matters.
Recordings may be those of a killed target, with a signal in the result or without a
result at all. `TargetQuoted` says that the target's path has a character JSON must
escape.

### Analyzer and Pipeline

The analyzer reads files nobody writes: `Candidates` is `score_candidates` over the two
traces, the verdict's checks and the numbers in `first_mismatch`, 0 for null. The rules
are appended in the order of their scores (`Given`). `Window` is the events near a number, or the
last ones when there is none; its sizes and `top_k` are constants.

`Pipeline` is `cmd_run`. `stage` is its place; `Record` leaves one of the directories
`Traces` and sets up a replayer with a new directory (`Afresh`); `Replaying` takes the
replayer's own steps; `CmdReplay` is the return of `run_cmd`, `CmdVerify` and
`CmdAnalyze` the two modules called in the same process. `verdicts` stands for the
`verify.json` files, one for each repetition, `analysis` for the report all
repetitions write. Anything that raises ends it with 1.

### SyncHook

Each thread goes `enter` (draw a number), `enter_write`, `real`, `leave`,
`leave_write`. The real functions are POSIX mutexes and conditions, with spurious
wakeups. The program is any sequence of legal calls to the functions in `Program`.
A line's own thread is a `gettid()` in the file, the thread of a creation or a join a
`pthread_t` or the address one is stored at. The model takes them for the same
thing, so what it says of threads is about the order of the lines, and `ForkJoinOrdered`
does not say that a reader of the file could tell which thread was created.

### Sha256

One action per byte of `adr_sha256_update`, one for each of the two paths of
`adr_sha256_final` up to the length, one for the length. `Init` has the two callers:
the message is there at once, or comes in pieces of at most `BufLen` bytes from a file
that may fail at any of them. The compression function is injective: a state is the
sequence of the blocks that went into it. `Garbage` is what the context's buffer holds
before anything is put there. `bitlen` is not bounded: a message of 2^61 bytes would be
needed to overflow it.

### Abstractions

Elsewhere SHA-256 is injective as a whole (what `Sha256` shows of it is that nothing
of a message is lost before the compression), so the hash of bytes is the bytes, and
an `event_hash` is the sequence of hashed bodies. A syscall number is its name; `errno`
is a function of `ret`; times, pids and arguments are left out. `result.json` holds the
observations themselves in place of the exit code and output hashes. A line is written
whole.

## 3. Runs

Passing runs:

| run | question | bounds |
| --- | --- | --- |
| `MCRecorder_faults` | is one recording right on disk at every moment, under every fault, does it end, and does it implement the journal | one signal, one hook line, a program of three syscalls that branches on the first, four outcomes of `read` (failed, empty, short, long) |
| `MCRecorder_rerun` | two recorders on one directory, the first ending in any way | two processes, one hook line, two syscalls |
| `MCReplayer_faults` | is the replay faithful, what holds of one that strays or whose injections fail, does it end | recordings of a program of three syscalls that branches on a live `write`, on a `read` and on a random number: intact, with a long read, with a truncated `payload.bin`, with a hook line, and recorded into a used directory; a used output directory; live results free; one signal, every fault |
| `MCPipeline_verdicts` | is the verdict sound and complete, the mismatch the first, its cause named, the exit code and the report to be relied on | up to two repetitions with and without `--stop-on-fail`; recordings that are intact, hooked, killed or without a result, one with a long read; windows of 1 and of 2 lines; live results free (a `read` fails or gets a byte), one signal, SIGKILL, failed starts, injections that fail or are short |
| `MCSyncHook_locks` | are logged sections disjoint and deadlocks visible | two threads, two mutexes, one condition, five calls (enough for lock A, lock B against lock B, lock A after the creation) |
| `MCSyncHook_forks` | fork/join order, with lost lines | three threads, four calls |
| `MCSha256_padding` | is a digest that of the standard's padding | lengths on both sides of 0, 32, 55/56, 64, 119/120, 128 and one of more than three blocks; pieces of 48 bytes, cut anywhere by an error |

Why the bounds are enough: a payload error shows with two payloads and the offset
of the second; a chain error with two lines of a process and one of another; a
parity error with one signal stop between two syscall stops; a cursor error with
two events of the same kind and one in between. One signal is enough to interrupt a syscall
at any place of the run, and one failed injection to stray at any. `MaxReadLen` is 2 and `TimeLen` 1,
so that lengths 0, at most the limit and above the limit all occur. Two repetitions
show everything that one can leave to the next. Pieces of 48 bytes put the end of
a piece at every third part of a block. Deadlock checking is off everywhere: programs
end, and hooked threads may deadlock.

Violation runs, each the witness of one finding in `PROJECT.json`:

| run | documentation | code |
| --- | --- | --- |
| `MCRecorder_faulting` | README: result stored | SIGSEGV is suppressed for ever |
| `MCReplayer_loader` | comment: loader reads left alone | matched by syscall number alone |
| `MCReplayer_offsets` | trace schema: a reference of 16 bytes at offset 0 | a replay's offset is the end of the bytes |
| `MCSession_damaged` | property mapping T1 | recorded hash emitted though nothing was injected |
| `MCSession_quoted` | property mapping D2 | undecodable first line: nothing compared |

Other disagreements the models contain but no run singles out:

- `README.md:9` says that `adr replay` detects syscall drift: `drifted` is 0 throughout and
  `emit_drift` has no caller, so a replay whose program makes other syscalls ends as usual;
- a failed `write_result` leaves no `result.json`, or, in a used directory, that of an
  earlier recording or replay, which `adr verify` then compares;
- a target killed in a ptrace stop leaves the recorder by `PtraceFails`: no
  `result.json`, and 0 is returned;
- `seq` is not monotonic in the file: the hook numbers its lines from 1000000001,
  and draws a number before it writes the line, so two threads' lines may stand in
  the other order;
- the hook's lines carry `"prev_hash":"hook"` and are outside the chain, which is
  why `LinesChained` is about the recorder's own lines;
- `append_payload` does not look at `fflush` (`FlushFails`): on a full disk a
  reference stands without its bytes;
- a directory recorded into again keeps its lines and loses the payloads they refer to
  (`docs/trace_schema_v1.md:28` says a `payload_ref` references `payload.bin`), and a
  replay of it takes the first recording's results first;
- a directory replayed into again, as when the commands of `README.md:36` are run twice,
  holds both replays' lines and never compares equal to the recording if it had an
  event that is checked; until the end it holds the earlier replay's `result.json`;
- `adr run` returns 0 after a failed verification unless `--stop-on-fail` is given
  (`ExitCodeTells`), and the tests of `CMakeLists.txt` run it without;
- the rules on synchronization (C1 and C2 of `docs/property_mapping.md`) see the hook's
  lines only where the original has no event at the mismatch: their numbers are far
  from every window (`SyncNamedAtEnd`);
- a replay does not pass the recorded `argv` on, and reads an escaped target from
  `metadata.json` up to its first quote;
- a read that was not injected is traced without a hash and is not compared, which
  is why `VerdictSound` lets a replay have more reads than the recording.

`ReplaysRecording` assumes the recording of a whole execution in which all reads are
short and non-empty (`Covered`), and holds as long as the syscalls that are not replayed have given the
recorded results (`Reproducible`, over the history so far, so that a replay is held
to it up to the point where it strays) and every injection has reached the program
(`missed = {}`). The covered recordings of the runs have a live `write` that
works or fails, so a replay may depart from them there. None of these
hypotheses can be left out, nor `missed` in `LinesMatchHistory`, `VerdictSound` and
`VerdictComplete`, nor `unsaved` in `RefsEndTheirBytes`: without any of them TLC finds the
property violated. A dynamically linked program has the
loader's long reads, so for it the property holds only if no short read is
recorded; `MCReplayer_loader` shows what happens otherwise. `CompleteRecording` is
about recordings in which every payload got its reference (`NoneGivenUp`).

### Fairness

`FairSpec` has weak fairness of the tracer's own steps and of the target's and the
kernel's (`TargetRuns`): the operating system schedules both processes and
completes syscalls. Signals, kills, failures, crashes, hook lines and new processes
are not assumed to happen. The programs of the passing liveness checks neither hang
nor fault; an injection that fails, a full disk or an interrupted syscall does not keep
them from ending.

## 4. Proofs

`RecorderProofs` and `JournalProofs`, for every program, kernel, fault set, number of
recordings and number of hook lines:

| theorem | from |
| --- | --- |
| `RecorderTyped` | `TypeOK` is inductive |
| `RecorderStopsAlternate` | `Balanced`: which stop goes with which `pc` and `in_syscall`, at every place of the loop |
| `RecorderPayloadsAddressed` | `RefHeld`: also the reference not yet emitted addresses its bytes. Assumes `"flush"` is not among the faults: after `FlushFails` it is false |
| `RecorderLinesChained` | `WriterAtEnd`: `seq` and `prev_hash` are those of the writer's last own line |
| `RecorderWriteAhead` | `AheadBy` and `AboutToRecord`: how far the trace is ahead at each `pc`, and that the line written for the pending result has its name, result and bytes |
| `RecorderResultMatches` | `Started`, `Ended`, `Truthful`, `Stored`: what `child_exited` and the exit status say at each `pc`, and what a `result.json` of this process tells |
| `RecorderComplete` | these and `Transcript`: while no payload is given up, the own lines and `payload.bin` are those of the results observed, and of the pending one |
| `RecorderResultTranscribed` | these and `Referred` (a reference has a byte at least, and only a syscall has one), `Filled` (the kernel has filled what a result promises) and `Closed` (after a kill, too, results and lines are as many). Holds although a flush may fail |
| `RecorderImplementsJournal` | the invariants above; each step maps to a step of `Journal` or a stutter |

`ReplayerProofs`, for every program, kernel and fault set, and whatever the replayed and
the output directory hold:

| theorem | from |
| --- | --- |
| `ReplayerTyped` | `Pending`: an event that was chosen is the one at the cursor, so the cursor never passes the last event |
| `ReplayerInjectedInPlace` | `InPlace`, by `InjectStep` |
| `ReplayerDeterministic` | `AsRecorded` and `InPlace`, with `AtExitOnly` for the end. Both hold while `missed` is empty, and it never shrinks (`MissedGrows`) |
| `ReplayerLinesMatch` | `LinesInv`: where the line of the pending result is at each `pc`, and that the event that was chosen shows the program its payload (`FromTrace`) if the injection reaches it (`InjectReaches`) |
| `ReplayerSpentInOrder` | `SpentSoFar`: the payloads of the own lines are those of the events up to the cursor, without the last between an injection and its line |
| `ReplayerRefsEnd` | `BytesTold`: where the bytes of the last line end, and that those of the pending result follow them; after a crash the file is a beginning of such bytes (`CutShort`). Assumes what the property does: the payloads can be read, and were written out (`unsaved = {}`) |

The argument for determinism: `LoadedSoFar` says that the loaded events are the
replayable lines, every one, in their order. As long as the history is the beginning of
the recorded one (`AsRecorded`), the next syscall is the recorded one
(`NextAsRecorded`), because the program is a function of its history. `InPlace` says
that then the spent events are exactly those up to the current line; so the event at the
cursor is the syscall's own if it is replayed (`OwnEvent`), and is not touched if it is
not. What is injected shows the program the recorded observation (`InjectedIsRecorded`);
what is not injected gave the recorded result by `Reproducible`. So the history stays the
beginning of the recorded one. Neither `AsRecorded` nor `InPlace` is inductive without
the other. That the payloads of a covered recording can be read (`CoveredReadable`) is an
induction over the recursive `RecordedBytes`. The library's induction theorems take an
operator as a parameter and cannot be cited, so `TargetProofs` states the least-number
principle for a set of naturals (`Least`) and each induction over data is an argument by
the minimal counterexample (`StepByStep`, `BytesExist`, `RecordedAddresses`; in
`SessionProofs`, `CheckedRanks`).

`ReplayerLinesMatch` is about any recording, intact or not, and any replay, also one that
strays, under the two conditions `LinesMatchHistory` names: the payloads are there, and a
reference is as long as its result promises. A line in `missed` tells the syscall, and its
result and hash are only claimed. `RecorderPayloadsAddressed` and
`RecorderComplete` say that the recorder's directories meet them.

`SessionProofs`, for every pair of directories and every way the replayer may end:

| theorem | from |
| --- | --- |
| `SessionMismatchIsFirst` | `Judged`: the verdict is about what the files still hold. `FirstDifferenceFirst`: what the verifier computes is the first difference, also where one sequence ends before the other |
| `SessionVerdictComplete` | `ReplayInv`, `Judged`. Assumes that the replay starts in a new directory; in a used one it is false |
| `SessionVerdictSound` | `ReplayInv`, `Judged` and the three hypotheses below |

The argument for completeness: a replay that keeps to a covered recording has its lines
framed by `program_start` and, once it exited, `program_exit` (`Framed`), a result that
tells what was observed (`Ending`), and references with the length and the hash of the
recorded data (`Exactly`: `LinesMatchHistory` allows an empty reference, this does not).
By `ReplayerDeterministic` the history is the recorded one, so the two files have, line by
line, the same body up to the payload's offset (`FaithfulPasses`), and `CheckedAlike`, over
the recursive `CheckedEvents`, makes the checked events equal.

The argument for soundness is the other way round, from equal files to equal runs, and
about any replay, also one that strays. `CheckedRanks`: the checked events are lines of
the file, in order, and every line that is checked is one of them. `ToldSoFar` and
`Closing`: in the replay's file each result observed has its line, and before and after
them stands one of a process. So equal sequences of checked events pair lines of the two
files (`SeenAgain`), and two lines that compare equal tell of the same observation, the
bytes included (`ComparedSame`, with `Modest`: no observation is longer than its result
promises), unless it is in `missed`: there the pass tells of the syscall alone. An exit
code of 137 is not told from a SIGKILL by `verifier.py:100-104`, so `VerdictSound` claims the
code that the verifier compares, and not the signal. The hypotheses:

- the target's path is not quoted: otherwise nothing is compared (`MCSession_quoted`);
- `Transcribes`: the recording's lines tell the recorded run. `RecorderResultTranscribed`
  proves it of a first recording, killed targets and hook lines included, unless a payload was
  given up: then the line carries no hash, and a pass says nothing of those bytes;
- in `SessionVerdictSound`, a new output directory; `PipelineVerdictSound` does without.

`PipelineProofs`, for every number of repetitions, every outcome of each, every program
and every recording:

| theorem | from |
| --- | --- |
| `PipelineTyped` | `Bounded`: no more verdicts than repetitions, no more causes than `top_k` |
| `PipelineExitCode` | `LoopInv`: what `verdicts` and `report` may be at each stage (with `--stop-on-fail`, no earlier verdict is a failure, and `report` is the last of them at `analyze`) |
| `PipelineReportOfLast` | `Reported`, by `AnalyzedNow` |
| `PipelineInputNamedFirst` | `MismatchInWindow`: the event at the mismatch is in a window and is a replayed result. Assumes `LinesNumbered`: no line has the number 0 |
| `PipelineOutputNamed` | `OthersRanked`, `NearRanked`. Assumes `TopK >= 3`: with less, R-IO and R-SYNC may crowd R-OUTPUT out. `adr_cli/adr.py` gives 3 |
| `PipelineSyncNamedAtEnd` | `HookOutside`: no line of the hook is in a window around a recorder's number. Assumes `LinesNumbered` and `HookApart`: the recorder's numbers stay more than a window below the hook's 1000000001 |
| `PipelineMismatchIsFirst` | `Judged` at every stage |
| `PipelineVerdictComplete` | `UnderWay`. Needs no assumption on directories: every repetition has a new one (`Afresh`) |
| `PipelineVerdictSound` | `UnderWay`, with `PassSound` at each verdict |

`LinesNumbered` and `HookApart` are what the two writers guarantee: numbers are counted
from 1 by the recorder (`RecorderLinesChained`) and from 1000000001 by the hook. TLC
evaluates the first of them, and `Transcribes`, on the run's directories
(`MCPipelineAssumption`). The replayer's
invariants hold in a repetition because `Begins`, where a replayer begins on any
directory, is all they are proved from, and a `Record` step leads there (`BeginsNew`).

`SyncHookProofs`, for every program of legal calls and number of threads and mutexes:

| theorem | from |
| --- | --- |
| `HookTyped` | `InCall`: which call a thread is at at each `pc` |
| `HookSectionsDisjoint` | `OwnsInUse`, `Shown`, `Alternating`: who owns a mutex according to the program, and what the last line about it says, which is behind by one line while a thread is between the real call and its line |
| `HookSectionsNumbered` | `Counted`: the number a thread has drawn is above those of all the lines about the mutex it uses, and nobody else can write one in between. Holds although numbers are drawn and written in two steps, and lines may be lost |
| `HookDeadlockVisible` | the same and `EnteringShown` |
| `HookForkJoinOrdered` | `Creation`, `Lifetimes`: which lines a thread may have before it is created and after it was joined. Holds although lines may be lost |

`Sha256Proofs`, for every message, size of the read buffer and initial contents:

| theorem | from |
| --- | --- |
| `Sha256Typed` | `TypeOK` is inductive: a full block never waits for one more byte |
| `Sha256Streamed` | with `Control`, which counts agree at which `pc`: all of the message has been taken when `final` runs |
| `Sha256DigestOfMessage` | `Padded`: at `length` the blocks and the first 56 bytes of the buffer are those of the padding. The two paths are `PaddedShort` and `PaddedLong` |

Nearly every one of them is an invariant that is not inductive alone: the property speaks
of what is on disk or returned, and the strengthening adds what the program holds in its
locals. The assumptions not named in the tables are those of the modules, which TLC
evaluates on every run.

Only model-checked:

- `Finishes` of the recorder and of the replayer: TLAPS has no rule for fairness or
  ENABLED. Every other property of a passing run is the statement of a theorem.
- The properties of the five violation runs, which are false.

Nothing is proved of what a recursive definition computes for all data other than by
minimal counterexamples, as above. The hypotheses of the theorems on `VerdictSound`
are proved of the recorder in `RecorderProofs`; that its directory is one of `Traces` is
not a theorem, as the two programs' modules have variables of the same names.

## 5. Not modelled

- Utilities (paths, `mkdir -p`, the clock), argument parsing, finding the helpers,
  rendering reports: no control worth a state.
- `metadata.json`, but for its absence: `adr run` names the target itself.
- Output files that cannot be hashed, whose hash is the word "missing".
- The size of the caller's buffer: in a replay that has strayed an event may be written
  over a buffer smaller than the recorded one's. `InjectedInPlace` rules it out for covered
  recordings only.
- What a program makes of a result whose injection was missed: no property claims its line's
  result and hash. Nor is anything claimed of a recorded `-ERESTARTSYS` that
  is injected into a call no signal has interrupted; the recorder leaves none, as only reads
  and syscalls that are not replayed are interrupted here, and a read without bytes is not
  loaded.
- Fork, exec and network in the target: out of the program's scope
  (`docs/mvp_scope.md`).
- A replay whose output directory is the recording itself.
- The hash's compression function: its constants and rotations are one table-driven
  computation, for test vectors and not for states.

## 6. Plan

Done: all modules; the refinement of `Journal`; every safety property of every run as a
theorem.

Next:

1. An abstract replay (a cursor over the recorded results, each given to the program once
   and in order) that `Replayer` implements for every recording, as `Recorder` implements
   `Journal`.
2. `Covered` and `RefsFit` from the recorder's side: that a first recording without hook
   lines is `RecordedTrace` of its history is `RecorderComplete`; with hook lines it is so
   but for these, and `ReplayerDeterministic` could be stated for it.
3. The rules of the analyzer below the first three, in the order of their scores.
