---------------------------- MODULE RecorderProofs ----------------------------
(***************************************************************************)
(* What holds of the recorder for every program, every kernel, any number    *)
(* of recordings into one directory, and any number of lines from the hook.  *)
(***************************************************************************)
EXTENDS Recorder, TargetProofs

(***************************************************************************)
(* Type correctness.                                                        *)
(***************************************************************************)
\* emit_line keeps the writer's state and the file well formed.
LEMMA EmitInType ==
  ASSUME events \in Seq(LineType), prev_hash \in HashType,
         NEW body \in BodyType, Emit(body)
  PROVE  events' \in Seq(LineType) /\ prev_hash' \in HashType /\ seq' \in Nat
<1>1. Append(prev_hash, body) \in HashType
  BY AppendProperties DEF HashType
<1>2. Line(prev_hash, body) \in LineType
  BY <1>1 DEF Line, LineType
<1> QED
  BY <1>1, <1>2, AppendProperties DEF Emit, BodyType

\* The bytes read_child_mem copies, and the payload_ref built from them.
LEMMA CapturedTyped ==
  ASSUME TypeOK
  PROVE  /\ CapturedBytes \in Seq(Byte)
         /\ \A n \in 0 .. Len(CapturedBytes) - 1 : Take(CapturedBytes, n) \in Seq(Byte)
         /\ CapturedRef \in RefType
<1>1. CapturedBytes \in Seq(Byte)
  BY PayloadLenNat, TakePrefix, EmptySeq DEF TypeOK, TargetTypeOK, CapturedBytes
<1>2. \A n \in 0 .. Len(CapturedBytes) - 1 : Take(CapturedBytes, n) \in Seq(Byte)
  BY <1>1, TakePrefix
<1>3. Len(payload) \in Nat
  BY LenProperties DEF TypeOK
<1> QED
  BY <1>1, <1>2, <1>3, RefInType, NoRefInType DEF CapturedRef, PayloadOffset

\* TypeOK: every step of the recorder, the target, the hook and the environment
\* leaves the files and the recorder's variables well formed; in particular
\* main() never numbers, hashes or references anything it has not built.
LEMMA TypeStep ==
  ASSUME TypeOK, [Next]_vars
  PROVE  TypeOK'
<1> USE DEF Active, Over
<1>1. CASE OpenTrace
  BY <1>1, EmptySeq, LenProperties
  DEF TypeOK, TargetTypeOK, OpenTrace, Opens, TargetUnborn, TStates, loopVars, HashType
<1>2. CASE StartFails
  BY <1>2 DEF TypeOK, TargetTypeOK, StartFails, targetVars, diskVars, writerVars, loopVars
<1>3. CASE Fork
  BY <1>3, EmptySeq, NoRefInType
  DEF TypeOK, TargetTypeOK, Fork, TargetFork, TStates, Alive, Stopped, diskVars, writerVars,
      Calls, PayloadCalls
<1>4. CASE Attach
  <2>1. events' \in Seq(LineType) /\ prev_hash' \in HashType /\ seq' \in Nat
    BY <1>4, BodiesInType, EmitInType DEF TypeOK, Attach, EmitProcess, ProcessNames
  <2>2. TargetTypeOK'
    BY <1>4 DEF TypeOK, Attach, TargetTypeOK, ReapTarget, targetVars, TStates
  <2> QED
    BY <1>4, <2>1, <2>2 DEF TypeOK, Attach, loopVars
<1>5. CASE Resume
  BY <1>5, ResumeTyped DEF TypeOK, Resume, diskVars, writerVars, loopVars
<1>6. CASE PtraceFails
  BY <1>6 DEF TypeOK, TargetTypeOK, PtraceFails, targetVars, diskVars, writerVars, loopVars
<1>7. CASE WaitDeath
  <2>1. PICK name \in ProcessNames : EmitProcess(name)
    BY <1>7 DEF WaitDeath, ProcessNames
  <2>2. events' \in Seq(LineType) /\ prev_hash' \in HashType /\ seq' \in Nat
    BY <2>1, BodiesInType, EmitInType DEF TypeOK, EmitProcess
  <2>3. TargetTypeOK'
    BY <1>7 DEF TypeOK, WaitDeath, TargetTypeOK, ReapTarget, TStates
  <2> QED
    BY <1>7, <2>2, <2>3 DEF TypeOK, WaitDeath, loopVars
<1>8. CASE WaitSignalStop \/ WaitSyscallStop
  BY <1>8
  DEF TypeOK, TargetTypeOK, WaitSignalStop, WaitSyscallStop, targetVars, diskVars,
      writerVars, loopVars
<1>9. CASE AtEntry \/ AtExit
  BY <1>9
  DEF TypeOK, TargetTypeOK, AtEntry, AtExit, targetVars, diskVars, writerVars, loopVars
<1>10. CASE SavePayload \/ SavePayloadFails \/ FlushFails
  <2>1. payload' \in Seq(Byte) /\ payload_json' \in RefType
    BY <1>10, CapturedTyped, NoRefInType, ConcatProperties
    DEF TypeOK, SavePayload, SavePayloadFails, FlushFails
  <2> QED
    BY <1>10, <2>1
    DEF TypeOK, TargetTypeOK, SavePayload, SavePayloadFails, FlushFails, targetVars, writerVars
<1>11. CASE EmitSyscall
  <2>1. SyscallBody(entry, seq + 1, ret, payload_json) \in BodyType
    BY BodiesInType DEF TypeOK, TargetTypeOK
  <2>2. events' \in Seq(LineType) /\ prev_hash' \in HashType /\ seq' \in Nat
    BY <1>11, <2>1, EmitInType DEF TypeOK, EmitSyscall
  <2> QED
    BY <1>11, <2>2 DEF TypeOK, TargetTypeOK, EmitSyscall, targetVars
<1>12. CASE WriteResult \/ WriteResultFails
  <2>0. NoResult \in ResultType
    BY EmptySeq DEF NoResult, ResultType
  <2>1. result' \in ResultType
    BY <1>12, <2>0 DEF TypeOK, TargetTypeOK, WriteResult, WriteResultFails, ResultType
  <2> QED
    BY <1>12, <2>1
    DEF TypeOK, TargetTypeOK, WriteResult, WriteResultFails, targetVars, writerVars, loopVars
<1>13. CASE Close
  BY <1>13 DEF TypeOK, TargetTypeOK, Close, targetVars, diskVars, writerVars, loopVars
<1>14. CASE TargetMoves
  BY <1>14, TargetTyped DEF TypeOK, TargetMoves, diskVars, writerVars, loopVars
<1>15. CASE Crash
  BY <1>15
  DEF TypeOK, TargetTypeOK, Crash, DetachTarget, TStates, Alive, Stopped, diskVars,
      writerVars, loopVars
<1>16. CASE HookAppends
  <2>1. synced + 1 \in Nat
    BY DEF TypeOK
  <2>2. events' \in Seq(LineType) /\ synced' \in Nat
    BY <1>16, <2>1, SyncLineInType, AppendProperties DEF TypeOK, HookAppends
  <2> QED
    BY <1>16, <2>2 DEF TypeOK, TargetTypeOK, HookAppends, targetVars, writerVars, loopVars
<1>17. CASE UNCHANGED vars
  BY <1>17 DEF TypeOK, TargetTypeOK, vars, targetVars, diskVars, writerVars, loopVars
<1> QED
  BY <1>1, <1>2, <1>3, <1>4, <1>5, <1>6, <1>7, <1>8, <1>9, <1>10, <1>11, <1>12, <1>13,
     <1>14, <1>15, <1>16, <1>17
  DEF Next, RecorderStep

\* Every variable of the recorder keeps its type: in particular no line ever
\* refers to payload bytes by a negative offset or length.
THEOREM RecorderTyped == Spec => []TypeOK
<1>1. Init => TypeOK
  <2>1. << >> \in Seq(ObservationType) /\ << >> \in Seq(Byte)
    BY EmptySeq
  <2>2. << >> \in Seq(LineType) /\ << >> \in HashType
    BY EmptySeq DEF HashType
  <2>3. NoResult \in ResultType
    BY <2>1 DEF NoResult, ResultType
  <2>4. TargetInit => TargetTypeOK
    BY <2>1 DEF TargetInit, TargetTypeOK, TStates, Calls
  <2>5. "read" \in Calls /\ "idle" \in Active \cup Over
    BY DEF Calls, PayloadCalls, Over
  <2>6. 0 \in Nat
    OBVIOUS
  <2> QED
    BY <2>1, <2>2, <2>3, <2>4, <2>5, <2>6, NoRefInType, Zenon DEF Init, TypeOK
<1>2. TypeOK /\ [Next]_vars => TypeOK'
  BY TypeStep
<1> QED
  BY <1>1, <1>2, PTL DEF Spec

(***************************************************************************)
(* The stops alternate.  Which side of a syscall the flag stands for         *)
(* depends on where main() is in its loop and where that leaves the target.  *)
(***************************************************************************)
Balanced ==
  /\ pc = "attach" => tstate \in {"raised", "killed"} /\ ~in_syscall
  /\ pc = "resume" =>
       /\ tstate \in Stopped \cup {"killed", "reaped"}
       /\ tstate \in Stopped => (in_syscall <=> tstate = "entry")
  /\ pc = "wait" =>
       /\ tstate \in (Alive \ {"raised"}) \cup {"exited", "killed"}
       /\ tstate \in Alive => (in_syscall <=> tstate \in {"kernel", "exitstop"})
  /\ pc = "stopped" =>
       /\ tstate \in {"entry", "exitstop", "killed"}
       /\ tstate # "killed" => (in_syscall <=> tstate = "exitstop")
  /\ pc \in {"payload", "emit"} => tstate \in {"exitstop", "killed"} /\ in_syscall

\* Balanced is inductive: main()'s in_syscall and the target's stop change
\* together, whatever signals, deaths and crashes come between.
LEMMA BalancedStep ==
  ASSUME TypeOK, Balanced, [Next]_vars
  PROVE  Balanced'
<1> USE DEF Balanced, Alive, Stopped
<1>1. CASE OpenTrace \/ StartFails \/ Crash \/ WriteResult \/ WriteResultFails \/ Close
  BY <1>1 DEF OpenTrace, Opens, StartFails, Crash, WriteResult, WriteResultFails, Close
<1>2. CASE Fork \/ Attach
  BY <1>2 DEF Fork, TargetFork, Attach, ReapTarget, targetVars, loopVars
<1>3. CASE Resume
  BY <1>3 DEF Resume, ResumeTarget, loopVars
<1>4. CASE PtraceFails \/ WaitDeath
  BY <1>4 DEF PtraceFails, WaitDeath
<1>5. CASE WaitSignalStop \/ WaitSyscallStop
  BY <1>5 DEF WaitSignalStop, WaitSyscallStop, targetVars, loopVars
<1>6. CASE AtEntry \/ AtExit
  BY <1>6 DEF AtEntry, AtExit, targetVars, loopVars
<1>7. CASE SavePayload \/ SavePayloadFails \/ FlushFails
  BY <1>7 DEF SavePayload, SavePayloadFails, FlushFails, targetVars
<1>8. CASE EmitSyscall
  BY <1>8 DEF EmitSyscall, targetVars
<1>9. CASE TargetMoves
  BY <1>9
  DEF TargetMoves, TargetNext, TargetRuns, EnterSyscall, KernelReturns, Exits, FaultStops,
      SignalStops, Interrupts, Killed, loopVars
<1>10. CASE HookAppends \/ UNCHANGED vars
  BY <1>10 DEF HookAppends, vars, targetVars, loopVars
<1> QED
  BY <1>1, <1>2, <1>3, <1>4, <1>5, <1>6, <1>7, <1>8, <1>9, <1>10 DEF Next, RecorderStep

\* StopsAlternate: at every syscall stop the loop looks at, its in_syscall flag
\* tells entry from exit, whatever signals, faults and kills came before.
THEOREM RecorderStopsAlternate == Spec => []StopsAlternate
<1>1. Init => Balanced
  BY DEF Init, Balanced
<1>2. TypeOK /\ Balanced /\ [Next]_vars => Balanced'
  BY BalancedStep
<1>3. TypeOK /\ Balanced => StopsAlternate
  BY DEF Balanced, StopsAlternate, Stopped
<1> QED
  BY <1>1, <1>2, <1>3, RecorderTyped, PTL DEF Spec

(***************************************************************************)
(* How a step changes events.jsonl: this process's lines start over, grow by *)
(* one, or stay as they are.                                                 *)
(***************************************************************************)
BaseInFile == base <= Len(events)
KeepsLines == UNCHANGED << events, base, seq, prev_hash >>

\* A body the recorder emits: never one of the hook's.
OwnBodies == {body \in BodyType : body.etype # "SYNC"}

\* emit_line adds exactly one line to this process's, below all of them.
LEMMA EmitOwn ==
  ASSUME TypeOK, BaseInFile, NEW body \in OwnBodies, Emit(body), base' = base
  PROVE  /\ OwnLines' = OwnLines \cup {Len(events) + 1}
         /\ Len(events') = Len(events) + 1
         /\ events'[Len(events) + 1] = Line(prev_hash, body)
         /\ \A i \in 1 .. Len(events) : events'[i] = events[i]
<1>1. Line(prev_hash, body) \in LineType
  <2>1. Append(prev_hash, body) \in HashType
    BY AppendProperties DEF TypeOK, HashType, OwnBodies
  <2> QED
    BY <2>1 DEF TypeOK, Line, LineType, OwnBodies
<1>2. /\ Len(events') = Len(events) + 1
      /\ \A i \in 1 .. Len(events) : events'[i] = events[i]
      /\ events'[Len(events) + 1] = Line(prev_hash, body)
  BY <1>1, AppendProperties DEF TypeOK, Emit
<1>3. Len(events) \in Nat /\ base \in Nat
  BY LenProperties DEF TypeOK
<1>4. events'[Len(events) + 1].body.etype # "SYNC"
  BY <1>2 DEF Line, OwnBodies
<1>5. \A i : i \in OwnLines' <=> i \in OwnLines \cup {Len(events) + 1}
  BY <1>2, <1>3, <1>4 DEF OwnLines, Own, BaseInFile
<1> QED
  BY <1>2, <1>5

\* A line of the hook is not one of this process's.
LEMMA HookOwn ==
  ASSUME TypeOK, HookAppends
  PROVE  /\ OwnLines' = OwnLines
         /\ Len(events') = Len(events) + 1
         /\ \A i \in 1 .. Len(events) : events'[i] = events[i]
<1>1. SyncLine(synced + 1) \in LineType
  BY SyncLineInType DEF TypeOK
<1>2. /\ Len(events') = Len(events) + 1
      /\ \A i \in 1 .. Len(events) : events'[i] = events[i]
      /\ events'[Len(events) + 1] = SyncLine(synced + 1)
  BY <1>1, AppendProperties DEF TypeOK, HookAppends
<1>3. Len(events) \in Nat /\ base \in Nat /\ base' = base
  BY LenProperties DEF TypeOK, HookAppends
<1>4. events'[Len(events) + 1].body.etype = "SYNC"
  BY <1>2 DEF SyncLine, SyncBody, Body
<1>5. \A i : i \in OwnLines' <=> i \in OwnLines
  BY <1>2, <1>3, <1>4 DEF OwnLines, Own
<1> QED
  BY <1>2, <1>5

\* Whatever a step does, it does one of four things to the lines.
LEMMA LineSteps ==
  ASSUME TypeOK, [Next]_vars
  PROVE  \/ OpenTrace
         \/ HookAppends
         \/ KeepsLines
         \/ \E body \in OwnBodies : body.seq = seq + 1 /\ Emit(body) /\ base' = base
<1>1. CASE Attach \/ WaitDeath
  <2>1. PICK name \in ProcessNames : EmitProcess(name) /\ base' = base
    BY <1>1 DEF Attach, WaitDeath, ProcessNames
  <2>2. ProcessBody(name, seq + 1) \in OwnBodies /\ ProcessBody(name, seq + 1).seq = seq + 1
    BY BodiesInType DEF TypeOK, OwnBodies, ProcessBody, Body
  <2> QED
    BY <2>1, <2>2 DEF EmitProcess
<1>2. CASE EmitSyscall
  <2> DEFINE body == SyscallBody(entry, seq + 1, ret, payload_json)
  <2>1. body \in OwnBodies /\ body.seq = seq + 1
    BY BodiesInType DEF TypeOK, TargetTypeOK, OwnBodies, SyscallBody, Body
  <2> QED
    BY <1>2, <2>1 DEF EmitSyscall
<1>3. CASE StartFails \/ Fork \/ Resume \/ PtraceFails \/ WaitSignalStop \/ WaitSyscallStop
           \/ AtEntry \/ AtExit \/ TargetMoves \/ Crash \/ WriteResult \/ WriteResultFails \/ Close
  BY <1>3
  DEF StartFails, Fork, Resume, PtraceFails, WaitSignalStop, WaitSyscallStop, AtEntry, AtExit,
      TargetMoves, Crash, WriteResult, WriteResultFails, Close, KeepsLines, diskVars, writerVars
<1>4. CASE SavePayload \/ SavePayloadFails \/ FlushFails \/ UNCHANGED vars
  BY <1>4
  DEF SavePayload, SavePayloadFails, FlushFails, KeepsLines, diskVars, writerVars, vars
<1> QED
  BY <1>1, <1>2, <1>3, <1>4 DEF Next, RecorderStep

\* A new recorder owns no line yet, and its chain starts anew.
LEMMA OpenOwn ==
  ASSUME TypeOK, OpenTrace
  PROVE  OwnLines' = {} /\ BaseInFile' /\ seq' = 0 /\ prev_hash' = << >>
<1>1. Len(events) \in Nat /\ base' = Len(events) /\ events' = events
  BY LenProperties DEF TypeOK, OpenTrace, Opens
<1> QED
  BY <1>1 DEF OpenTrace, OwnLines, BaseInFile

\* A step that adds no line changes none of the lines the recorder owns.
LEMMA KeepOwn ==
  ASSUME KeepsLines
  PROVE  OwnLines' = OwnLines /\ (BaseInFile => BaseInFile')
BY DEF KeepsLines, OwnLines, Own, BaseInFile

\* BaseInFile is inductive.
LEMMA BaseStep ==
  ASSUME TypeOK, BaseInFile, [Next]_vars
  PROVE  BaseInFile'
<1>1. Len(events) \in Nat /\ base \in Nat
  BY LenProperties DEF TypeOK
<1> QED
  BY <1>1, LineSteps, OpenOwn, KeepOwn, HookOwn, EmitOwn DEF BaseInFile, HookAppends

\* events.jsonl never gets shorter than it was when the recorder opened it.
THEOREM RecorderBase == Spec => []BaseInFile
<1>1. Init => BaseInFile
  BY EmptySeq DEF Init, BaseInFile
<1>2. TypeOK /\ BaseInFile /\ [Next]_vars => BaseInFile'
  BY BaseStep
<1> QED
  BY <1>1, <1>2, RecorderTyped, PTL DEF Spec

\* The bytes of the payload_ref about to be emitted are already in payload.bin.
RefHeld ==
  /\ PayloadsAddressed
  /\ pc = "emit" => Addresses(payload, payload_json)

\* A line the recorder owns has a reference of the right type.
LEMMA OwnRefTyped ==
  ASSUME TypeOK, NEW i \in OwnLines
  PROVE  i \in 1 .. Len(events) /\ events[i].body.payload_ref \in RefType
<1>1. Len(events) \in Nat /\ base \in Nat
  BY LenProperties DEF TypeOK
<1>2. i \in 1 .. Len(events)
  BY <1>1 DEF OwnLines
<1>3. events[i] \in LineType
  BY <1>2, ElementOfSeq DEF TypeOK
<1> QED
  BY <1>2, <1>3 DEF LineType, BodyType

\* The references and what they address: inductive when fflush does not fail.
LEMMA RefStep ==
  ASSUME TypeOK, BaseInFile, RefHeld, "flush" \notin Faults, [Next]_vars
  PROVE  RefHeld'
<1>1. CASE OpenTrace
  BY <1>1, OpenOwn DEF RefHeld, PayloadsAddressed, OpenTrace, Opens
<1>2. CASE HookAppends
  <2>1. payload' = payload /\ pc' = pc /\ payload_json' = payload_json
    BY <1>2 DEF HookAppends, loopVars
  <2> QED
    BY <1>2, <2>1, HookOwn, OwnRefTyped DEF RefHeld, PayloadsAddressed
<1>3. ASSUME NEW body \in OwnBodies, Emit(body), base' = base, payload' = payload,
             Addresses(payload, body.payload_ref), pc' # "emit"
      PROVE  RefHeld'
  <2>1. /\ OwnLines' = OwnLines \cup {Len(events) + 1}
        /\ events'[Len(events) + 1] = Line(prev_hash, body)
        /\ \A i \in 1 .. Len(events) : events'[i] = events[i]
    BY <1>3, EmitOwn
  <2>2. Addresses(payload, events'[Len(events) + 1].body.payload_ref)
    BY <1>3, <2>1 DEF Line
  <2>3. \A i \in OwnLines : Addresses(payload, events'[i].body.payload_ref)
    BY <2>1, OwnRefTyped DEF RefHeld, PayloadsAddressed
  <2> QED
    BY <1>3, <2>1, <2>2, <2>3 DEF RefHeld, PayloadsAddressed
<1>4. CASE Attach \/ WaitDeath
  <2>1. PICK name \in ProcessNames : EmitProcess(name) /\ base' = base
    BY <1>4 DEF Attach, WaitDeath, ProcessNames
  <2>2. ProcessBody(name, seq + 1) \in OwnBodies
    BY BodiesInType DEF TypeOK, OwnBodies, ProcessBody, Body
  <2>3. Addresses(payload, ProcessBody(name, seq + 1).payload_ref)
    BY AddressesNone DEF TypeOK, ProcessBody, Body
  <2>4. payload' = payload /\ pc' # "emit"
    BY <1>4 DEF Attach, WaitDeath
  <2> QED
    BY <1>3, <2>1, <2>2, <2>3, <2>4 DEF EmitProcess
<1>5. CASE EmitSyscall
  <2>1. SyscallBody(entry, seq + 1, ret, payload_json) \in OwnBodies
    BY BodiesInType DEF TypeOK, TargetTypeOK, OwnBodies, SyscallBody, Body
  <2>2. Addresses(payload, SyscallBody(entry, seq + 1, ret, payload_json).payload_ref)
    BY <1>5 DEF EmitSyscall, RefHeld, SyscallBody, Body
  <2> QED
    BY <1>3, <1>5, <2>1, <2>2 DEF EmitSyscall
<1>6. CASE SavePayload
  <2>1. CapturedBytes \in Seq(Byte)
    BY CapturedTyped
  <2>2. KeepsLines /\ payload' = payload \o CapturedBytes /\ payload_json' = CapturedRef
    BY <1>6 DEF SavePayload, KeepsLines, writerVars
  <2>3. Addresses(payload', payload_json')
    BY <2>1, <2>2, AddressesNew, AddressesNone, ConcatProperties
    DEF TypeOK, CapturedRef, PayloadOffset
  <2>4. \A i \in OwnLines : Addresses(payload', events[i].body.payload_ref)
    BY <2>1, <2>2, AddressesGrow, OwnRefTyped DEF RefHeld, PayloadsAddressed, TypeOK
  <2> QED
    BY <2>2, <2>3, <2>4, KeepOwn DEF RefHeld, PayloadsAddressed, KeepsLines
<1>7. CASE SavePayloadFails
  <2>1. PICK added \in Seq(Byte) : payload' = payload \o added
    <3>1. CASE payload' = payload
      BY <3>1, EmptySeq, ConcatEmptySeq DEF TypeOK
    <3>2. CASE \E n \in 0 .. Len(CapturedBytes) - 1 :
                 payload' = payload \o Take(CapturedBytes, n)
      BY <3>2, CapturedTyped
    <3> QED
      BY <1>7, <3>1, <3>2 DEF SavePayloadFails
  <2>2. KeepsLines /\ payload_json' = NoRef
    BY <1>7 DEF SavePayloadFails, KeepsLines, writerVars
  <2>3. Addresses(payload', payload_json')
    BY <2>1, <2>2, AddressesNone, ConcatProperties DEF TypeOK
  <2>4. \A i \in OwnLines : Addresses(payload', events[i].body.payload_ref)
    BY <2>1, <2>2, AddressesGrow, OwnRefTyped DEF RefHeld, PayloadsAddressed, TypeOK
  <2> QED
    BY <2>2, <2>3, <2>4, KeepOwn DEF RefHeld, PayloadsAddressed, KeepsLines
<1>8. CASE StartFails \/ Fork \/ Resume \/ PtraceFails \/ WaitSignalStop \/ WaitSyscallStop
           \/ AtEntry \/ AtExit \/ TargetMoves \/ Crash \/ WriteResult \/ WriteResultFails \/ Close
           \/ UNCHANGED vars
  <2>1. /\ KeepsLines
        /\ payload' = payload
        /\ pc' = "emit" => pc = "emit" /\ payload_json' = payload_json
    BY <1>8
    DEF StartFails, Fork, Resume, PtraceFails, WaitSignalStop, WaitSyscallStop, AtEntry, AtExit,
        TargetMoves, Crash, WriteResult, WriteResultFails, Close, vars, KeepsLines, diskVars, writerVars, loopVars
  <2> QED
    BY <2>1, KeepOwn DEF RefHeld, PayloadsAddressed, KeepsLines
<1> QED
  BY <1>1, <1>2, <1>4, <1>5, <1>6, <1>7, <1>8 DEF Next, RecorderStep, FlushFails

\* PayloadsAddressed: at every moment, and so after the recorder is killed at any
\* moment, the payload_refs it wrote address bytes that are in payload.bin.
\* The one thing it takes on trust is fflush, whose result it does not look at.
THEOREM RecorderPayloadsAddressed ==
  ASSUME "flush" \notin Faults
  PROVE  Spec => []PayloadsAddressed
<1>1. Init => RefHeld
  <2>1. Init => OwnLines = {}
    BY EmptySeq DEF Init, OwnLines
  <2> QED
    BY <2>1 DEF Init, RefHeld, PayloadsAddressed
<1>2. TypeOK /\ BaseInFile /\ RefHeld /\ [Next]_vars => RefHeld'
  BY RefStep
<1>3. RefHeld => PayloadsAddressed
  BY DEF RefHeld
<1> QED
  BY <1>1, <1>2, <1>3, RecorderTyped, RecorderBase, PTL DEF Spec

(***************************************************************************)
(* The lines are numbered and chained.                                      *)
(***************************************************************************)
\* The writer's seq and prev_hash are those of the last line it wrote.
LastOwn(i) == i \in OwnLines /\ \A j \in OwnLines : j <= i
WriterAtEnd ==
  /\ OwnLines = {} => seq = 0 /\ prev_hash = << >>
  /\ \A i \in OwnLines : LastOwn(i) =>
       seq = events[i].body.seq /\ prev_hash = events[i].event_hash

\* The recorder's own lines stand above base.
LEMMA OwnBelow ==
  ASSUME TypeOK
  PROVE  \A i \in OwnLines : i \in Nat /\ base < i /\ i <= Len(events)
BY LenProperties DEF TypeOK, OwnLines

\* The chain of the recorder's own lines, with its writer at the end of it, is
\* inductive.
LEMMA ChainStep ==
  ASSUME TypeOK, BaseInFile, WriterAtEnd, LinesChained, [Next]_vars
  PROVE  WriterAtEnd' /\ LinesChained'
<1>1. CASE OpenTrace
  BY <1>1, OpenOwn DEF WriterAtEnd, LinesChained, LastOwn
<1>2. ASSUME OwnLines' = OwnLines, base' = base, seq' = seq, prev_hash' = prev_hash,
             \A i \in OwnLines : events'[i] = events[i]
      PROVE  WriterAtEnd' /\ LinesChained'
  BY <1>2 DEF WriterAtEnd, LinesChained, LastOwn, Between
<1>3. CASE HookAppends
  <2>1. base' = base /\ seq' = seq /\ prev_hash' = prev_hash
    BY <1>3 DEF HookAppends, writerVars
  <2> QED
    BY <1>2, <1>3, <2>1, HookOwn, OwnRefTyped
<1>4. CASE KeepsLines
  BY <1>2, <1>4, KeepOwn DEF KeepsLines
<1>5. ASSUME NEW body \in OwnBodies, body.seq = seq + 1, Emit(body), base' = base
      PROVE  WriterAtEnd' /\ LinesChained'
  <2> DEFINE n == Len(events) + 1
  <2>1. /\ OwnLines' = OwnLines \cup {n}
        /\ events'[n] = Line(prev_hash, body)
        /\ \A i \in OwnLines : events'[i] = events[i]
    BY <1>5, EmitOwn, OwnRefTyped
  <2>2. \A i \in OwnLines : i \in Nat /\ base < i /\ i < n
    BY OwnBelow, LenProperties DEF TypeOK
  <2>3. n \in Nat /\ base \in Nat /\ base < n
    BY LenProperties DEF TypeOK, BaseInFile
  <2>4. /\ events'[n].body.seq = seq + 1 /\ events'[n].prev_hash = prev_hash
        /\ seq' = events'[n].body.seq /\ prev_hash' = events'[n].event_hash
    BY <1>5, <2>1 DEF Emit, Line
  <2> HIDE DEF n
  <2>5. WriterAtEnd'
    <3>1. \A i \in OwnLines' : LastOwn(i)' => i = n
      BY <2>1, <2>2, <2>3 DEF LastOwn
    <3> QED
      BY <2>1, <2>4, <3>1 DEF WriterAtEnd, LastOwn
  <2>6. ASSUME NEW j \in OwnLines', Between(base, j)' = {}
        PROVE  events'[j].body.seq = 1 /\ events'[j].prev_hash = << >>
    <3>1. CASE j = n
      <4>1. OwnLines = {}
        BY <1>5, <2>1, <2>2, <2>6, <3>1 DEF Between
      <4> QED
        BY <2>4, <3>1, <4>1 DEF WriterAtEnd
    <3>2. CASE j \in OwnLines
      <4>1. Between(base, j) = {}
        BY <1>5, <2>1, <2>6 DEF Between
      <4> QED
        BY <2>1, <3>2, <4>1 DEF LinesChained
    <3> QED
      BY <2>1, <2>6, <3>1, <3>2
  <2>7. ASSUME NEW i \in OwnLines', NEW j \in OwnLines', i < j, Between(i, j)' = {}
        PROVE  /\ events'[j].body.seq = events'[i].body.seq + 1
               /\ events'[j].prev_hash = events'[i].event_hash
    <3>1. i \in OwnLines
      BY <2>1, <2>2, <2>3, <2>7
    <3>2. CASE j = n
      <4>1. \A k \in OwnLines : ~(i < k /\ k < n)
        BY <2>1, <2>7, <3>2 DEF Between
      <4>2. LastOwn(i)
        BY <2>2, <3>1, <4>1 DEF LastOwn
      <4> QED
        BY <2>1, <2>4, <3>1, <3>2, <4>2 DEF WriterAtEnd
    <3>3. CASE j \in OwnLines
      <4>1. Between(i, j) = {}
        BY <2>1, <2>7 DEF Between
      <4> QED
        BY <2>1, <2>7, <3>1, <3>3, <4>1 DEF LinesChained
    <3> QED
      BY <2>1, <2>7, <3>2, <3>3
  <2> QED
    BY <1>5, <2>5, <2>6, <2>7 DEF LinesChained
<1> QED
  BY <1>1, <1>3, <1>4, <1>5, LineSteps

\* LinesChained: whatever the hook's threads append between them, and whatever
\* earlier recordings left above them, one process's lines are numbered from 1
\* without a gap and each carries the hash of the one before.
THEOREM RecorderLinesChained == Spec => []LinesChained
<1>1. Init => WriterAtEnd /\ LinesChained
  <2>1. Init => OwnLines = {}
    BY EmptySeq DEF Init, OwnLines
  <2> QED
    BY <2>1 DEF Init, WriterAtEnd, LinesChained, LastOwn
<1>2. TypeOK /\ BaseInFile /\ WriterAtEnd /\ LinesChained /\ [Next]_vars
      => WriterAtEnd' /\ LinesChained'
  BY ChainStep
<1> QED
  BY <1>1, <1>2, RecorderTyped, RecorderBase, PTL DEF Spec

(***************************************************************************)
(* Write-ahead.                                                             *)
(***************************************************************************)
\* While main() is in its loop it is one line ahead of the target, counting
\* program_start, and two from the moment a syscall's line is written to the
\* moment the target is resumed, or for good if it is killed in between.
Dead == {"killed", "reaped"}
InLoop == pc \in {"resume", "wait", "stopped", "payload", "emit"}
InFlight == Observation(call, ret, mem)
AheadBy ==
  /\ pc \in {"opened", "attach"} => hist = << >> /\ seq = 0 /\ OwnLines = {}
  /\ pc \in {"wait", "stopped", "payload", "emit"} => seq = Len(hist) + 1
  /\ pc = "resume" =>
       /\ tstate \notin Dead \cup {"exitstop"} => seq = Len(hist) + 1
       /\ tstate \in Dead => seq \in {Len(hist) + 1, Len(hist) + 2}
       /\ tstate = "exitstop" => seq = Len(hist) + 2 /\ Recorded(Len(hist) + 1, InFlight)
AboutToRecord ==
  /\ InLoop /\ in_syscall => entry = call
  /\ pc = "emit" /\ payload_json.length > 0 => payload_json.sha256 = InFlight.data
Ahead == WriteAhead /\ AheadBy /\ AboutToRecord

\* Lines, once there, stay and keep saying what they said.
LinesStay ==
  OwnLines \subseteq OwnLines' /\ \A i \in OwnLines : events'[i] = events[i]

\* What is recorded stays recorded.
LEMMA RecordedStays ==
  ASSUME LinesStay
  PROVE  \A k, o : Recorded(k, o) => Recorded(k, o)'
BY DEF LinesStay, Recorded, SyscallLine

\* The lines a step adds do not run further ahead than two.
LEMMA WriteAheadKept ==
  ASSUME WriteAhead, LinesStay, hist' = hist,
         \A i \in OwnLines' \ OwnLines :
           events'[i].body.etype = "SYSCALL" => events'[i].body.seq <= Len(hist) + 2
  PROVE  WriteAhead'
<1>1. \A k \in 1 .. Len(hist) : Recorded(k, hist[k])'
  BY RecordedStays DEF WriteAhead, Recorded
<1> QED
  BY <1>1 DEF WriteAhead, LinesStay, SyscallLine

\* No step but the opening of a new recording removes or changes a line.
LEMMA StaySteps ==
  ASSUME TypeOK, BaseInFile, [Next]_vars, ~OpenTrace
  PROVE  LinesStay
<1>1. CASE HookAppends
  BY <1>1, HookOwn, OwnRefTyped DEF LinesStay
<1>2. CASE KeepsLines
  BY <1>2, KeepOwn DEF LinesStay, KeepsLines
<1>3. ASSUME NEW body \in OwnBodies, Emit(body), base' = base
      PROVE  LinesStay
  BY <1>3, EmitOwn, OwnRefTyped DEF LinesStay
<1> QED
  BY <1>1, <1>2, <1>3, LineSteps

\* The target does not move while main() looks at a syscall stop or holds its
\* result: what is in flight stays what it was.
LEMMA TargetHeld ==
  ASSUME TypeOK, Balanced, TargetMoves
  PROVE  /\ hist' = hist
         /\ pc \in {"resume", "stopped", "payload", "emit"} =>
              UNCHANGED << call, ret, mem >> /\ tstate' \in {tstate, "killed"}
         /\ in_syscall /\ InLoop => call' = call
<1> USE DEF Balanced, InLoop, TargetMoves, Alive, Stopped
<1>1. CASE Killed
  BY <1>1 DEF Killed
<1>2. CASE SignalStops \/ FaultStops \/ EnterSyscall
  <2>1. pc # "stopped" /\ pc # "resume" /\ pc # "payload" /\ pc # "emit" /\ ~(in_syscall /\ InLoop)
    BY <1>2 DEF SignalStops, FaultStops, EnterSyscall
  <2> QED
    BY <1>2, <2>1 DEF SignalStops, FaultStops, EnterSyscall
<1>3. CASE KernelReturns \/ Exits \/ Interrupts
  BY <1>3 DEF KernelReturns, Exits, Interrupts
<1> QED
  BY <1>1, <1>2, <1>3 DEF TargetNext, TargetRuns

\* AboutToRecord: entry names the syscall the target is in, and the payload_ref
\* built for it holds the bytes the program will find in its buffer.
LEMMA AboutStep ==
  ASSUME TypeOK, Balanced, AboutToRecord, [Next]_vars
  PROVE  AboutToRecord'
<1> USE DEF AboutToRecord, InLoop, InFlight
<1>1. CASE OpenTrace \/ StartFails \/ Crash \/ WriteResult \/ WriteResultFails \/ Close \/ PtraceFails
           \/ WaitDeath \/ Fork
  BY <1>1 DEF OpenTrace, Opens, StartFails, Crash, WriteResult, WriteResultFails, Close, PtraceFails, WaitDeath, Fork
<1>2. CASE Attach
  BY <1>2 DEF Attach, Balanced, loopVars
<1>3. CASE Resume
  BY <1>3 DEF Resume, ResumeTarget, loopVars
<1>4. CASE WaitSignalStop \/ WaitSyscallStop \/ AtEntry \/ AtExit
  BY <1>4 DEF WaitSignalStop, WaitSyscallStop, AtEntry, AtExit, targetVars, loopVars
<1>5. CASE SavePayload \/ SavePayloadFails \/ FlushFails
  <2>1. in_syscall /\ pc = "payload" /\ pc' = "emit" /\ entry' = entry /\ in_syscall' = in_syscall
        /\ UNCHANGED << call, ret, mem >>
    BY <1>5 DEF SavePayload, SavePayloadFails, FlushFails, Balanced, targetVars
  <2>2. payload_json' = NoRef \/ payload_json' = Ref(Len(payload), CapturedBytes)
    BY <1>5 DEF SavePayload, SavePayloadFails, FlushFails, CapturedRef, PayloadOffset
  <2>3. NoRef.length = 0
    BY EmptySeq DEF NoRef, Ref
  <2>4. CASE payload_json' = Ref(Len(payload), CapturedBytes)
    <3>1. CASE entry \in PayloadCalls
      BY <2>1, <2>4, <3>1 DEF CapturedBytes, Observation, Ref
    <3>2. CASE entry \notin PayloadCalls
      BY <2>1, <2>4, <3>2, EmptySeq DEF CapturedBytes, Ref
    <3> QED
      BY <3>1, <3>2
  <2> QED
    BY <2>1, <2>2, <2>3, <2>4
<1>6. CASE EmitSyscall
  BY <1>6 DEF EmitSyscall
<1>7. CASE TargetMoves
  BY <1>7, TargetHeld DEF TargetMoves, loopVars, Observation
<1>8. CASE HookAppends \/ UNCHANGED vars
  BY <1>8 DEF HookAppends, vars, targetVars, loopVars
<1> QED
  BY <1>1, <1>2, <1>3, <1>4, <1>5, <1>6, <1>7, <1>8 DEF Next, RecorderStep

\* The result a resume is about to show the program has been written.
LEMMA WriteAheadStep ==
  ASSUME TypeOK, BaseInFile, Balanced, Ahead, [Next]_vars
  PROVE  WriteAhead'
<1> USE DEF Ahead
<1>1. CASE OpenTrace
  <2>1. hist' = << >> /\ OwnLines' = {}
    BY <1>1, OpenOwn DEF OpenTrace, Opens, TargetUnborn
  <2> QED
    BY <2>1, EmptySeq DEF WriteAhead
<1>2. CASE Fork
  <2>1. hist' = << >> /\ KeepsLines /\ OwnLines = {}
    BY <1>2 DEF Fork, TargetFork, KeepsLines, AheadBy, diskVars, writerVars
  <2> QED
    BY <2>1, EmptySeq, KeepOwn DEF WriteAhead
<1>3. CASE Attach \/ WaitDeath
  <2>1. PICK name \in ProcessNames : EmitProcess(name) /\ base' = base /\ hist' = hist
    BY <1>3 DEF Attach, WaitDeath, ProcessNames, ReapTarget, targetVars
  <2>2. ProcessBody(name, seq + 1) \in OwnBodies
    BY BodiesInType DEF TypeOK, OwnBodies, ProcessBody, Body
  <2>3. LinesStay
    BY <1>3, StaySteps DEF Attach, WaitDeath, OpenTrace, Opens, Over
  <2>4. \A i \in OwnLines' \ OwnLines : events'[i] = Line(prev_hash, ProcessBody(name, seq + 1))
    BY <2>1, <2>2, EmitOwn DEF EmitProcess
  <2>5. \A i \in OwnLines' \ OwnLines : events'[i].body.etype # "SYSCALL"
    BY <2>4 DEF Line, ProcessBody, Body
  <2> QED
    BY <2>1, <2>3, <2>5, WriteAheadKept
<1>4. CASE EmitSyscall
  <2> DEFINE body == SyscallBody(entry, seq + 1, ret, payload_json)
  <2>1. body \in OwnBodies /\ body.seq = seq + 1
    BY BodiesInType DEF TypeOK, TargetTypeOK, OwnBodies, SyscallBody, Body
  <2>2. Emit(body) /\ base' = base /\ hist' = hist /\ seq = Len(hist) + 1
    BY <1>4 DEF EmitSyscall, targetVars, AheadBy
  <2>3. LinesStay
    BY <1>4, StaySteps DEF EmitSyscall, OpenTrace, Opens, Over
  <2> HIDE DEF body
  <2>4. \A i \in OwnLines' \ OwnLines : events'[i] = Line(prev_hash, body)
    BY <2>1, <2>2, EmitOwn
  <2>5. \A i \in OwnLines' \ OwnLines : events'[i].body.seq = seq + 1
    BY <2>1, <2>4 DEF Line
  <2>6. Len(hist) \in Nat
    BY LenProperties DEF TypeOK, TargetTypeOK
  <2> QED
    BY <2>2, <2>3, <2>5, <2>6, WriteAheadKept
<1>5. CASE Resume
  <2>1. LinesStay /\ OwnLines' = OwnLines
    BY <1>5, StaySteps, KeepOwn
    DEF Resume, OpenTrace, Opens, Over, KeepsLines, diskVars, writerVars
  <2>2. CASE hist' = hist
    BY <2>1, <2>2, WriteAheadKept
  <2>3. CASE tstate = "exitstop" /\ hist' = Append(hist, InFlight)
    <3>1. InFlight \in ObservationType /\ hist \in Seq(ObservationType)
      BY ObservationInType DEF TypeOK, TargetTypeOK, InFlight
    <3>2. /\ Len(hist') = Len(hist) + 1 /\ Len(hist) \in Nat
          /\ hist'[Len(hist) + 1] = InFlight
          /\ \A k \in 1 .. Len(hist) : hist'[k] = hist[k]
      BY <2>3, <3>1, AppendProperties, LenProperties
    <3>3. \A k \in 1 .. Len(hist') :
            \E i \in OwnLines' : /\ events'[i].body.etype = "SYSCALL"
                                 /\ events'[i].body.seq = k + 1
                                 /\ Records(events'[i].body, hist'[k])
      <4>1. Recorded(Len(hist) + 1, InFlight)
        BY <1>5, <2>3 DEF Resume, AheadBy, Dead
      <4>2. \A k \in 1 .. Len(hist') : Recorded(k, hist'[k])
        BY <3>2, <4>1 DEF WriteAhead
      <4> QED
        BY <2>1, <4>2 DEF Recorded, SyscallLine, LinesStay
    <3>4. \A i \in OwnLines' : events'[i].body.etype = "SYSCALL" =>
            events'[i].body.seq <= Len(hist') + 2
      <4>1. \A i \in OwnLines : events[i].body.seq \in Nat
        <5>1. \A i \in OwnLines : events[i] \in LineType
          BY ElementOfSeq, OwnRefTyped DEF TypeOK
        <5> QED
          BY <5>1 DEF LineType, BodyType
      <4> QED
        BY <2>1, <3>2, <4>1 DEF WriteAhead, SyscallLine, LinesStay
    <3> QED
      BY <3>3, <3>4 DEF WriteAhead, Recorded, SyscallLine
  <2> QED
    BY <1>5, <2>2, <2>3 DEF Resume, ResumeTarget, InFlight
<1>6. CASE StartFails \/ PtraceFails \/ WaitSignalStop \/ WaitSyscallStop \/ AtEntry \/ AtExit
           \/ SavePayload \/ SavePayloadFails \/ FlushFails \/ WriteResult \/ WriteResultFails \/ Close
           \/ TargetMoves \/ Crash \/ UNCHANGED vars
  <2>1. KeepsLines
    BY <1>6
    DEF StartFails, PtraceFails, WaitSignalStop, WaitSyscallStop, AtEntry, AtExit, SavePayload,
        SavePayloadFails, FlushFails, WriteResult, WriteResultFails, Close, TargetMoves, Crash, KeepsLines, vars,
        diskVars, writerVars
  <2>2. hist' = hist
    BY <1>6, TargetHeld
    DEF StartFails, PtraceFails, WaitSignalStop, WaitSyscallStop, AtEntry, AtExit, SavePayload,
        SavePayloadFails, FlushFails, WriteResult, WriteResultFails, Close, Crash, DetachTarget, vars, targetVars
  <2> QED
    BY <2>1, <2>2, KeepOwn, WriteAheadKept DEF LinesStay, KeepsLines
<1>7. CASE HookAppends
  BY <1>7, HookOwn, OwnRefTyped, WriteAheadKept DEF LinesStay, HookAppends, targetVars
<1> QED
  BY <1>1, <1>2, <1>3, <1>4, <1>5, <1>6, <1>7 DEF Next, RecorderStep

\* A step that leaves main() where it is, the lines as they are and the syscall
\* in flight untouched leaves the distance untouched.
LEMMA AheadByKept ==
  ASSUME AheadBy, LinesStay, OwnLines' = OwnLines, pc' = pc, seq' = seq, hist' = hist,
         pc = "resume" => UNCHANGED << call, ret, mem >> /\ tstate' \in {tstate, "killed"}
  PROVE  AheadBy'
<1>1. CASE pc # "resume"
  BY <1>1 DEF AheadBy
<1>2. CASE pc = "resume" /\ tstate' = "exitstop"
  <2>1. tstate = "exitstop" /\ Recorded(Len(hist) + 1, InFlight)
    BY <1>2 DEF AheadBy
  <2>2. InFlight' = InFlight
    BY <1>2 DEF InFlight, Observation
  <2>3. Recorded(Len(hist) + 1, InFlight)'
    BY <2>1, <2>2 DEF Recorded, SyscallLine, LinesStay
  <2> QED
    BY <1>2, <2>1, <2>3 DEF AheadBy, Dead
<1>3. CASE pc = "resume" /\ tstate' # "exitstop"
  BY <1>3 DEF AheadBy, Dead
<1> QED
  BY <1>1, <1>2, <1>3

\* The writer's line count stays ahead of the program by what the control state
\* says.
LEMMA AheadByStep ==
  ASSUME TypeOK, BaseInFile, Balanced, Ahead, [Next]_vars
  PROVE  AheadBy'
<1>0. Len(hist) \in Nat /\ seq \in Nat
  BY LenProperties DEF TypeOK, TargetTypeOK
<1>1. CASE OpenTrace
  BY <1>1, OpenOwn DEF OpenTrace, Opens, TargetUnborn, AheadBy
<1>2. CASE StartFails \/ Crash \/ WriteResult \/ WriteResultFails \/ Close \/ PtraceFails \/ WaitDeath
  BY <1>2 DEF StartFails, Crash, WriteResult, WriteResultFails, Close, PtraceFails, WaitDeath, AheadBy
<1>3. CASE Fork
  <2>1. OwnLines' = {} /\ seq' = 0 /\ hist' = << >> /\ pc' = "attach"
    BY <1>3, KeepOwn DEF Ahead, AheadBy, Fork, TargetFork, KeepsLines, diskVars, writerVars
  <2> QED
    BY <2>1 DEF AheadBy
<1>4. CASE Attach
  <2>1. seq' = 1 /\ hist' = << >> /\ pc' = "resume" /\ tstate' \in {"raised", "reaped"}
    BY <1>4
    DEF Ahead, AheadBy, Attach, EmitProcess, Emit, ProcessBody, Body, ReapTarget, targetVars
  <2> QED
    BY <2>1, EmptySeq DEF AheadBy, Dead
<1>5. CASE Resume
  <2>1. seq' = seq /\ pc' = "wait" /\ pc = "resume" /\ tstate \in Stopped
    BY <1>5 DEF Resume, ResumeTarget, writerVars
  <2>2. CASE tstate = "exitstop"
    <3>1. hist' = Append(hist, InFlight) /\ InFlight \in ObservationType
      BY <1>5, <2>2, ObservationInType DEF Resume, ResumeTarget, InFlight, TypeOK, TargetTypeOK
    <3>2. Len(hist') = Len(hist) + 1
      BY <3>1, AppendProperties DEF TypeOK, TargetTypeOK
    <3> QED
      BY <1>0, <2>1, <2>2, <3>2 DEF Ahead, AheadBy
  <2>3. CASE tstate # "exitstop"
    BY <1>5, <2>1, <2>3 DEF Resume, ResumeTarget, Ahead, AheadBy, Dead, Stopped
  <2> QED
    BY <2>2, <2>3
<1>6. CASE WaitSignalStop \/ WaitSyscallStop
  BY <1>6 DEF WaitSignalStop, WaitSyscallStop, Ahead, AheadBy, Dead, targetVars, writerVars
<1>7. CASE AtEntry \/ AtExit
  BY <1>7 DEF AtEntry, AtExit, Balanced, Stopped, Ahead, AheadBy, Dead, targetVars, writerVars
<1>8. CASE SavePayload \/ SavePayloadFails \/ FlushFails
  BY <1>8
  DEF SavePayload, SavePayloadFails, FlushFails, Ahead, AheadBy, targetVars, writerVars
<1>9. CASE EmitSyscall
  <2> DEFINE body == SyscallBody(entry, seq + 1, ret, payload_json)
  <2>1. body \in OwnBodies
    BY BodiesInType DEF TypeOK, TargetTypeOK, OwnBodies, SyscallBody, Body
  <2>2. /\ Emit(body) /\ base' = base /\ seq = Len(hist) + 1 /\ pc' = "resume"
        /\ UNCHANGED targetVars /\ tstate \in {"exitstop", "killed"}
    BY <1>9 DEF EmitSyscall, Ahead, AheadBy, Balanced
  <2>3. seq' = Len(hist) + 2 /\ body.etype = "SYSCALL" /\ body.seq = Len(hist) + 2
    BY <1>0, <2>2 DEF Emit, SyscallBody, Body
  <2>4. Records(body, InFlight)
    BY <1>9
    DEF EmitSyscall, Balanced, Ahead, AboutToRecord, InLoop, InFlight, Observation, Records,
        SyscallBody, Body
  <2> HIDE DEF body
  <2>5. \E i \in OwnLines' : events'[i].body = body
    <3>1. Len(events) + 1 \in OwnLines' /\ events'[Len(events) + 1] = Line(prev_hash, body)
      BY <2>1, <2>2, EmitOwn
    <3>2. Line(prev_hash, body).body = body
      BY DEF Line
    <3> QED
      BY <3>1, <3>2
  <2>6. InFlight' = InFlight /\ hist' = hist /\ tstate' = tstate
    BY <2>2 DEF InFlight, Observation, targetVars
  <2>7. Recorded(Len(hist) + 1, InFlight)'
    BY <1>0, <2>3, <2>4, <2>5, <2>6 DEF Recorded, SyscallLine
  <2> QED
    BY <2>2, <2>3, <2>6, <2>7 DEF AheadBy, Dead
<1>10. CASE TargetMoves
  <2>1. LinesStay /\ OwnLines' = OwnLines
    BY <1>10, KeepOwn DEF LinesStay, TargetMoves, KeepsLines, diskVars, writerVars
  <2>2. pc' = pc /\ seq' = seq
    BY <1>10 DEF TargetMoves, writerVars
  <2> QED
    BY <1>10, <2>1, <2>2, TargetHeld, AheadByKept DEF Ahead
<1>11. CASE HookAppends
  <2>1. LinesStay /\ OwnLines' = OwnLines
    BY <1>11, HookOwn, OwnRefTyped DEF LinesStay
  <2> QED
    BY <1>11, <2>1, AheadByKept DEF Ahead, HookAppends, targetVars, writerVars
<1>12. CASE UNCHANGED vars
  <2>1. LinesStay /\ OwnLines' = OwnLines
    BY <1>12, KeepOwn DEF LinesStay, KeepsLines, vars, diskVars, writerVars
  <2> QED
    BY <1>12, <2>1, AheadByKept DEF Ahead, vars, targetVars, writerVars
<1> QED
  BY <1>1, <1>2, <1>3, <1>4, <1>5, <1>6, <1>7, <1>8, <1>9, <1>10, <1>11, <1>12
  DEF Next, RecorderStep

\* WriteAhead: whatever is killed, and whatever fails, a program never sees the
\* result of a syscall whose line, with that name, result and bytes, is not
\* already in events.jsonl; and no line runs further ahead of it than one.
THEOREM RecorderWriteAhead == Spec => []WriteAhead
<1>1. Init => Balanced /\ Ahead
  <2>1. Init => OwnLines = {} /\ Len(hist) = 0
    BY EmptySeq DEF Init, TargetInit, OwnLines
  <2> QED
    BY <2>1 DEF Init, Balanced, Ahead, WriteAhead, AheadBy, AboutToRecord, InLoop
<1>2. TypeOK /\ BaseInFile /\ Balanced /\ Ahead /\ [Next]_vars => Balanced' /\ Ahead'
  BY BalancedStep, WriteAheadStep, AheadByStep, AboutStep DEF Ahead
<1>3. Ahead => WriteAhead
  BY DEF Ahead
<1> QED
  BY <1>1, <1>2, <1>3, RecorderTyped, RecorderBase, PTL DEF Spec

(***************************************************************************)
(* The lines are the writer's chain, one by one.                            *)
(***************************************************************************)
\* prev_hash stands for the bodies hashed so far: line n is the n-th of them, with the
\* bodies above it as its prev_hash, and the lines are in the file in that order.
Transcript ==
  /\ Len(prev_hash) = seq
  /\ \A i \in OwnLines :
       LET n == events[i].body.seq
       IN  n \in 1 .. seq /\ events[i] = Line(SubSeq(prev_hash, 1, n - 1), prev_hash[n])
  /\ \A n \in 1 .. seq : \E i \in OwnLines : events[i].body.seq = n
  /\ \A i, j \in OwnLines : i < j => events[i].body.seq < events[j].body.seq

\* emit_line puts a body at the end of the chain.
LEMMA EmitChain ==
  ASSUME TypeOK, Len(prev_hash) = seq, NEW body \in OwnBodies, body.seq = seq + 1, Emit(body)
  PROVE  /\ seq' = seq + 1 /\ Len(prev_hash') = seq' /\ prev_hash'[seq + 1] = body
         /\ \A n \in 1 .. seq : prev_hash'[n] = prev_hash[n]
         /\ \A n \in 1 .. seq + 1 : SubSeq(prev_hash', 1, n - 1) = SubSeq(prev_hash, 1, n - 1)
         /\ SubSeq(prev_hash, 1, seq) = prev_hash
<1>1. prev_hash \in Seq(BodyType) /\ body \in BodyType /\ seq \in Nat
  BY DEF TypeOK, HashType, OwnBodies
<1>2. prev_hash' = Append(prev_hash, body) /\ seq' = seq + 1
  BY DEF Emit
<1>3. /\ prev_hash' \in Seq(BodyType) /\ Len(prev_hash') = seq + 1 /\ prev_hash'[seq + 1] = body
      /\ \A n \in 1 .. seq : prev_hash'[n] = prev_hash[n]
  BY <1>1, <1>2, AppendProperties
<1>4. ASSUME NEW n \in 1 .. seq + 1
      PROVE  SubSeq(prev_hash', 1, n - 1) = SubSeq(prev_hash, 1, n - 1)
  <2>1. n - 1 \in Nat /\ \A i \in 1 .. n - 1 : i \in 1 .. seq /\ i \in 1 .. seq + 1
    BY <1>1
  <2>2. \A i \in 1 .. n - 1 : prev_hash[i] \in BodyType /\ prev_hash'[i] \in BodyType
    BY <1>1, <1>3, <2>1, ElementOfSeq
  <2> DEFINE a == SubSeq(prev_hash', 1, n - 1)
             b == SubSeq(prev_hash, 1, n - 1)
  <2>3. /\ a \in Seq(BodyType) /\ Len(a) = n - 1
        /\ \A i \in 1 .. n - 1 : a[i] = prev_hash'[i]
    BY <2>1, <2>2, SubSeqProperties
  <2>4. /\ b \in Seq(BodyType) /\ Len(b) = n - 1
        /\ \A i \in 1 .. n - 1 : b[i] = prev_hash[i]
    BY <2>1, <2>2, SubSeqProperties
  <2> HIDE DEF a, b
  <2>5. a = b
    BY <1>3, <2>1, <2>3, <2>4, SeqEqual
  <2> QED
    BY <2>5 DEF a, b
<1>5. SubSeq(prev_hash, 1, seq) = prev_hash
  <2>1. \A i \in 1 .. seq : prev_hash[i] \in BodyType
    BY <1>1, ElementOfSeq
  <2> DEFINE a == SubSeq(prev_hash, 1, seq)
  <2>2. /\ a \in Seq(BodyType) /\ Len(a) = seq
        /\ \A i \in 1 .. seq : a[i] = prev_hash[i]
    BY <1>1, <2>1, SubSeqProperties
  <2> HIDE DEF a
  <2>3. a = prev_hash
    BY <1>1, <2>2, SeqEqual
  <2> QED
    BY <2>3 DEF a
<1> QED
  BY <1>2, <1>3, <1>4, <1>5

\* Transcript is inductive, whatever the recorder does and the hook appends.
LEMMA TranscriptStep ==
  ASSUME TypeOK, BaseInFile, Transcript, [Next]_vars
  PROVE  Transcript'
<1>1. CASE OpenTrace
  BY <1>1, OpenOwn, EmptySeq DEF Transcript
<1>2. ASSUME OwnLines' = OwnLines, seq' = seq, prev_hash' = prev_hash,
             \A i \in OwnLines : events'[i] = events[i]
      PROVE  Transcript'
  <2>1. (Len(prev_hash) = seq)'
    BY <1>2 DEF Transcript
  <2>2. \A i \in OwnLines' :
          LET n == events'[i].body.seq
          IN  /\ n \in 1 .. seq'
              /\ events'[i] = Line(SubSeq(prev_hash', 1, n - 1), prev_hash'[n])
    <3>1. \A i \in OwnLines :
            LET n == events[i].body.seq
            IN  n \in 1 .. seq /\ events[i] = Line(SubSeq(prev_hash, 1, n - 1), prev_hash[n])
      BY DEF Transcript
    <3> QED
      BY <1>2, <3>1, Zenon
  <2>3. \A n \in 1 .. seq' : \E i \in OwnLines' : events'[i].body.seq = n
    BY <1>2, Zenon DEF Transcript
  <2>4. \A i, j \in OwnLines' : i < j => events'[i].body.seq < events'[j].body.seq
    BY <1>2, Zenon DEF Transcript
  <2> QED
    BY <2>1, <2>2, <2>3, <2>4, Zenon DEF Transcript
<1>3. CASE HookAppends
  <2>1. seq' = seq /\ prev_hash' = prev_hash
    BY <1>3 DEF HookAppends, writerVars
  <2> QED
    BY <1>2, <1>3, <2>1, HookOwn, OwnRefTyped
<1>4. CASE KeepsLines
  BY <1>2, <1>4, KeepOwn DEF KeepsLines
<1>5. ASSUME NEW body \in OwnBodies, body.seq = seq + 1, Emit(body), base' = base
      PROVE  Transcript'
  <2> DEFINE last == Len(events) + 1
  <2>1. /\ OwnLines' = OwnLines \cup {last}
        /\ events'[last] = Line(prev_hash, body)
        /\ \A i \in OwnLines : events'[i] = events[i]
    BY <1>5, EmitOwn, OwnRefTyped
  <2>2. \A i \in OwnLines : i \in Nat /\ i < last
    BY OwnBelow, LenProperties DEF TypeOK
  <2>3. last \in Nat
    BY LenProperties DEF TypeOK
  <2>4. events'[last].body.seq = seq + 1
    BY <1>5, <2>1 DEF Line
  <2>5. /\ seq' = seq + 1 /\ Len(prev_hash') = seq' /\ prev_hash'[seq + 1] = body
        /\ \A n \in 1 .. seq : prev_hash'[n] = prev_hash[n]
        /\ \A n \in 1 .. seq + 1 : SubSeq(prev_hash', 1, n - 1) = SubSeq(prev_hash, 1, n - 1)
        /\ SubSeq(prev_hash, 1, seq) = prev_hash
    BY <1>5, EmitChain DEF Transcript
  <2>6. seq \in Nat
    BY DEF TypeOK
  <2> HIDE DEF last
  <2>7. ASSUME NEW i \in OwnLines'
        PROVE  /\ events'[i].body.seq \in 1 .. seq'
               /\ events'[i] = Line(SubSeq(prev_hash', 1, events'[i].body.seq - 1),
                                    prev_hash'[events'[i].body.seq])
    <3>1. CASE i = last
      <4>1. SubSeq(prev_hash', 1, (seq + 1) - 1) = prev_hash
        <5>1. seq + 1 \in 1 .. seq + 1 /\ (seq + 1) - 1 = seq
          BY <2>6
        <5> QED
          BY <2>5, <5>1
      <4>2. seq + 1 \in 1 .. seq'
        BY <2>5, <2>6
      <4> QED
        BY <2>1, <2>4, <2>5, <3>1, <4>1, <4>2
    <3>2. CASE i \in OwnLines
      <4> DEFINE n == events[i].body.seq
      <4>1. n \in 1 .. seq /\ events[i] = Line(SubSeq(prev_hash, 1, n - 1), prev_hash[n])
        BY <3>2 DEF Transcript
      <4>2. n \in 1 .. seq + 1 /\ n \in 1 .. seq'
        BY <2>5, <2>6, <4>1
      <4>3. events'[i] = events[i] /\ events'[i].body.seq = n
        BY <2>1, <3>2
      <4>4. SubSeq(prev_hash', 1, n - 1) = SubSeq(prev_hash, 1, n - 1) /\ prev_hash'[n] = prev_hash[n]
        BY <2>5, <4>1, <4>2
      <4> HIDE DEF n
      <4> QED
        BY <4>1, <4>2, <4>3, <4>4
    <3> QED
      BY <2>1, <2>7, <3>1, <3>2
  <2>8. ASSUME NEW n \in 1 .. seq'
        PROVE  \E i \in OwnLines' : events'[i].body.seq = n
    <3>1. CASE n = seq + 1
      BY <2>1, <2>4, <3>1
    <3>2. CASE n # seq + 1
      <4>1. n \in 1 .. seq
        BY <2>5, <2>6, <3>2
      <4> QED
        BY <2>1, <4>1 DEF Transcript
    <3> QED
      BY <3>1, <3>2
  <2>9. ASSUME NEW i \in OwnLines', NEW j \in OwnLines', i < j
        PROVE  events'[i].body.seq < events'[j].body.seq
    <3>1. i \in OwnLines
      BY <2>1, <2>2, <2>3, <2>9
    <3>2. CASE j = last
      <4>1. events[i].body.seq \in 1 .. seq
        BY <3>1 DEF Transcript
      <4> QED
        BY <2>1, <2>4, <2>6, <3>1, <3>2, <4>1
    <3>3. CASE j \in OwnLines
      BY <2>1, <2>9, <3>1, <3>3 DEF Transcript
    <3> QED
      BY <2>1, <2>9, <3>2, <3>3
  <2> QED
    BY <2>5, <2>7, <2>8, <2>9 DEF Transcript
<1> QED
  BY <1>1, <1>3, <1>4, <1>5, LineSteps

(***************************************************************************)
(* What the bodies say.                                                     *)
(***************************************************************************)
\* The references of the observations made so far stay as they are; the next one's
\* begins at the end of the bytes recorded so far.
LEMMA RecordedRefGrow ==
  ASSUME NEW h \in Seq(ObservationType), NEW o \in ObservationType
  PROVE  /\ \A k \in 1 .. Len(h) : RecordedRef(Append(h, o), k) = RecordedRef(h, k)
         /\ RecordedRef(Append(h, o), Len(h) + 1)
              = IF o.data = << >> THEN NoRef ELSE Ref(Len(RecordedBytes(h)), o.data)
<1> DEFINE g == Append(h, o)
<1>1. /\ g \in Seq(ObservationType) /\ Len(g) = Len(h) + 1 /\ g[Len(h) + 1] = o
      /\ \A k \in 1 .. Len(h) : g[k] = h[k]
  BY AppendProperties
<1>2. Len(h) \in Nat
  BY LenProperties
<1> HIDE DEF g
<1>3. ASSUME NEW k \in 1 .. Len(h) + 1
      PROVE  SubSeq(g, 1, k - 1) = SubSeq(h, 1, k - 1)
  <2>1. k - 1 \in Nat /\ \A i \in 1 .. k - 1 : i \in 1 .. Len(h) /\ i \in 1 .. Len(g)
    BY <1>1, <1>2
  <2>2. \A i \in 1 .. k - 1 : g[i] \in ObservationType /\ h[i] \in ObservationType
    BY <1>1, <2>1, ElementOfSeq
  <2> DEFINE a == SubSeq(g, 1, k - 1)
             b == SubSeq(h, 1, k - 1)
  <2>3. a \in Seq(ObservationType) /\ Len(a) = k - 1 /\ \A i \in 1 .. k - 1 : a[i] = g[i]
    BY <2>1, <2>2, SubSeqProperties
  <2>4. b \in Seq(ObservationType) /\ Len(b) = k - 1 /\ \A i \in 1 .. k - 1 : b[i] = h[i]
    BY <2>1, <2>2, SubSeqProperties
  <2> HIDE DEF a, b
  <2>5. a = b
    BY <1>1, <2>1, <2>3, <2>4, SeqEqual
  <2> QED
    BY <2>5 DEF a, b
<1>4. ASSUME NEW k \in 1 .. Len(h)
      PROVE  RecordedRef(g, k) = RecordedRef(h, k)
  <2>1. k \in 1 .. Len(h) + 1
    BY <1>2
  <2> QED
    BY <1>1, <1>3, <2>1 DEF RecordedRef
<1>5. SubSeq(g, 1, (Len(h) + 1) - 1) = h
  <2>1. (Len(h) + 1) - 1 = Len(h) /\ Len(h) + 1 \in 1 .. Len(h) + 1
    BY <1>2
  <2>2. \A i \in 1 .. Len(h) : h[i] \in ObservationType
    BY ElementOfSeq
  <2> DEFINE a == SubSeq(h, 1, Len(h))
  <2>3. a \in Seq(ObservationType) /\ Len(a) = Len(h) /\ \A i \in 1 .. Len(h) : a[i] = h[i]
    BY <1>2, <2>2, SubSeqProperties
  <2> HIDE DEF a
  <2>4. a = h
    BY <2>3, SeqEqual
  <2> QED
    BY <1>3, <2>1, <2>4 DEF a
<1> QED
  BY <1>1, <1>4, <1>5 DEF RecordedRef, g

\* A payload was given up: the line says so by having no reference.
GaveUp(body, o) == o.data # << >> /\ body.payload_ref = NoRef
Kept == \A k \in 1 .. Len(hist) : ~GaveUp(prev_hash[k + 1], hist[k])

\* payload.bin before and after the bytes of the syscall in flight, and their reference.
AllSaved == payload = RecordedBytes(hist)
OneMoreSaved == payload = RecordedBytes(hist) \o InFlight.data
NextRef ==
  IF InFlight.data = << >> THEN NoRef ELSE Ref(Len(RecordedBytes(hist)), InFlight.data)

\* Until a payload is given up, line k + 1 is the recording's, and payload.bin holds the
\* recorded bytes, those of the syscall in flight from the moment they are captured.
Truthful ==
  Kept =>
    /\ \A k \in 1 .. Len(hist) :
         prev_hash[k + 1] = SyscallBody(hist[k].call, k + 1, hist[k].ret, RecordedRef(hist, k))
    /\ pc \in {"opened", "attach", "wait", "stopped", "payload", "exited"} => AllSaved
    /\ pc = "resume" /\ tstate \notin Dead \cup {"exitstop"} => AllSaved
    /\ pc = "emit" =>
         \/ InFlight.data # << >> /\ payload_json = NoRef
         \/ OneMoreSaved /\ payload_json = NextRef
    /\ pc = "resume" /\ tstate = "exitstop" =>
         \/ GaveUp(prev_hash[Len(hist) + 2], InFlight)
         \/ /\ OneMoreSaved
            /\ prev_hash[Len(hist) + 2] = SyscallBody(call, Len(hist) + 2, ret, NextRef)

\* At an exit stop the recorder copies what the program will see.
LEMMA CapturedIsShown ==
  ASSUME TypeOK, Balanced, AboutToRecord, pc = "payload"
  PROVE  CapturedBytes = InFlight.data
<1>1. entry = call /\ call \in Calls /\ mem \in Seq(Byte) /\ ret \in Int
  BY DEF Balanced, AboutToRecord, InLoop, TypeOK, TargetTypeOK
<1>2. CASE call \in PayloadCalls
  BY <1>1, <1>2 DEF CapturedBytes, InFlight, Observation
<1>3. CASE call \notin PayloadCalls
  <2>1. PayloadLen(call, ret) = 0
    BY <1>3 DEF PayloadLen, PayloadCalls
  <2>2. Take(mem, 0) = << >>
    <3>1. Take(mem, 0) \in Seq(Byte) /\ Len(Take(mem, 0)) = 0
      BY <1>1, TakePrefix, LenProperties
    <3> QED
      BY <3>1, EmptySeq
  <2> QED
    BY <1>1, <1>3, <2>1, <2>2 DEF CapturedBytes, InFlight, Observation
<1> QED
  BY <1>2, <1>3

\* Truthful is inductive when fflush does not fail: in the step that shows the program a
\* result, what was saved for it becomes what is recorded.
LEMMA TruthfulStep ==
  ASSUME TypeOK, BaseInFile, Balanced, Ahead, Transcript, Truthful, "flush" \notin Faults,
         [Next]_vars
  PROVE  Truthful'
<1>0. /\ hist \in Seq(ObservationType) /\ Len(hist) \in Nat /\ seq \in Nat
      /\ payload \in Seq(Byte) /\ InFlight \in ObservationType /\ InFlight.data \in Seq(Byte)
      /\ Len(prev_hash) = seq
  <2>1. InFlight \in ObservationType
    BY ObservationInType DEF TypeOK, TargetTypeOK, InFlight
  <2> QED
    BY <2>1, LenProperties DEF TypeOK, TargetTypeOK, ObservationType, Transcript
<1>1. CASE OpenTrace
  <2>1. hist' = << >> /\ payload' = << >> /\ pc' = "opened"
    BY <1>1 DEF OpenTrace, Opens, TargetUnborn
  <2>2. << >> \in Seq(ObservationType) /\ Len(<< >>) = 0
    BY EmptySeq
  <2>3. RecordedBytes(<< >>) = << >>
    BY <2>2, RecordedBytesGrow
  <2> QED
    BY <2>1, <2>2, <2>3 DEF Truthful, AllSaved
<1>2. CASE StartFails \/ Crash \/ WriteResult \/ WriteResultFails \/ Close \/ PtraceFails
  <2>1. /\ hist' = hist /\ prev_hash' = prev_hash
        /\ pc' \in {"failed", "crashed", "close", "done"}
    BY <1>2
    DEF StartFails, Crash, DetachTarget, WriteResult, WriteResultFails, Close, PtraceFails,
        targetVars, writerVars
  <2> QED
    BY <2>1 DEF Truthful, Kept, GaveUp
<1>3. CASE Fork
  <2>1. /\ hist' = hist /\ prev_hash' = prev_hash /\ payload' = payload
        /\ pc = "opened" /\ pc' = "attach"
    BY <1>3 DEF Fork, TargetFork, Ahead, AheadBy, diskVars, writerVars
  <2> QED
    BY <2>1 DEF Truthful, Kept, GaveUp, AllSaved
<1>4. CASE Attach
  <2>1. /\ hist' = hist /\ hist = << >> /\ payload' = payload /\ pc = "attach"
        /\ pc' = "resume" /\ tstate' \in {"raised", "reaped"}
    BY <1>4 DEF Attach, Ahead, AheadBy, ReapTarget, targetVars
  <2>2. Len(hist) = 0
    BY <2>1, EmptySeq
  <2> QED
    BY <2>1, <2>2 DEF Truthful, Kept, AllSaved
<1>5. CASE Resume
  <2>1. /\ pc = "resume" /\ pc' = "wait" /\ prev_hash' = prev_hash /\ payload' = payload
        /\ tstate \in Stopped
    BY <1>5 DEF Resume, ResumeTarget, diskVars, writerVars
  <2>2. CASE tstate # "exitstop"
    <3>1. hist' = hist /\ tstate \notin Dead \cup {"exitstop"}
      BY <1>5, <2>1, <2>2 DEF Resume, ResumeTarget, Stopped, Dead
    <3> QED
      BY <2>1, <3>1 DEF Truthful, Kept, GaveUp, AllSaved
  <2>3. CASE tstate = "exitstop"
    <3>1. hist' = Append(hist, InFlight)
      BY <1>5, <2>3 DEF Resume, ResumeTarget, InFlight
    <3>2. /\ Len(hist') = Len(hist) + 1 /\ hist'[Len(hist) + 1] = InFlight
          /\ \A k \in 1 .. Len(hist) : hist'[k] = hist[k]
      BY <1>0, <3>1, AppendProperties
    <3> SUFFICES ASSUME Kept'
                 PROVE  /\ \A k \in 1 .. Len(hist') :
                             prev_hash[k + 1] = SyscallBody(hist'[k].call, k + 1, hist'[k].ret,
                                                            RecordedRef(hist', k))
                        /\ payload = RecordedBytes(hist')
      BY <2>1 DEF Truthful, AllSaved
    <3>3. \A k \in 1 .. Len(hist) : k \in 1 .. Len(hist')
      BY <1>0, <3>2
    <3>4. Kept
      BY <2>1, <3>2, <3>3 DEF Kept, GaveUp
    <3>5. Len(hist) + 1 \in 1 .. Len(hist') /\ (Len(hist) + 1) + 1 = Len(hist) + 2
      BY <1>0, <3>2
    <3>6. ~GaveUp(prev_hash[(Len(hist) + 1) + 1], InFlight)
      BY <2>1, <3>2, <3>5 DEF Kept, GaveUp
    <3>7. /\ OneMoreSaved
          /\ prev_hash[Len(hist) + 2] = SyscallBody(call, Len(hist) + 2, ret, NextRef)
      BY <2>1, <2>3, <3>4, <3>5, <3>6 DEF Truthful
    <3>8. payload = RecordedBytes(hist')
      BY <1>0, <3>1, <3>7, RecordedBytesGrow DEF OneMoreSaved
    <3>9. InFlight.call = call /\ InFlight.ret = ret
      BY DEF InFlight, Observation
    <3>10. RecordedRef(hist', Len(hist) + 1) = NextRef
      BY <1>0, <3>1, RecordedRefGrow DEF NextRef
    <3>11. ASSUME NEW k \in 1 .. Len(hist')
           PROVE  prev_hash[k + 1] = SyscallBody(hist'[k].call, k + 1, hist'[k].ret,
                                                 RecordedRef(hist', k))
      <4>1. CASE k = Len(hist) + 1
        <5>1. k + 1 = Len(hist) + 2
          BY <1>0, <4>1
        <5> QED
          BY <3>2, <3>7, <3>9, <3>10, <4>1, <5>1
      <4>2. CASE k # Len(hist) + 1
        <5>1. k \in 1 .. Len(hist)
          BY <1>0, <3>2, <4>2
        <5>2. RecordedRef(hist', k) = RecordedRef(hist, k)
          BY <1>0, <3>1, <5>1, RecordedRefGrow
        <5>3. prev_hash[k + 1] = SyscallBody(hist[k].call, k + 1, hist[k].ret, RecordedRef(hist, k))
          BY <3>4, <5>1 DEF Truthful
        <5> QED
          BY <3>2, <5>1, <5>2, <5>3
      <4> QED
        BY <4>1, <4>2
    <3> QED
      BY <3>8, <3>11
  <2> QED
    BY <2>2, <2>3
<1>6. CASE WaitSignalStop \/ WaitSyscallStop
  <2>1. /\ hist' = hist /\ prev_hash' = prev_hash /\ payload' = payload /\ pc = "wait"
        /\ \/ pc' = "stopped"
           \/ pc' = "resume" /\ tstate' = "signal"
    BY <1>6 DEF WaitSignalStop, WaitSyscallStop, targetVars, diskVars, writerVars
  <2> QED
    BY <2>1 DEF Truthful, Kept, GaveUp, AllSaved
<1>7. CASE AtEntry \/ AtExit
  <2>1. /\ hist' = hist /\ prev_hash' = prev_hash /\ payload' = payload /\ pc = "stopped"
        /\ \/ pc' = "payload"
           \/ pc' = "resume" /\ tstate' # "exitstop"
    BY <1>7 DEF AtEntry, AtExit, Balanced, Stopped, targetVars, diskVars, writerVars
  <2> QED
    BY <2>1 DEF Truthful, Kept, GaveUp, AllSaved
<1>8. CASE SavePayload \/ SavePayloadFails
  <2>1. /\ hist' = hist /\ prev_hash' = prev_hash /\ pc = "payload" /\ pc' = "emit"
        /\ UNCHANGED << call, ret, mem >>
    BY <1>8 DEF SavePayload, SavePayloadFails, targetVars, writerVars
  <2>2. CapturedBytes = InFlight.data /\ InFlight' = InFlight
    BY <2>1, CapturedIsShown DEF Ahead, InFlight, Observation
  <2>3. Kept' => Kept
    BY <2>1 DEF Kept, GaveUp
  <2>4. ASSUME Kept
        PROVE  \/ InFlight.data # << >> /\ payload_json' = NoRef
               \/ /\ payload' = RecordedBytes(hist) \o InFlight.data
                  /\ payload_json' = NextRef
    <3>1. payload = RecordedBytes(hist)
      BY <2>1, <2>4 DEF Truthful, AllSaved
    <3>2. CASE SavePayloadFails
      BY <2>2, <3>2 DEF SavePayloadFails
    <3>3. CASE SavePayload
      BY <2>2, <3>1, <3>3 DEF SavePayload, CapturedRef, PayloadOffset, NextRef
    <3> QED
      BY <1>8, <3>2, <3>3
  <2>5. NextRef' = NextRef
    BY <2>1, <2>2 DEF NextRef
  <2>6. ASSUME Kept'
        PROVE  \A k \in 1 .. Len(hist') :
                 prev_hash'[k + 1] = SyscallBody(hist'[k].call, k + 1, hist'[k].ret, RecordedRef(hist', k))
    BY <2>1, <2>3, <2>6 DEF Truthful
  <2> QED
    BY <2>1, <2>2, <2>3, <2>4, <2>5, <2>6 DEF Truthful, OneMoreSaved
<1>9. ASSUME NEW body \in OwnBodies, body.seq = seq + 1, Emit(body), hist' = hist,
             seq = Len(hist) + 1, Kept'
      PROVE  /\ Kept /\ prev_hash'[Len(hist) + 2] = body
             /\ \A k \in 1 .. Len(hist') :
                  prev_hash'[k + 1] = SyscallBody(hist'[k].call, k + 1, hist'[k].ret, RecordedRef(hist', k))
  <2>1. /\ prev_hash'[seq + 1] = body
        /\ \A n \in 1 .. seq : prev_hash'[n] = prev_hash[n]
    BY <1>9, EmitChain DEF Transcript
  <2>2. \A k \in 1 .. Len(hist) : k + 1 \in 1 .. seq
    BY <1>0, <1>9
  <2>3. \A k \in 1 .. Len(hist) : prev_hash'[k + 1] = prev_hash[k + 1]
    BY <2>1, <2>2
  <2>4. Kept
    BY <1>9, <2>3 DEF Kept, GaveUp
  <2>5. seq + 1 = Len(hist) + 2
    BY <1>0, <1>9
  <2> QED
    BY <1>9, <2>1, <2>3, <2>4, <2>5 DEF Truthful
<1>10. CASE EmitSyscall
  <2> DEFINE body == SyscallBody(entry, seq + 1, ret, payload_json)
  <2>1. body \in OwnBodies /\ body.seq = seq + 1 /\ body.payload_ref = payload_json
    BY BodiesInType DEF TypeOK, TargetTypeOK, OwnBodies, SyscallBody, Body
  <2>2. /\ Emit(body) /\ hist' = hist /\ seq = Len(hist) + 1 /\ payload' = payload
        /\ pc = "emit" /\ pc' = "resume" /\ entry = call
        /\ UNCHANGED << call, ret, mem >>
    BY <1>10 DEF EmitSyscall, targetVars, Balanced, Ahead, AheadBy, AboutToRecord, InLoop
  <2>3. body = SyscallBody(call, Len(hist) + 2, ret, payload_json)
    <3>1. seq + 1 = Len(hist) + 2
      BY <1>0, <2>2
    <3> QED
      BY <2>2, <3>1
  <2>4. InFlight' = InFlight /\ NextRef' = NextRef
    BY <2>2 DEF InFlight, Observation, NextRef
  <2> HIDE DEF body
  <2> SUFFICES ASSUME Kept'
               PROVE  /\ \A k \in 1 .. Len(hist') :
                           prev_hash'[k + 1] = SyscallBody(hist'[k].call, k + 1, hist'[k].ret, RecordedRef(hist', k))
                      /\ \/ GaveUp(prev_hash'[Len(hist) + 2], InFlight)
                         \/ /\ payload = RecordedBytes(hist) \o InFlight.data
                            /\ prev_hash'[Len(hist) + 2] = SyscallBody(call, Len(hist) + 2, ret, NextRef)
                      /\ tstate' \in Dead \cup {"exitstop"}
    BY <2>2, <2>4 DEF Truthful, GaveUp, OneMoreSaved
  <2>5. Kept /\ prev_hash'[Len(hist) + 2] = body
    BY <1>9, <2>1, <2>2
  <2>6. tstate' \in Dead \cup {"exitstop"}
    BY <1>10 DEF EmitSyscall, Balanced, Dead, targetVars
  <2>7. CASE InFlight.data # << >> /\ payload_json = NoRef
    BY <1>9, <2>1, <2>2, <2>5, <2>6, <2>7 DEF GaveUp
  <2>8. CASE OneMoreSaved /\ payload_json = NextRef
    BY <1>9, <2>1, <2>2, <2>3, <2>5, <2>6, <2>8 DEF OneMoreSaved
  <2> QED
    BY <2>2, <2>5, <2>7, <2>8 DEF Truthful
<1>11. CASE WaitDeath
  <2>1. PICK name \in ProcessNames : EmitProcess(name)
    BY <1>11 DEF WaitDeath, ProcessNames
  <2>2. ProcessBody(name, seq + 1) \in OwnBodies /\ ProcessBody(name, seq + 1).seq = seq + 1
    BY BodiesInType DEF TypeOK, OwnBodies, ProcessBody, Body
  <2>3. /\ hist' = hist /\ seq = Len(hist) + 1 /\ payload' = payload /\ pc = "wait"
        /\ pc' \in {"exited", "signalled"}
    BY <1>11 DEF WaitDeath, ReapTarget, Ahead, AheadBy
  <2> SUFFICES ASSUME Kept'
               PROVE  /\ \A k \in 1 .. Len(hist') :
                           prev_hash'[k + 1] = SyscallBody(hist'[k].call, k + 1, hist'[k].ret, RecordedRef(hist', k))
                      /\ payload = RecordedBytes(hist)
    BY <2>3 DEF Truthful, AllSaved
  <2> QED
    BY <1>9, <2>1, <2>2, <2>3 DEF EmitProcess, Truthful, AllSaved
<1>12. CASE TargetMoves \/ HookAppends \/ UNCHANGED vars
  <2>1. /\ hist' = hist /\ prev_hash' = prev_hash /\ payload' = payload /\ pc' = pc
        /\ payload_json' = payload_json
        /\ pc \in {"resume", "emit"} =>
             UNCHANGED << call, ret, mem >> /\ tstate' \in {tstate, "killed"}
    BY <1>12, TargetHeld
    DEF TargetMoves, HookAppends, vars, targetVars, diskVars, writerVars, loopVars
  <2>2. pc \in {"resume", "emit"} => InFlight' = InFlight /\ NextRef' = NextRef
    BY <2>1 DEF InFlight, Observation, NextRef
  <2>3. Kept' = Kept
    BY <2>1 DEF Kept, GaveUp
  <2> QED
    BY <2>1, <2>2, <2>3 DEF Truthful, GaveUp, AllSaved, OneMoreSaved, Dead
<1> QED
  BY <1>1, <1>2, <1>3, <1>4, <1>5, <1>6, <1>7, <1>8, <1>10, <1>11, <1>12
  DEF Next, RecorderStep, FlushFails

(***************************************************************************)
(* What stands beside a result.json.                                        *)
(***************************************************************************)
\* The first line is program_start.
Started == seq > 0 => prev_hash[1] = ProcessBody("program_start", 1)

\* The last one is program_exit, and nothing moves any more.
Ended ==
  /\ tstate = "reaped" /\ seq = Len(hist) + 2
  /\ prev_hash[Len(hist) + 2] = ProcessBody("program_exit", Len(hist) + 2)

Stored ==
  /\ pc = "exited" => Ended
  /\ result.run <= runs
  /\ result.run = runs /\ runs > 0 => pc \in {"close", "done", "crashed"}
  /\ result.run = runs /\ runs > 0 /\ result.signal = 0 =>
       /\ Ended /\ result.observed = hist
       /\ "flush" \notin Faults /\ Kept => AllSaved

\* Started is inductive.
LEMMA StartedStep ==
  ASSUME TypeOK, Ahead, Transcript, Started, [Next]_vars
  PROVE  Started'
<1>0. Len(hist) \in Nat /\ seq \in Nat /\ Len(prev_hash) = seq
  BY LenProperties DEF TypeOK, TargetTypeOK, Transcript
<1>1. CASE OpenTrace
  BY <1>1 DEF OpenTrace, Started
<1>2. CASE HookAppends \/ KeepsLines
  BY <1>2 DEF HookAppends, KeepsLines, writerVars, Started
<1>3. CASE Attach
  <2> DEFINE body == ProcessBody("program_start", seq + 1)
  <2>0. "program_start" \in ProcessNames
    BY DEF ProcessNames
  <2>1. body \in OwnBodies /\ body.seq = seq + 1
    BY <2>0, BodiesInType DEF TypeOK, OwnBodies, ProcessBody, Body
  <2>2. Emit(body) /\ seq = 0
    BY <1>3 DEF Attach, EmitProcess, Ahead, AheadBy
  <2>3. prev_hash'[seq + 1] = body
    BY <1>0, <2>1, <2>2, EmitChain
  <2> QED
    BY <2>2, <2>3 DEF Started
<1>4. ASSUME NEW body \in OwnBodies, body.seq = seq + 1, Emit(body), ~Attach, ~OpenTrace
      PROVE  Started'
  <2>1. seq > 0
    <3>1. CASE EmitSyscall \/ WaitDeath
      BY <1>0, <3>1 DEF EmitSyscall, WaitDeath, Ahead, AheadBy
    <3>2. CASE ~(EmitSyscall \/ WaitDeath)
      <4>1. prev_hash' = prev_hash
        BY <1>4, <3>2
        DEF Next, RecorderStep, StartFails, Fork, Resume, PtraceFails, WaitSignalStop,
            WaitSyscallStop, AtEntry, AtExit, TargetMoves, Crash, WriteResult, WriteResultFails,
            Close, SavePayload, SavePayloadFails, FlushFails, HookAppends, OpenTrace, vars, writerVars
      <4>2. Len(prev_hash') = Len(prev_hash) + 1
        BY <1>0, <1>4, EmitChain
      <4> QED
        BY <1>0, <4>1, <4>2
    <3> QED
      BY <3>1, <3>2
  <2>2. 1 \in 1 .. seq
    BY <1>0, <2>1
  <2>3. prev_hash'[1] = prev_hash[1]
    BY <1>0, <1>4, <2>2, EmitChain
  <2> QED
    BY <2>1, <2>3 DEF Started
<1> QED
  BY <1>1, <1>2, <1>3, <1>4, LineSteps

\* Stored is inductive.
LEMMA StoredStep ==
  ASSUME TypeOK, Balanced, Ahead, Transcript, "flush" \notin Faults => Truthful, Stored,
         [Next]_vars
  PROVE  Stored'
<1>0. /\ Len(hist) \in Nat /\ seq \in Nat /\ Len(prev_hash) = seq
      /\ runs \in Nat /\ result.run \in Nat
  BY LenProperties DEF TypeOK, TargetTypeOK, Transcript, ResultType
<1>1. CASE OpenTrace
  BY <1>0, <1>1 DEF OpenTrace, Opens, Stored
<1>2. CASE StartFails \/ Fork \/ Attach \/ Resume \/ WaitSignalStop \/ WaitSyscallStop
           \/ AtEntry \/ AtExit \/ SavePayload \/ SavePayloadFails \/ FlushFails \/ EmitSyscall
           \/ PtraceFails
  <2>1. /\ runs' = runs /\ result' = result /\ pc' # "exited"
        /\ pc \notin {"close", "done", "crashed"}
    BY <1>2
    DEF StartFails, Fork, Attach, Resume, WaitSignalStop, WaitSyscallStop, AtEntry, AtExit,
        SavePayload, SavePayloadFails, FlushFails, EmitSyscall, PtraceFails, diskVars
  <2> QED
    BY <2>1 DEF Stored
<1>3. CASE WaitDeath
  <2>1. /\ runs' = runs /\ result' = result /\ pc \notin {"close", "done", "crashed"}
        /\ hist' = hist /\ tstate' = "reaped"
    BY <1>3 DEF WaitDeath, ReapTarget
  <2>2. ASSUME pc' = "exited"
        PROVE  Ended'
    <3> DEFINE body == ProcessBody("program_exit", seq + 1)
    <3>0. "program_exit" \in ProcessNames
      BY DEF ProcessNames
    <3>1. body \in OwnBodies /\ body.seq = seq + 1
      BY <3>0, BodiesInType DEF TypeOK, OwnBodies, ProcessBody, Body
    <3>2. Emit(body) /\ seq = Len(hist) + 1
      BY <1>3, <2>2 DEF WaitDeath, EmitProcess, Ahead, AheadBy
    <3>3. seq' = seq + 1 /\ prev_hash'[seq + 1] = body
      BY <1>0, <3>1, <3>2, EmitChain
    <3>4. seq + 1 = Len(hist) + 2
      BY <1>0, <3>2
    <3> QED
      BY <2>1, <3>3, <3>4 DEF Ended
  <2> QED
    BY <2>1, <2>2 DEF Stored
<1>4. CASE WriteResult
  <2>1. /\ runs' = runs /\ pc' = "close" /\ result'.run = runs /\ result'.observed = hist
        /\ result'.signal = (IF pc = "exited" THEN 0 ELSE 9)
        /\ UNCHANGED << tstate, hist, seq, prev_hash, payload >>
    BY <1>4 DEF WriteResult, targetVars, writerVars
  <2>2. Kept' = Kept /\ AllSaved' = AllSaved /\ Ended' = Ended
    BY <2>1 DEF Kept, GaveUp, AllSaved, Ended
  <2>3. pc = "exited" /\ "flush" \notin Faults /\ Kept => AllSaved
    BY DEF Truthful
  <2> QED
    BY <1>0, <2>1, <2>2, <2>3 DEF Stored
<1>5. CASE WriteResultFails
  <2>1. /\ runs' = runs /\ pc' = "close" /\ pc \in {"exited", "signalled"}
        /\ result' = result \/ result'.run = 0
    BY <1>5 DEF WriteResultFails, NoResult
  <2>2. result.run # runs \/ runs = 0
    BY <1>0, <2>1 DEF Stored
  <2> QED
    BY <1>0, <2>1, <2>2 DEF Stored
<1>6. CASE Close \/ Crash
  <2>1. /\ runs' = runs /\ result' = result /\ pc' \in {"done", "crashed"}
        /\ UNCHANGED << hist, seq, prev_hash, payload >>
        /\ tstate = "reaped" => tstate' = "reaped"
    BY <1>6 DEF Close, Crash, DetachTarget, Alive, Stopped, targetVars, diskVars, writerVars
  <2>2. Kept' = Kept /\ AllSaved' = AllSaved /\ (Ended => Ended')
    BY <2>1 DEF Kept, GaveUp, AllSaved, Ended
  <2> QED
    BY <2>1, <2>2 DEF Stored
<1>7. CASE TargetMoves \/ HookAppends \/ UNCHANGED vars
  <2>1. /\ runs' = runs /\ result' = result /\ pc' = pc
        /\ UNCHANGED << hist, seq, prev_hash, payload >>
        /\ tstate = "reaped" => tstate' = "reaped"
    BY <1>7, TargetHeld
    DEF TargetMoves, TargetNext, TargetRuns, EnterSyscall, KernelReturns, Exits, FaultStops,
        SignalStops, Interrupts, Killed, Alive, Stopped, HookAppends, vars, targetVars, diskVars, writerVars
  <2>2. Kept' = Kept /\ AllSaved' = AllSaved /\ (Ended => Ended')
    BY <2>1 DEF Kept, GaveUp, AllSaved, Ended
  <2> QED
    BY <2>1, <2>2 DEF Stored
<1> QED
  BY <1>1, <1>2, <1>3, <1>4, <1>5, <1>6, <1>7 DEF Next, RecorderStep

\* The inductive invariant of the complete recording.
StoredInv ==
  /\ TypeOK /\ BaseInFile /\ Balanced /\ Ahead
  /\ Transcript /\ Started /\ Stored
  /\ "flush" \notin Faults => Truthful

LEMMA StoredInvariant == Spec => []StoredInv
<1>1. Init /\ TypeOK /\ BaseInFile => StoredInv
  <2> SUFFICES ASSUME Init, TypeOK, BaseInFile
               PROVE  StoredInv
    OBVIOUS
  <2>1. OwnLines = {} /\ hist = << >> /\ Len(hist) = 0 /\ Len(prev_hash) = 0
    BY EmptySeq DEF Init, TargetInit, OwnLines
  <2>2. Balanced /\ Ahead
    BY <2>1 DEF Init, Balanced, Ahead, WriteAhead, AheadBy, AboutToRecord, InLoop
  <2>3. Transcript /\ Started
    BY <2>1 DEF Init, Transcript, Started
  <2>4. Stored
    BY DEF Init, Stored, NoResult
  <2>5. Truthful
    BY <2>1 DEF Init, Truthful
  <2> QED
    BY <2>2, <2>3, <2>4, <2>5 DEF StoredInv
<1>2. StoredInv /\ [Next]_vars => StoredInv'
  BY TypeStep, BaseStep, BalancedStep, WriteAheadStep, AheadByStep, AboutStep, TranscriptStep,
     StartedStep, StoredStep, TruthfulStep
  DEF StoredInv, Ahead
<1> QED
  BY <1>1, <1>2, RecorderTyped, RecorderBase, PTL DEF Spec

\* The lines of a chain that is complete.
LEMMA LastLine ==
  ASSUME Transcript, TypeOK, Len(hist) \in Nat, Ended
  PROVE  \E i \in OwnLines :
           /\ events[i].body.name = "program_exit"
           /\ events[i].body.seq = Len(hist) + 2
           /\ \A j \in OwnLines : j <= i
<1>0. seq \in Nat /\ seq = Len(hist) + 2
  BY DEF TypeOK, Ended
<1>1. PICK i \in OwnLines : events[i].body.seq = seq
  BY <1>0 DEF Transcript
<1>2. events[i] = Line(SubSeq(prev_hash, 1, seq - 1), prev_hash[seq])
  BY <1>1 DEF Transcript
<1>3. events[i].body.name = "program_exit"
  BY <1>0, <1>2 DEF Line, Ended, ProcessBody, Body
<1>4. ASSUME NEW j \in OwnLines
      PROVE  j <= i
  <2>1. events[j].body.seq \in 1 .. seq
    BY DEF Transcript
  <2>2. ~(i < j)
    BY <1>0, <1>1, <2>1 DEF Transcript
  <2>3. i \in Nat /\ j \in Nat
    BY OwnBelow
  <2> QED
    BY <2>2, <2>3
<1> QED
  BY <1>0, <1>1, <1>3, <1>4

\* A result.json that reports a normal exit stands beside a complete trace, whatever is
\* killed, crashes or fails, and whatever an earlier recording left in the directory.
THEOREM RecorderResultMatches == Spec => []ResultMatchesTrace
<1>1. StoredInv => ResultMatchesTrace
  <2> SUFFICES ASSUME StoredInv, result.run = runs, result.run > 0, result.signal = 0
               PROVE  /\ result.observed = hist
                      /\ \E i \in OwnLines :
                           /\ events[i].body.name = "program_exit"
                           /\ events[i].body.seq = Len(hist) + 2
                           /\ \A j \in OwnLines : j <= i
    BY DEF ResultMatchesTrace
  <2>1. Ended /\ result.observed = hist
    BY DEF StoredInv, Stored
  <2>2. Len(hist) \in Nat /\ TypeOK /\ Transcript
    BY LenProperties DEF StoredInv, TypeOK, TargetTypeOK
  <2> QED
    BY <2>1, <2>2, LastLine
<1> QED
  BY <1>1, StoredInvariant, PTL

\* Where no payload was given up the chain is the recording's bodies.
LEMMA ChainIsRecording ==
  ASSUME TypeOK, Transcript, Started, Ended, Truthful, Kept
  PROVE  prev_hash = RecordedBodies(hist)
<1>0. /\ Len(hist) \in Nat /\ seq \in Nat /\ seq = Len(hist) + 2 /\ Len(prev_hash) = seq
      /\ prev_hash \in Seq(BodyType)
  BY LenProperties DEF TypeOK, TargetTypeOK, Transcript, Ended, HashType
<1>1. prev_hash[1] = ProcessBody("program_start", 1)
  BY <1>0 DEF Started
<1>2. ASSUME NEW i \in 1 .. Len(hist) + 2
      PROVE  prev_hash[i] = RecordedBodies(hist)[i]
  <2>1. CASE i = 1
    BY <1>0, <1>1, <2>1 DEF RecordedBodies
  <2>2. CASE i = Len(hist) + 2
    BY <1>0, <2>2 DEF RecordedBodies, Ended
  <2>3. CASE i # 1 /\ i # Len(hist) + 2
    <3>1. i - 1 \in 1 .. Len(hist) /\ (i - 1) + 1 = i
      BY <1>0, <2>3
    <3>2. prev_hash[(i - 1) + 1] = SyscallBody(hist[i - 1].call, (i - 1) + 1, hist[i - 1].ret,
                                               RecordedRef(hist, i - 1))
      BY <3>1 DEF Truthful
    <3>3. prev_hash[i] = SyscallBody(hist[i - 1].call, i, hist[i - 1].ret, RecordedRef(hist, i - 1))
      BY <3>1, <3>2
    <3> QED
      BY <2>3, <3>3 DEF RecordedBodies
  <2> QED
    BY <2>1, <2>2, <2>3
<1>3. prev_hash = [i \in 1 .. Len(hist) + 2 |-> prev_hash[i]]
  BY <1>0, LenProperties
<1>4. RecordedBodies(hist) = [i \in 1 .. Len(hist) + 2 |-> RecordedBodies(hist)[i]]
  BY DEF RecordedBodies
<1> QED
  BY <1>2, <1>3, <1>4

\* No payload was given up, as the lines tell it and as the chain does.
LEMMA KeptAsTold ==
  ASSUME TypeOK, Transcript, NoneGivenUp
  PROVE  Kept
<1>1. DOMAIN hist = 1 .. Len(hist)
  BY LenProperties DEF TypeOK, TargetTypeOK
<1> SUFFICES ASSUME NEW k \in 1 .. Len(hist), hist[k].data # << >>
             PROVE  prev_hash[k + 1].payload_ref # NoRef
  BY DEF Kept, GaveUp
<1>2. PICK i \in OwnLines : events[i].body.seq = k + 1 /\ events[i].body.payload_ref # NoRef
  BY <1>1 DEF NoneGivenUp
<1>3. events[i] = Line(SubSeq(prev_hash, 1, (k + 1) - 1), prev_hash[k + 1])
  BY <1>2 DEF Transcript
<1> QED
  BY <1>2, <1>3 DEF Line

\* Where no payload was given up and fflush does not fail, the recorder leaves exactly
\* the recording of what the target observed, every line, reference and byte of it, also
\* in a directory used before and with the hook's lines between its own.
THEOREM RecorderComplete == Spec => []CompleteRecording
<1>1. StoredInv => CompleteRecording
  <2> SUFFICES ASSUME StoredInv, result.run = runs, result.run > 0, result.signal = 0,
                      "flush" \notin Faults, NoneGivenUp
               PROVE  Wrote(RecordedLines(hist)) /\ payload = RecordedBytes(hist)
    BY DEF CompleteRecording
  <2>1. TypeOK /\ Transcript /\ Started /\ Ended /\ Truthful
    BY DEF StoredInv, Stored
  <2>2. Kept
    BY <2>1, KeptAsTold
  <2>3. payload = RecordedBytes(hist)
    BY <2>2 DEF StoredInv, Stored, AllSaved
  <2>4. prev_hash = RecordedBodies(hist)
    BY <2>1, <2>2, ChainIsRecording
  <2>5. seq = Len(hist) + 2 /\ Len(hist) \in Nat
    BY <2>1, LenProperties DEF Ended, TypeOK, TargetTypeOK
  <2>6. DOMAIN RecordedLines(hist) = 1 .. seq
    BY <2>5 DEF RecordedLines
  <2>7. \A n \in 1 .. seq :
          RecordedLines(hist)[n] = Line(SubSeq(prev_hash, 1, n - 1), prev_hash[n])
    BY <2>4, <2>5 DEF RecordedLines
  <2>8. Wrote(RecordedLines(hist))
    BY <2>1, <2>6, <2>7 DEF Wrote, Transcript
  <2> QED
    BY <2>3, <2>8
<1> QED
  BY <1>1, StoredInvariant, PTL

(***************************************************************************)
(* What the verifier finds: the lines transcribe the history.               *)
(***************************************************************************)
\* A reference has at least one byte and says how many; only syscalls have one.
Whole(ref) == ref = NoRef \/ (ref.length > 0 /\ ref.length = Len(ref.sha256))
WellReferred(body) ==
  Whole(body.payload_ref) /\ (body.etype # "SYSCALL" => body.payload_ref = NoRef)
Referred ==
  /\ pc = "emit" => Whole(payload_json)
  /\ \A i \in 1 .. Len(events) : WellReferred(events[i].body)

\* The kernel has filled the bytes the result promises, and what was observed has them.
Filled ==
  /\ tstate = "exitstop" => PayloadLen(call, ret) <= Len(mem)
  /\ \A k \in 1 .. Len(hist) : Len(hist[k].data) = PayloadLen(hist[k].call, hist[k].ret)

\* Once waitpid has told of the end, by exit or by signal, no result is without its line
\* and no line without its result; and result.json tells of that end.
Died ==
  /\ tstate = "reaped" /\ seq = Len(hist) + 2
  /\ prev_hash[Len(hist) + 2].etype = "PROCESS"
Closed ==
  /\ pc \in {"exited", "signalled"} => Died
  /\ result.run = runs /\ runs > 0 => Died /\ result.observed = hist

\* Referred is inductive.
LEMMA ReferredStep ==
  ASSUME TypeOK, BaseInFile, Referred, [Next]_vars
  PROVE  Referred'
<1>0. Len(events) \in Nat
  BY LenProperties DEF TypeOK
<1>1. ASSUME KeepsLines, pc' = "emit" => Whole(payload_json')
      PROVE  Referred'
  BY <1>1 DEF KeepsLines, Referred
<1>2. CASE OpenTrace
  BY <1>2 DEF OpenTrace, Opens, Referred
<1>3. CASE HookAppends
  <2>1. SyncLine(synced + 1) \in LineType
    BY SyncLineInType DEF TypeOK
  <2>2. /\ Len(events') = Len(events) + 1
        /\ \A i \in 1 .. Len(events) : events'[i] = events[i]
        /\ events'[Len(events) + 1] = SyncLine(synced + 1)
    BY <1>3, <2>1, AppendProperties DEF TypeOK, HookAppends
  <2>3. WellReferred(SyncLine(synced + 1).body)
    <3>1. SyncLine(synced + 1).body.payload_ref = NoRef
      BY DEF SyncLine, SyncBody, Body
    <3> QED
      BY <3>1 DEF WellReferred, Whole
  <2>4. pc' = pc /\ payload_json' = payload_json
    BY <1>3 DEF HookAppends, loopVars
  <2> QED
    BY <1>0, <2>2, <2>3, <2>4 DEF Referred
<1>4. ASSUME NEW body \in OwnBodies, Emit(body), base' = base, pc' # "emit", WellReferred(body)
      PROVE  Referred'
  <2>0. /\ Len(events') = Len(events) + 1
        /\ events'[Len(events) + 1] = Line(prev_hash, body)
        /\ \A i \in 1 .. Len(events) : events'[i] = events[i]
    BY <1>4, EmitOwn
  <2>1. events'[Len(events) + 1].body = body
    BY <2>0 DEF Line
  <2> QED
    BY <1>0, <1>4, <2>0, <2>1 DEF Referred
<1>5. CASE Attach \/ WaitDeath
  <2>1. PICK name \in ProcessNames : EmitProcess(name) /\ base' = base
    BY <1>5 DEF Attach, WaitDeath, ProcessNames
  <2>2. ProcessBody(name, seq + 1) \in OwnBodies
    BY BodiesInType DEF TypeOK, OwnBodies, ProcessBody, Body
  <2>3. WellReferred(ProcessBody(name, seq + 1))
    <3>1. ProcessBody(name, seq + 1).payload_ref = NoRef
      BY DEF ProcessBody, Body
    <3> QED
      BY <3>1 DEF WellReferred, Whole
  <2>4. pc' # "emit"
    BY <1>5 DEF Attach, WaitDeath
  <2> QED
    BY <1>4, <2>1, <2>2, <2>3, <2>4 DEF EmitProcess
<1>6. CASE EmitSyscall
  <2> DEFINE body == SyscallBody(entry, seq + 1, ret, payload_json)
  <2>1. body \in OwnBodies
    BY BodiesInType DEF TypeOK, TargetTypeOK, OwnBodies, SyscallBody, Body
  <2>2. WellReferred(body)
    BY <1>6 DEF EmitSyscall, Referred, WellReferred, SyscallBody, Body
  <2> QED
    BY <1>4, <1>6, <2>1, <2>2 DEF EmitSyscall
<1>7. CASE SavePayload \/ SavePayloadFails \/ FlushFails
  <2>1. CapturedBytes \in Seq(Byte)
    BY CapturedTyped
  <2>2. Whole(CapturedRef) /\ Whole(NoRef)
    <3>1. CapturedBytes # << >> => Len(CapturedBytes) > 0
      BY <2>1, EmptySeq, LenProperties
    <3>2. /\ Ref(PayloadOffset, CapturedBytes).length = Len(CapturedBytes)
          /\ Ref(PayloadOffset, CapturedBytes).sha256 = CapturedBytes
      BY DEF Ref
    <3> QED
      BY <3>1, <3>2 DEF CapturedRef, Whole
  <2>3. KeepsLines /\ payload_json' \in {CapturedRef, NoRef}
    BY <1>7 DEF SavePayload, SavePayloadFails, FlushFails, KeepsLines, writerVars
  <2> QED
    BY <1>1, <2>2, <2>3
<1>8. CASE StartFails \/ Fork \/ Resume \/ PtraceFails \/ WaitSignalStop \/ WaitSyscallStop
           \/ AtEntry \/ AtExit \/ TargetMoves \/ Crash \/ WriteResult \/ WriteResultFails \/ Close
           \/ UNCHANGED vars
  <2>1. /\ KeepsLines
        /\ pc' = "emit" => pc = "emit" /\ payload_json' = payload_json
    BY <1>8
    DEF StartFails, Fork, Resume, PtraceFails, WaitSignalStop, WaitSyscallStop, AtEntry, AtExit,
        TargetMoves, Crash, WriteResult, WriteResultFails, Close, vars, KeepsLines, diskVars,
        writerVars, loopVars
  <2> QED
    BY <1>1, <2>1 DEF Referred
<1> QED
  BY <1>2, <1>3, <1>5, <1>6, <1>7, <1>8 DEF Next, RecorderStep

\* Filled is inductive: the kernel keeps what TargetAssumption says of it.
LEMMA FilledStep ==
  ASSUME TypeOK, Filled, [Next]_vars
  PROVE  Filled'
<1>0. hist \in Seq(ObservationType) /\ Len(hist) \in Nat /\ call \in Calls /\ ret \in Int
      /\ mem \in Seq(Byte)
  BY LenProperties DEF TypeOK, TargetTypeOK
<1>1. ASSUME hist' = << >>, tstate' # "exitstop"
      PROVE  Filled'
  BY <1>1, EmptySeq DEF Filled
<1>2. ASSUME hist' = hist, tstate' = "exitstop" => tstate = "exitstop" /\ UNCHANGED << call, ret, mem >>
      PROVE  Filled'
  BY <1>2 DEF Filled
<1>3. CASE OpenTrace \/ Fork
  BY <1>1, <1>3 DEF OpenTrace, Opens, Fork, TargetUnborn, TargetFork
<1>4. CASE Resume
  <2>1. CASE tstate # "exitstop"
    BY <1>2, <1>4, <2>1 DEF Resume, ResumeTarget
  <2>2. CASE tstate = "exitstop"
    <3> DEFINE o == Observation(call, ret, mem)
    <3>1. hist' = Append(hist, o) /\ tstate' = "running"
      BY <1>4, <2>2 DEF Resume, ResumeTarget
    <3>2. o \in ObservationType /\ PayloadLen(call, ret) \in Nat
      BY <1>0, ObservationInType, PayloadLenNat
    <3>3. Len(Take(mem, PayloadLen(call, ret))) = PayloadLen(call, ret)
      BY <1>0, <2>2, <3>2, TakePrefix DEF Filled
    <3>4. Len(o.data) = PayloadLen(o.call, o.ret)
      BY <3>3 DEF Observation
    <3> HIDE DEF o
    <3>5. /\ Len(hist') = Len(hist) + 1 /\ hist'[Len(hist) + 1] = o
          /\ \A k \in 1 .. Len(hist) : hist'[k] = hist[k]
      BY <1>0, <3>1, <3>2, AppendProperties
    <3>6. \A k \in 1 .. Len(hist') : k \in 1 .. Len(hist) \/ k = Len(hist) + 1
      BY <1>0, <3>5
    <3> QED
      BY <3>1, <3>4, <3>5, <3>6 DEF Filled
  <2> QED
    BY <2>1, <2>2
<1>5. CASE KernelReturns /\ TargetMoves
  <2>1. PICK r \in LiveResults[call] : ret' = r.ret /\ mem' = r.mem
    BY <1>5 DEF KernelReturns
  <2>2. call \in DOMAIN LiveResults /\ call' = call /\ hist' = hist
    BY <1>0, <1>5, TargetAssumption DEF KernelReturns
  <2>3. PayloadLen(call', ret') <= Len(mem')
    BY <2>1, <2>2, TargetAssumption
  <2> QED
    BY <2>2, <2>3 DEF Filled
<1>6. CASE Interrupts
  <2>1. ret' = Restarts /\ UNCHANGED << hist, call, mem >> /\ Len(mem) \in Nat
    BY <1>0, <1>6, LenProperties DEF Interrupts
  <2>2. PayloadLen(call, Restarts) = 0
    BY DEF PayloadLen, Restarts
  <2> QED
    BY <2>1, <2>2 DEF Filled
<1>7. CASE TargetMoves /\ ~KernelReturns /\ ~Interrupts
  BY <1>2, <1>7
  DEF TargetMoves, TargetNext, TargetRuns, EnterSyscall, Exits, FaultStops, SignalStops, Killed
<1>8. CASE Attach \/ WaitDeath \/ Crash
  BY <1>2, <1>8 DEF Attach, WaitDeath, Crash, ReapTarget, DetachTarget, targetVars
<1>9. CASE StartFails \/ PtraceFails \/ WaitSignalStop \/ WaitSyscallStop \/ AtEntry \/ AtExit
           \/ SavePayload \/ SavePayloadFails \/ FlushFails \/ EmitSyscall \/ WriteResult
           \/ WriteResultFails \/ Close \/ HookAppends \/ UNCHANGED vars
  <2>1. UNCHANGED << hist, tstate, call, ret, mem >>
    BY <1>9
    DEF StartFails, PtraceFails, WaitSignalStop, WaitSyscallStop, AtEntry, AtExit, SavePayload,
        SavePayloadFails, FlushFails, EmitSyscall, WriteResult, WriteResultFails, Close,
        HookAppends, vars, targetVars
  <2> QED
    BY <1>2, <2>1
<1> QED
  BY <1>3, <1>4, <1>5, <1>6, <1>7, <1>8, <1>9 DEF Next, RecorderStep

\* Closed is inductive.
LEMMA ClosedStep ==
  ASSUME StoredInv, Closed, [Next]_vars
  PROVE  Closed'
<1>0. /\ Len(hist) \in Nat /\ seq \in Nat /\ Len(prev_hash) = seq
      /\ runs \in Nat /\ result.run \in Nat
      /\ TypeOK /\ Balanced /\ Ahead /\ Stored
  BY LenProperties DEF StoredInv, TypeOK, TargetTypeOK, Transcript, ResultType
<1>1. CASE OpenTrace
  BY <1>0, <1>1 DEF OpenTrace, Opens, Stored, Closed
<1>2. CASE StartFails \/ Fork \/ Attach \/ Resume \/ WaitSignalStop \/ WaitSyscallStop
           \/ AtEntry \/ AtExit \/ SavePayload \/ SavePayloadFails \/ FlushFails \/ EmitSyscall
           \/ PtraceFails
  <2>1. /\ runs' = runs /\ result' = result
        /\ pc' \notin {"exited", "signalled"} /\ pc \notin {"close", "done", "crashed"}
    BY <1>2
    DEF StartFails, Fork, Attach, Resume, WaitSignalStop, WaitSyscallStop, AtEntry, AtExit,
        SavePayload, SavePayloadFails, FlushFails, EmitSyscall, PtraceFails, diskVars
  <2> QED
    BY <1>0, <2>1 DEF Stored, Closed
<1>3. CASE WaitDeath
  <2>1. PICK name \in ProcessNames : EmitProcess(name)
    BY <1>3 DEF WaitDeath, ProcessNames
  <2>2. /\ runs' = runs /\ result' = result /\ pc \notin {"close", "done", "crashed"}
        /\ hist' = hist /\ tstate' = "reaped" /\ seq = Len(hist) + 1
    BY <1>0, <1>3 DEF WaitDeath, ReapTarget, Ahead, AheadBy
  <2> DEFINE body == ProcessBody(name, seq + 1)
  <2>3. body \in OwnBodies /\ body.seq = seq + 1 /\ body.etype = "PROCESS" /\ Emit(body)
    BY <1>0, <2>1, BodiesInType DEF TypeOK, OwnBodies, ProcessBody, Body, EmitProcess
  <2>4. seq' = seq + 1 /\ prev_hash'[seq + 1] = body
    BY <1>0, <2>3, EmitChain
  <2> HIDE DEF body
  <2>5. seq + 1 = Len(hist) + 2
    BY <1>0, <2>2
  <2>6. Died'
    BY <2>2, <2>3, <2>4, <2>5 DEF Died
  <2> QED
    BY <1>0, <2>2, <2>6 DEF Stored, Closed
<1>4. CASE WriteResult
  <2>1. /\ runs' = runs /\ pc' = "close" /\ result'.observed = hist
        /\ UNCHANGED << tstate, hist, seq, prev_hash >>
    BY <1>4 DEF WriteResult, targetVars, writerVars
  <2>2. Died
    BY <1>4 DEF WriteResult, Closed
  <2> QED
    BY <2>1, <2>2 DEF Closed, Died
<1>5. CASE WriteResultFails
  <2>1. /\ runs' = runs /\ pc' = "close" /\ pc \in {"exited", "signalled"}
        /\ result' = result \/ result'.run = 0
    BY <1>5 DEF WriteResultFails, NoResult
  <2>2. result.run # runs \/ runs = 0
    BY <1>0, <2>1 DEF Stored
  <2> QED
    BY <1>0, <2>1, <2>2 DEF Closed
<1>6. CASE Close \/ Crash \/ TargetMoves \/ HookAppends \/ UNCHANGED vars
  <2>1. /\ runs' = runs /\ result' = result /\ UNCHANGED << hist, seq, prev_hash >>
        /\ tstate = "reaped" => tstate' = "reaped"
        /\ pc' \in {"exited", "signalled"} => pc' = pc
    BY <1>0, <1>6, TargetHeld
    DEF Close, Crash, DetachTarget, TargetMoves, TargetNext, TargetRuns, EnterSyscall,
        KernelReturns, Exits, FaultStops, SignalStops, Interrupts, Killed, Alive, Stopped, HookAppends, vars,
        targetVars, diskVars, writerVars
  <2> QED
    BY <2>1 DEF Closed, Died
<1> QED
  BY <1>1, <1>2, <1>3, <1>4, <1>5, <1>6 DEF Next, RecorderStep

\* The line of a result says what was observed, its length included.
LEMMA LineTells ==
  ASSUME StoredInv, Referred, Filled, Kept, NEW k \in 1 .. Len(hist)
  PROVE  \E i \in OwnLines : events[i].body.seq = k + 1 /\ Telling(events[i].body, hist[k])
<1>0. TypeOK /\ Transcript /\ WriteAhead
  BY DEF StoredInv, Ahead
<1>1. hist[k] \in ObservationType
  BY <1>0, ElementOfSeq DEF TypeOK, TargetTypeOK
<1>2. PICK i \in OwnLines :
        SyscallLine(i) /\ events[i].body.seq = k + 1 /\ Records(events[i].body, hist[k])
  BY <1>0 DEF WriteAhead, Recorded
<1> DEFINE ref == events[i].body.payload_ref
<1>3. ref \in RefType /\ Whole(ref)
  BY <1>0, <1>2, OwnRefTyped DEF Referred, WellReferred
<1>4. events[i] = Line(SubSeq(prev_hash, 1, (k + 1) - 1), prev_hash[k + 1])
  BY <1>0, <1>2 DEF Transcript
<1>5. hist[k].data # << >> => ref # NoRef
  BY <1>4 DEF Kept, GaveUp, Line
<1>6. NoRef.length = 0 /\ NoRef.sha256 = << >>
  BY EmptySeq DEF NoRef, Ref
<1>7. ref.length > 0 => ref.sha256 = hist[k].data
  BY <1>2 DEF Records
<1> HIDE DEF ref
<1>8. ref.length = Len(hist[k].data) /\ ref.sha256 = hist[k].data
  <2>1. CASE ref = NoRef
    BY <1>5, <1>6, <2>1, EmptySeq
  <2>2. CASE ref # NoRef
    BY <1>3, <1>7, <2>2 DEF Whole
  <2> QED
    BY <2>1, <2>2
<1> QED
  BY <1>2, <1>8 DEF Telling, Records, SyscallLine, Filled, ref

\* A number is that of one line only.
LEMMA OneLine ==
  ASSUME Transcript, TypeOK, NEW i \in OwnLines, NEW j \in OwnLines,
         events[i].body.seq = events[j].body.seq
  PROVE  i = j
<1>1. i \in Nat /\ j \in Nat
  BY OwnBelow
<1>2. seq \in Nat /\ events[i].body.seq \in 1 .. seq /\ events[j].body.seq \in 1 .. seq
  BY DEF Transcript, TypeOK
<1>3. ~(i < j) /\ ~(j < i)
  BY <1>2 DEF Transcript
<1> QED
  BY <1>1, <1>3

\* In a first recording that ended, the lines of syscalls are those of the results.
LEMMA EndedTranscribes ==
  ASSUME StoredInv, Referred, Filled, Kept, Died, base = 0
  PROVE  Transcribes(events, hist)
<1> DEFINE told == {n \in DOMAIN events : events[n].body.etype = "SYSCALL"}
           Of(k) == CHOOSE i \in OwnLines :
                      events[i].body.seq = k + 1 /\ Telling(events[i].body, hist[k])
           at == [k \in DOMAIN hist |-> Of(k)]
<1>0. /\ TypeOK /\ Transcript /\ Started
      /\ Len(hist) \in Nat /\ DOMAIN hist = 1 .. Len(hist)
      /\ Len(events) \in Nat /\ DOMAIN events = 1 .. Len(events)
      /\ seq \in Nat /\ seq = Len(hist) + 2
  BY LenProperties DEF StoredInv, TypeOK, TargetTypeOK, Died
<1>1. \A k \in DOMAIN hist :
        Of(k) \in OwnLines /\ events[Of(k)].body.seq = k + 1 /\ Telling(events[Of(k)].body, hist[k])
  BY <1>0, LineTells
<1> HIDE DEF Of
<1>2. \A i : i \in OwnLines <=> i \in DOMAIN events /\ events[i].body.etype # "SYNC"
  BY <1>0 DEF OwnLines, Own
<1>3. /\ at \in [DOMAIN hist -> told]
      /\ \A k \in DOMAIN hist :
           /\ at[k] \in OwnLines /\ events[at[k]].body.seq = k + 1
           /\ Telling(events[at[k]].body, hist[k])
  BY <1>1, <1>2 DEF Telling
<1> HIDE DEF at
<1>4. \A k, l \in DOMAIN hist : k < l => at[k] < at[l]
  <2> SUFFICES ASSUME NEW k \in DOMAIN hist, NEW l \in DOMAIN hist, k < l
               PROVE  at[k] < at[l]
    OBVIOUS
  <2>1. at[k] \in Nat /\ at[l] \in Nat
    BY <1>0, <1>3, OwnBelow
  <2>2. ~(events[at[l]].body.seq <= events[at[k]].body.seq)
    BY <1>0, <1>3
  <2>3. ~(at[l] < at[k])
    <3>1. at[l] < at[k] => events[at[l]].body.seq < events[at[k]].body.seq
      BY <1>0, <1>3 DEF Transcript
    <3> QED
      BY <1>0, <1>3, <3>1
  <2>4. at[l] # at[k]
    BY <1>0, <1>3
  <2> QED
    BY <2>1, <2>3, <2>4
<1>5. \A n \in told : \E k \in DOMAIN hist : at[k] = n
  <2> SUFFICES ASSUME NEW n \in told
               PROVE  \E k \in DOMAIN hist : at[k] = n
    OBVIOUS
  <2> DEFINE m == events[n].body.seq
  <2>1. n \in OwnLines /\ events[n].body.etype = "SYSCALL"
    BY <1>2
  <2>2. m \in 1 .. seq /\ events[n] = Line(SubSeq(prev_hash, 1, m - 1), prev_hash[m])
    BY <1>0, <2>1 DEF Transcript
  <2>3. events[n].body = prev_hash[m]
    BY <2>2 DEF Line
  <2> HIDE DEF m
  <2>4. prev_hash[1].etype = "PROCESS" /\ prev_hash[Len(hist) + 2].etype = "PROCESS"
    BY <1>0 DEF Started, Died, ProcessBody, Body
  <2>5. m # 1 /\ m # Len(hist) + 2
    BY <2>1, <2>3, <2>4
  <2>6. m - 1 \in DOMAIN hist /\ (m - 1) + 1 = m
    BY <1>0, <2>2, <2>5
  <2>7. at[m - 1] \in OwnLines /\ events[at[m - 1]].body.seq = m
    BY <1>3, <2>6
  <2>8. at[m - 1] = n
    BY <1>0, <2>1, <2>7, OneLine DEF m
  <2> QED
    BY <2>6, <2>8
<1>6. \A n \in DOMAIN events \ told : events[n].body.payload_ref = NoRef
  BY <1>0 DEF Referred, WellReferred
<1> HIDE DEF told
<1>7. \E f \in [DOMAIN hist -> told] :
        /\ \A k, l \in DOMAIN hist : k < l => f[k] < f[l]
        /\ \A n \in told : \E k \in DOMAIN hist : f[k] = n
        /\ \A k \in DOMAIN hist : Telling(events[f[k]].body, hist[k])
  BY <1>3, <1>4, <1>5
<1> QED
  BY <1>6, <1>7, Zenon DEF Transcribes, told

\* A result.json of a first recording, of an exit or of a kill, stands beside lines that
\* transcribe what the program observed unless a payload was given up, whatever signals
\* came, whatever the hook appended and also where a flush failed.  It is what
\* SessionVerdictSound and PipelineVerdictSound suppose of the directories they start from.
THEOREM RecorderResultTranscribed == Spec => []ResultTranscribed
<1> DEFINE I == StoredInv /\ Referred /\ Filled /\ Closed
<1>1. Init /\ StoredInv => I
  <2> SUFFICES ASSUME Init, StoredInv
               PROVE  I
    OBVIOUS
  <2>1. Len(events) = 0 /\ Len(hist) = 0
    BY EmptySeq DEF Init, TargetInit
  <2> QED
    BY <2>1 DEF Init, TargetInit, Referred, Filled, Closed, NoResult
<1>2. I /\ [Next]_vars /\ StoredInv' => I'
  BY ReferredStep, FilledStep, ClosedStep DEF StoredInv
<1>3. I => ResultTranscribed
  <2> SUFFICES ASSUME I, result.run = runs, result.run > 0, base = 0, NoneGivenUp
               PROVE  Transcribes(events, result.observed)
    BY DEF ResultTranscribed
  <2>1. Died /\ result.observed = hist
    BY DEF Closed
  <2>2. Kept
    BY KeptAsTold DEF StoredInv
  <2> QED
    BY <2>1, <2>2, EndedTranscribes
<1> HIDE DEF I
<1> QED
  BY <1>1, <1>2, <1>3, StoredInvariant, PTL DEF Spec
=============================================================================
