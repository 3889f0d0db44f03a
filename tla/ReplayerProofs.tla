---------------------------- MODULE ReplayerProofs ----------------------------
(***************************************************************************)
(* What holds of the replayer for every program, every kernel, and every     *)
(* directory it is given, also one no recorder would leave.                  *)
(***************************************************************************)
EXTENDS Replayer, TargetProofs

(***************************************************************************)
(* Type correctness.  The cursor stays within the loaded events because an   *)
(* event is chosen only if there is one, and spent once.                     *)
(***************************************************************************)
Chose == active # 0 => active = cursor + 1

\* From the choice at the entry to the injection at the exit.
Pending ==
  /\ pc \in {"load", "opened", "attach"} => active = 0
  /\ in_syscall /\ pc \in {"resume", "wait", "stopped"} => Chose
  /\ pc = "inject" => active # 0 /\ Chose

\* emit_line keeps the writer's state and the file well formed.
LEMMA EmitInType ==
  ASSUME events \in Seq(LineType), prev_hash \in HashType,
         NEW body \in BodyType, Emit(body)
  PROVE  events' \in Seq(LineType) /\ prev_hash' \in HashType /\ seq' \in Nat
<1>1. Append(prev_hash, body) \in HashType
  BY AppendProperties DEF HashType
<1>2. Line(prev_hash, body) \in LineType
  BY <1>1 DEF Line, LineType
<1> QED
  BY <1>1, <1>2, AppendProperties DEF Emit, BodyType

\* What fread takes out of payload.bin are bytes of it.
LEMMA SliceBytes ==
  ASSUME NEW f \in Seq(Byte), NEW o \in Nat, NEW n \in Nat, n > 0 => o + n <= Len(f)
  PROVE  /\ Slice(f, o, n) \in Seq(Byte)
         /\ Len(Slice(f, o, n)) = n
<1>1. Len(f) \in Nat
  BY LenProperties
<1>2. \A i \in o + 1 .. o + n : f[i] \in Byte
  BY <1>1, ElementOfSeq
<1>3. o + 1 \in Int /\ o + n \in Int /\ o + 1 <= (o + n) + 1
  OBVIOUS
<1>4. SubSeq(f, o + 1, o + n) \in Seq(Byte) /\ Len(SubSeq(f, o + 1, o + n)) = (o + n) - (o + 1) + 1
  BY <1>2, <1>3, SubSeqProperties
<1> QED
  BY <1>4 DEF Slice

\* What write_child_mem leaves in the caller's buffer.
LEMMA OverlayBytes ==
  ASSUME NEW m \in Seq(Byte), NEW data \in Seq(Byte)
  PROVE  Overlay(m, data) \in Seq(Byte)
<1> DEFINE n == IF Len(m) < Len(data) THEN Len(data) ELSE Len(m)
<1>1. n \in Nat /\ Len(m) \in Nat /\ Len(data) \in Nat
  BY LenProperties
<1>2. \A i \in 1 .. n : (IF i <= Len(data) THEN data[i] ELSE m[i]) \in Byte
  BY <1>1, ElementOfSeq
<1> QED
  BY <1>1, <1>2, IsASeq DEF Overlay

\* What is injected are bytes of the recording, and if nothing is noted as missed or
\* unsaved, all of them and the result reach the program and payload.bin.
LEMMA InjectReaches ==
  ASSUME TypeOK, Pending, Inject
  PROVE  LET item == items[active]
             data == RecordedData(item.payload_ref)
         IN  /\ active \in 1 .. Len(items) /\ item \in BodyType
             /\ data \in Seq(Byte) /\ Len(data) = item.payload_ref.length
             /\ tstate # "killed" /\ seq + 1 \notin missed' =>
                  ret' = item.ret /\ mem' = Overlay(mem, data)
             /\ seq + 1 \notin unsaved' => payload' = payload \o data
<1> DEFINE item == items[active]
           data == RecordedData(item.payload_ref)
<1>1. active \in 1 .. Len(items) /\ item \in BodyType
  BY LenProperties, ElementOfSeq DEF TypeOK, Inject, Pending
<1>2. /\ trace.bytes \in Seq(Byte)
      /\ item.payload_ref.offset \in Nat /\ item.payload_ref.length \in Nat
  BY <1>1 DEF TypeOK, DirectoryType, BodyType, RefType
<1>3. data \in Seq(Byte) /\ Len(data) = item.payload_ref.length
  BY <1>2, SliceBytes DEF Inject, Readable, RecordedData
<1>4. Take(data, Len(data)) = data
  BY <1>3, TakeAll
<1>5. PICK n \in Written(Len(data)), set \in RegsSet :
        /\ mem' = Overlay(mem, Take(data, n))
        /\ ret' = IF set THEN item.ret ELSE ret
        /\ missed' = IF tstate = "killed" \/ (n = Len(data) /\ set) THEN missed
                     ELSE missed \cup {seq + 1}
  BY DEF Inject
<1>6. PICK a \in Accepted(Len(data)) :
        /\ payload' = payload \o Take(data, a)
        /\ unsaved' = IF a = Len(data) THEN unsaved ELSE unsaved \cup {seq + 1}
  BY DEF Inject
<1> HIDE DEF data, item
<1>7. tstate # "killed" /\ seq + 1 \notin missed' => ret' = item.ret /\ mem' = Overlay(mem, data)
  BY <1>4, <1>5
<1>8. seq + 1 \notin unsaved' => payload' = payload \o data
  BY <1>4, <1>6
<1> QED
  BY <1>1, <1>3, <1>7, <1>8 DEF data, item

\* What was missed, and what was lost, stays so.
LEMMA MissedGrows ==
  ASSUME [Next]_vars
  PROVE  missed \subseteq missed' /\ unsaved \subseteq unsaved'
<1>1. CASE Inject
  BY <1>1 DEF Inject
<1>2. CASE InjectFails
  BY <1>2 DEF InjectFails
<1>3. CASE Close
  BY <1>3 DEF Close
<1>4. CASE ~(Inject \/ InjectFails \/ Close)
  <2>1. UNCHANGED historyVars
    BY <1>4
    DEF Next, ReplayerStep, vars, loopVars, TargetUnknown, StartFails, TargetMoves, Crash,
        LoadLine,
        Loaded, Fork, Attach, Resume, PtraceFails, WaitDeath, WaitSignalStop, WaitSyscallStop,
        AtEntry, AtExit, EmitSyscall, WriteResult, WriteResultFails
  <2> QED
    BY <2>1 DEF historyVars
<1> QED
  BY <1>1, <1>2, <1>3, <1>4

\* A step keeps the types.
LEMMA TypeStep ==
  ASSUME TypeOK, Pending, [Next]_vars
  PROVE  TypeOK'
<1> USE DEF Active, Over
<1>0. Len(items) \in Nat /\ Len(trace.lines) \in Nat /\ Len(payload) \in Nat
  BY LenProperties DEF TypeOK, DirectoryType
<1>1. CASE LoadLine
  <2> DEFINE body == trace.lines[line'].body
  <2>1. line' \in 1 .. Len(trace.lines)
    BY <1>0, <1>1 DEF LoadLine, TypeOK
  <2>2. body \in BodyType
    <3>1. trace.lines \in Seq(LineType)
      BY DEF TypeOK, DirectoryType
    <3>2. trace.lines[line'] \in LineType
      BY <2>1, <3>1, ElementOfSeq
    <3> QED
      BY <3>2 DEF LineType
  <2>3. items' \in Seq(BodyType) /\ Len(items') >= Len(items) /\ Len(items') \in Nat
    <3>1. CASE Replayable(body)
      BY <3>1, <2>2, <1>0, <1>1, AppendProperties DEF LoadLine, TypeOK
    <3>2. CASE ~Replayable(body)
      BY <3>2, <1>0, <1>1 DEF LoadLine, TypeOK
    <3> QED
      BY <3>1, <3>2
  <2>4. active' \in 0 .. Len(items') /\ cursor' \in 0 .. Len(items')
    BY <1>0, <1>1, <2>3 DEF LoadLine, TypeOK, loopVars, historyVars
  <2> QED
    BY <1>1, <2>1, <2>3, <2>4
    DEF TypeOK, TargetTypeOK, LoadLine, targetVars, diskVars, writerVars, loopVars, historyVars
<1>2. CASE Loaded
  BY <1>2, EmptySeq DEF TypeOK, TargetTypeOK, Loaded, targetVars, loadVars, writerVars,
       loopVars, historyVars
<1>3. CASE TargetUnknown \/ StartFails \/ PtraceFails
  BY <1>3
  DEF TypeOK, TargetTypeOK, TargetUnknown, StartFails, PtraceFails, targetVars, diskVars,
      loadVars, writerVars, loopVars, historyVars
<1>4. CASE Fork
  BY <1>4, EmptySeq
  DEF TypeOK, TargetTypeOK, Fork, TargetFork, TStates, Alive, Stopped, diskVars, loadVars,
      writerVars, loopVars, historyVars
<1>5. CASE Attach
  <2>1. events' \in Seq(LineType) /\ prev_hash' \in HashType /\ seq' \in Nat
    BY <1>5, BodiesInType, EmitInType DEF TypeOK, Attach, EmitProcess, ProcessNames
  <2>2. TargetTypeOK'
    BY <1>5 DEF TypeOK, Attach, TargetTypeOK, ReapTarget, targetVars, TStates
  <2> QED
    BY <1>5, <2>1, <2>2 DEF TypeOK, Attach, loadVars, loopVars, historyVars
<1>6. CASE Resume
  BY <1>6, ResumeTyped DEF TypeOK, Resume, diskVars, loadVars, writerVars, loopVars, historyVars
<1>7. CASE WaitDeath
  <2>1. PICK name \in ProcessNames : EmitProcess(name)
    BY <1>7 DEF WaitDeath, ProcessNames
  <2>2. events' \in Seq(LineType) /\ prev_hash' \in HashType /\ seq' \in Nat
    BY <2>1, BodiesInType, EmitInType DEF TypeOK, EmitProcess
  <2>3. TargetTypeOK'
    BY <1>7 DEF TypeOK, WaitDeath, TargetTypeOK, ReapTarget, TStates
  <2> QED
    BY <1>7, <2>2, <2>3 DEF TypeOK, WaitDeath, loadVars, loopVars, historyVars
<1>8. CASE WaitSignalStop \/ WaitSyscallStop
  BY <1>8
  DEF TypeOK, TargetTypeOK, WaitSignalStop, WaitSyscallStop, targetVars, diskVars, loadVars,
      writerVars, loopVars, historyVars
<1>9. CASE AtEntry
  <2>1. active' \in 0 .. Len(items)
    BY <1>0, <1>9 DEF AtEntry, Chosen, TypeOK
  <2> QED
    BY <1>9, <2>1
    DEF TypeOK, TargetTypeOK, AtEntry, targetVars, diskVars, loadVars, writerVars, historyVars
<1>10. CASE AtExit
  BY <1>10
  DEF TypeOK, TargetTypeOK, AtExit, targetVars, diskVars, loadVars, writerVars, historyVars
<1>11. CASE Inject
  <2> DEFINE item == items[active]
             data == RecordedData(item.payload_ref)
  <2>1. item \in BodyType /\ cursor' \in 0 .. Len(items)
    BY <1>0, <1>11, ElementOfSeq DEF TypeOK, Inject, Pending, Chose, Consume
  <2>2. /\ trace.bytes \in Seq(Byte) /\ item.ret \in Int
        /\ item.payload_ref.offset \in Nat /\ item.payload_ref.length \in Nat
    BY <2>1 DEF TypeOK, DirectoryType, BodyType, RefType
  <2>3. data \in Seq(Byte) /\ Len(data) \in Nat /\ seq + 1 \in Nat
    <3>1. data \in Seq(Byte)
      BY <1>11, <2>2, SliceBytes DEF Inject, Readable, RecordedData
    <3>2. seq + 1 \in Nat
      BY DEF TypeOK
    <3> QED
      BY <3>1, <3>2, LenProperties
  <2>4. PICK n \in Written(Len(data)), set \in RegsSet :
          /\ mem' = Overlay(mem, Take(data, n))
          /\ ret' = IF set THEN item.ret ELSE ret
          /\ missed' = missed \/ missed' = missed \cup {seq + 1}
    BY <1>11 DEF Inject
  <2>5. PICK a \in Accepted(Len(data)) :
          /\ payload' = payload \o Take(data, a)
          /\ unsaved' = unsaved \/ unsaved' = unsaved \cup {seq + 1}
    BY <1>11 DEF Inject
  <2>6. n \in Nat /\ a \in Nat
    BY <2>3 DEF Written, Accepted
  <2>7. mem' \in Seq(Byte) /\ payload' \in Seq(Byte)
    BY <2>3, <2>4, <2>5, <2>6, TakePrefix, OverlayBytes, ConcatProperties
    DEF TypeOK, TargetTypeOK
  <2>8. /\ ret' \in Int /\ shown' \in Int /\ missed' \subseteq Nat /\ unsaved' \subseteq Nat
        /\ UNCHANGED << tstate, hist, call, signals, trace, line, items, events, result,
                        in_syscall, entry, active, seq, prev_hash >>
        /\ pc' = "emit"
    BY <1>11, <2>2, <2>3, <2>4, <2>5 DEF Inject, TypeOK, TargetTypeOK, loadVars, writerVars
  <2> QED
    BY <2>1, <2>7, <2>8 DEF TypeOK, TargetTypeOK
<1>12. CASE InjectFails
  <2>1. cursor' \in 0 .. Len(items)
    BY <1>0, <1>12 DEF TypeOK, InjectFails, Pending, Chose, Consume
  <2>2. missed' \subseteq Nat /\ unsaved' \subseteq Nat
    BY <1>12 DEF TypeOK, InjectFails
  <2> QED
    BY <1>12, <2>1, <2>2
    DEF TypeOK, TargetTypeOK, InjectFails, targetVars, diskVars, loadVars, writerVars
<1>13. CASE EmitSyscall
  <2>1. EmittedRef \in RefType
    <3>1. CASE active = 0
      BY <3>1, NoRefInType DEF EmittedRef
    <3>2. CASE active # 0
      <4>0. items[active] \in BodyType
        BY <1>0, <3>2, ElementOfSeq DEF TypeOK
      <4>1. items[active].payload_ref \in RefType
        BY <4>0 DEF BodyType
      <4> QED
        BY <1>0, <3>2, <4>1, NoRefInType DEF EmittedRef, RefType
    <3> QED
      BY <3>1, <3>2
  <2>2. SyscallBody(entry, seq + 1, shown, EmittedRef) \in BodyType
    BY <2>1, BodiesInType DEF TypeOK
  <2>3. events' \in Seq(LineType) /\ prev_hash' \in HashType /\ seq' \in Nat
    BY <1>13, <2>2, EmitInType DEF TypeOK, EmitSyscall
  <2> QED
    BY <1>13, <2>3 DEF TypeOK, TargetTypeOK, EmitSyscall, targetVars, loadVars, historyVars
<1>14. CASE WriteResult \/ WriteResultFails
  <2>1. CASE WriteResult
    <3>1. hist \in Seq(ObservationType)
      BY DEF TypeOK, TargetTypeOK
    <3>2. result' \in ResultType
      BY <2>1, <3>1 DEF WriteResult, ResultType
    <3> QED
      BY <2>1, <3>2
      DEF TypeOK, TargetTypeOK, WriteResult, targetVars, loadVars, writerVars, loopVars,
          historyVars
  <2>2. CASE WriteResultFails
    <3>1. result' \in ResultType
      <4>1. NoResult \in ResultType
        BY EmptySeq DEF NoResult, ResultType
      <4> QED
        BY <2>2, <4>1 DEF WriteResultFails, TypeOK
    <3> QED
      BY <2>2, <3>1
      DEF TypeOK, TargetTypeOK, WriteResultFails, targetVars, diskVars, loadVars, writerVars,
        loopVars, historyVars
  <2> QED
    BY <1>14, <2>1, <2>2
<1>15. CASE TargetMoves
  BY <1>15, TargetTyped DEF TypeOK, TargetMoves, diskVars, loadVars, writerVars, loopVars,
       historyVars
<1>16. CASE Close
  <2>1. PICK n \in Accepted(Len(payload)) :
          /\ payload' = Take(payload, n)
          /\ unsaved' = unsaved \/ unsaved' = unsaved \cup {0}
    BY <1>16 DEF Close
  <2>2. n \in Nat
    BY <1>0 DEF Accepted
  <2>3. payload' \in Seq(Byte) /\ unsaved' \subseteq Nat
    <3>1. payload \in Seq(Byte) /\ unsaved \subseteq Nat
      BY DEF TypeOK
    <3>2. Take(payload, n) \in Seq(Byte)
      BY <2>2, <3>1, TakePrefix
    <3>3. {0} \subseteq Nat
      OBVIOUS
    <3> QED
      BY <2>1, <3>1, <3>2, <3>3
  <2> QED
    BY <1>16, <2>3 DEF TypeOK, TargetTypeOK, Close, targetVars, loadVars, writerVars
<1>17. CASE Crash
  <2>1. payload' \in Seq(Byte)
    BY <1>0, <1>17, TakePrefix DEF TypeOK, Crash
  <2> QED
    BY <1>17, <2>1
    DEF TypeOK, TargetTypeOK, Crash, DetachTarget, TStates, Alive, Stopped, diskVars, loadVars,
      writerVars, loopVars, historyVars
<1>18. CASE UNCHANGED vars
  BY <1>18
  DEF TypeOK, TargetTypeOK, vars, targetVars, diskVars, loadVars, writerVars, loopVars,
      historyVars
<1> QED
  BY <1>1, <1>2, <1>3, <1>4, <1>5, <1>6, <1>7, <1>8, <1>9, <1>10, <1>11, <1>12, <1>13, <1>14,
     <1>15, <1>16, <1>17, <1>18
  DEF Next, ReplayerStep

\* An event that was chosen is the next one until it is spent.
LEMMA PendingStep ==
  ASSUME TypeOK, Pending, [Next]_vars
  PROVE  Pending'
<1> USE DEF Pending, Chose
<1>1. CASE LoadLine \/ Loaded \/ TargetUnknown \/ StartFails \/ PtraceFails \/ Close \/ Crash
  BY <1>1
  DEF LoadLine, Loaded, TargetUnknown, StartFails, PtraceFails, Close, Crash, loopVars,
      historyVars
<1>2. CASE Fork \/ Attach
  BY <1>2 DEF Fork, Attach, loopVars, historyVars
<1>3. CASE Resume \/ WaitSignalStop \/ WaitSyscallStop
  BY <1>3 DEF Resume, WaitSignalStop, WaitSyscallStop, loopVars, historyVars
<1>4. CASE WaitDeath \/ WriteResult \/ WriteResultFails
  BY <1>4 DEF WaitDeath, WriteResult, WriteResultFails
<1>5. CASE AtEntry
  BY <1>5 DEF AtEntry, Chosen
<1>6. CASE AtExit
  BY <1>6 DEF AtExit
<1>7. CASE Inject \/ InjectFails
  BY <1>7 DEF Inject, InjectFails
<1>8. CASE EmitSyscall
  BY <1>8 DEF EmitSyscall
<1>9. CASE TargetMoves \/ UNCHANGED vars
  BY <1>9 DEF TargetMoves, vars, loopVars, historyVars
<1> QED
  BY <1>1, <1>2, <1>3, <1>4, <1>5, <1>6, <1>7, <1>8, <1>9 DEF Next, ReplayerStep

\* Where a replayer begins, whatever is in the directory it writes to.
Begins ==
  /\ TargetInit
  /\ trace \in Traces
  /\ line = 0 /\ items = << >>
  /\ events \in Seq(LineType) /\ payload \in Seq(Byte) /\ result \in ResultType
  /\ pc = "load"
  /\ in_syscall = FALSE /\ entry = "read" /\ shown = 0 /\ active = 0 /\ cursor = 0
  /\ seq = 0 /\ prev_hash = << >> /\ missed = {} /\ unsaved = {}

LEMMA InitBegins ==
  ASSUME Init
  PROVE  Begins
<1>1. events \in Seq(LineType) /\ payload \in Seq(Byte) /\ result \in ResultType
  BY ReplayerAssumption DEF Init, DirectoryType
<1>2. in_syscall = FALSE
  BY Zenon DEF Init
<1> QED
  BY <1>1, <1>2 DEF Init, Begins

LEMMA InitTyped ==
  ASSUME Begins
  PROVE  TypeOK /\ Pending
<1>1. /\ << >> \in Seq(ObservationType) /\ << >> \in Seq(Byte)
      /\ << >> \in Seq(BodyType) /\ << >> \in HashType
  BY EmptySeq DEF HashType
<1>2. trace \in DirectoryType
  BY ReplayerAssumption DEF Begins
<1>3. events \in Seq(LineType) /\ payload \in Seq(Byte) /\ result \in ResultType
  BY DEF Begins
<1>4. TargetTypeOK
  BY <1>1 DEF Begins, TargetInit, TargetTypeOK, TStates, Calls
<1>5. "read" \in Calls /\ "load" \in Active \cup Over
  BY DEF Calls, PayloadCalls, Active
<1>6. line \in 0 .. Len(trace.lines)
  BY <1>2, LenProperties DEF Begins, DirectoryType
<1>7. items = << >> /\ Len(items) = 0 /\ active \in 0 .. Len(items) /\ cursor \in 0 .. Len(items)
  BY EmptySeq DEF Begins
<1>8. items \in Seq(BodyType) /\ prev_hash \in HashType /\ entry \in Calls
  BY <1>1, <1>5 DEF Begins
<1>9. /\ pc \in Active \cup Over /\ shown \in Int /\ seq \in Nat
      /\ missed \subseteq Nat /\ unsaved \subseteq Nat
  BY DEF Begins, Active
<1>10. in_syscall \in BOOLEAN
  BY Zenon DEF Begins
<1>11. Pending
  BY DEF Begins, Pending
<1> QED
  BY <1>2, <1>3, <1>4, <1>6, <1>7, <1>8, <1>9, <1>10, <1>11 DEF TypeOK

\* Every variable of the replayer keeps its type, whatever directory it is given: in
\* particular no recorded result is ever taken from beyond the last one.
THEOREM ReplayerTyped == Spec => []TypeOK
BY InitBegins, InitTyped, TypeStep, PendingStep, PTL DEF Spec

(***************************************************************************)
(* A covered recording.                                                     *)
(***************************************************************************)
\* Its n-th line is numbered n; those the replayer loads are the results of the
\* replayed syscalls, each with what the program observed.
Told(k) ==
  LET body == trace.lines[k + 1].body
  IN  /\ body.etype = "SYSCALL"
      /\ body.name = Original[k].call
      /\ body.ret = Original[k].ret
      /\ body.payload_ref.length = Len(Original[k].data)
      /\ body.payload_ref.length > 0 => Readable(body.payload_ref)
      /\ RecordedData(body.payload_ref) = Original[k].data

\* What RecordedTrace says, line by line.
LEMMA RecordedBody ==
  ASSUME NEW h \in Seq(ObservationType)
  PROVE  /\ Len(RecordedLines(h)) = Len(h) + 2
         /\ DOMAIN RecordedLines(h) = 1 .. Len(h) + 2
         /\ RecordedLines(h)[1].body = ProcessBody("program_start", 1)
         /\ RecordedLines(h)[Len(h) + 2].body = ProcessBody("program_exit", Len(h) + 2)
         /\ \A k \in 1 .. Len(h) :
              RecordedLines(h)[k + 1].body
                = SyscallBody(h[k].call, k + 1, h[k].ret, RecordedRef(h, k))
<1>1. Len(h) \in Nat
  BY LenProperties
<1>2. \A n \in 1 .. Len(h) + 2 : RecordedLines(h)[n].body = RecordedBodies(h)[n]
  BY DEF RecordedLines, Line
<1>3. /\ RecordedBodies(h)[1] = ProcessBody("program_start", 1)
      /\ RecordedBodies(h)[Len(h) + 2] = ProcessBody("program_exit", Len(h) + 2)
  BY <1>1 DEF RecordedBodies
<1>4. \A k \in 1 .. Len(h) :
        RecordedBodies(h)[k + 1] = SyscallBody(h[k].call, k + 1, h[k].ret, RecordedRef(h, k))
  <2> SUFFICES ASSUME NEW k \in 1 .. Len(h)
               PROVE  RecordedBodies(h)[k + 1]
                        = SyscallBody(h[k].call, k + 1, h[k].ret, RecordedRef(h, k))
    OBVIOUS
  <2>1. k + 1 \in 1 .. Len(h) + 2 /\ k + 1 # 1 /\ k + 1 # Len(h) + 2 /\ (k + 1) - 1 = k
    BY <1>1
  <2> QED
    BY <2>1 DEF RecordedBodies
<1>5. DOMAIN RecordedLines(h) = 1 .. Len(h) + 2
  BY DEF RecordedLines
<1>6. Len(RecordedLines(h)) = Len(h) + 2
  BY <1>1, <1>5, LenProperties, IsASeq DEF RecordedLines
<1> QED
  BY <1>1, <1>2, <1>3, <1>4, <1>5, <1>6

\* The reference of a recorded line is about the observation's bytes.
LEMMA RecordedRefTells ==
  ASSUME NEW h \in Seq(ObservationType), NEW k \in 1 .. Len(h)
  PROVE  /\ RecordedRef(h, k).length = Len(h[k].data)
         /\ RecordedRef(h, k).sha256 = h[k].data
<1>1. h[k] \in ObservationType
  BY ElementOfSeq
<1>2. h[k].data \in Seq(Byte)
  BY <1>1 DEF ObservationType
<1>3. Len(<< >>) = 0
  BY EmptySeq
<1> QED
  BY <1>2, <1>3 DEF RecordedRef, NoRef, Ref

\* The payloads of a covered recording can all be read back: its references address
\* their bytes (RecordedAddresses).
LEMMA CoveredReadable ==
  ASSUME TypeOK, Covered
  PROVE  PayloadsReadable
<1> DEFINE h == Original
<1>1. h \in Seq(ObservationType) /\ Len(h) \in Nat
  BY LenProperties DEF TypeOK, DirectoryType, ResultType, Original
<1>2. trace.lines = RecordedLines(h) /\ trace.bytes = RecordedBytes(h)
  BY DEF Covered, RecordedTrace
<1>3. /\ DOMAIN trace.lines = 1 .. Len(h) + 2
      /\ trace.lines[1].body = ProcessBody("program_start", 1)
      /\ trace.lines[Len(h) + 2].body = ProcessBody("program_exit", Len(h) + 2)
      /\ \A k \in 1 .. Len(h) :
           trace.lines[k + 1].body = SyscallBody(h[k].call, k + 1, h[k].ret, RecordedRef(h, k))
  BY <1>1, <1>2, RecordedBody
<1> HIDE DEF h
<1> SUFFICES ASSUME NEW n \in 1 .. Len(h) + 2
             PROVE  Addresses(trace.bytes, trace.lines[n].body.payload_ref)
  BY <1>3 DEF PayloadsReadable
<1>4. CASE n = 1 \/ n = Len(h) + 2
  <2>1. trace.lines[n].body.payload_ref = NoRef
    BY <1>3, <1>4 DEF ProcessBody, Body
  <2> QED
    BY <1>1, <1>2, <2>1, AddressesNone, RecordedBytesGrow
<1>5. CASE n # 1 /\ n # Len(h) + 2
  <2>1. n - 1 \in 1 .. Len(h) /\ n = (n - 1) + 1
    BY <1>1, <1>5
  <2> DEFINE k == n - 1
  <2> HIDE DEF k
  <2>2. trace.lines[n].body = SyscallBody(h[k].call, k + 1, h[k].ret, RecordedRef(h, k))
    BY <1>3, <2>1 DEF k
  <2>3. trace.lines[n].body.payload_ref = RecordedRef(h, k)
    BY <2>2 DEF SyscallBody, Body
  <2> QED
    BY <1>1, <1>2, <2>1, <2>3, RecordedAddresses DEF k
<1> QED
  BY <1>4, <1>5

\* Its lines, and which of them are loaded.
LEMMA CoveredLines ==
  ASSUME TypeOK, Covered
  PROVE  /\ Original \in Seq(ObservationType)
         /\ Len(Original) \in Nat
         /\ Len(trace.lines) = Len(Original) + 2
         /\ \A n \in 1 .. Len(trace.lines) :
              /\ trace.lines[n].body \in BodyType
              /\ trace.lines[n].body.seq = n
              /\ Replayable(trace.lines[n].body) <=>
                   n - 1 \in 1 .. Len(Original) /\ Original[n - 1].call \in PayloadCalls
         /\ \A k \in 1 .. Len(Original) : Told(k)
<1> DEFINE h == Original
<1>1. h \in Seq(ObservationType) /\ Len(h) \in Nat
  BY LenProperties DEF TypeOK, DirectoryType, ResultType, Original
<1>2. trace.lines = RecordedLines(h)
  BY DEF Covered, RecordedTrace
<1>3. /\ Len(trace.lines) = Len(h) + 2
      /\ DOMAIN trace.lines = 1 .. Len(h) + 2
      /\ trace.lines[1].body = ProcessBody("program_start", 1)
      /\ trace.lines[Len(h) + 2].body = ProcessBody("program_exit", Len(h) + 2)
      /\ \A k \in 1 .. Len(h) :
           trace.lines[k + 1].body = SyscallBody(h[k].call, k + 1, h[k].ret, RecordedRef(h, k))
  BY <1>1, <1>2, RecordedBody
<1> HIDE DEF h
<1>4. \A n \in 1 .. Len(h) + 2 : n = 1 \/ n = Len(h) + 2 \/ n - 1 \in 1 .. Len(h)
  BY <1>1
<1>5. ASSUME NEW k \in 1 .. Len(h)
      PROVE  LET body == trace.lines[k + 1].body
             IN  /\ body.etype = "SYSCALL" /\ body.name = h[k].call /\ body.ret = h[k].ret
                 /\ body.seq = k + 1
                 /\ body.payload_ref.length = Len(h[k].data)
                 /\ body.payload_ref.sha256 = h[k].data
  <2>1. trace.lines[k + 1].body = SyscallBody(h[k].call, k + 1, h[k].ret, RecordedRef(h, k))
    BY <1>3
  <2>2. RecordedRef(h, k).length = Len(h[k].data) /\ RecordedRef(h, k).sha256 = h[k].data
    BY <1>1, RecordedRefTells
  <2> QED
    BY <2>1, <2>2 DEF SyscallBody, Body
<1>6. \A k \in 1 .. Len(h) : Told(k)
  <2> SUFFICES ASSUME NEW k \in 1 .. Len(h)
               PROVE  Told(k)
    OBVIOUS
  <2>1. k + 1 \in DOMAIN trace.lines
    BY <1>1, <1>3
  <2>2. Addresses(trace.bytes, trace.lines[k + 1].body.payload_ref)
    BY <2>1, CoveredReadable, Zenon DEF PayloadsReadable
  <2> QED
    BY <1>5, <2>2 DEF Told, Addresses, Readable, RecordedData, h
<1>7. ASSUME NEW n \in 1 .. Len(h) + 2
      PROVE  /\ trace.lines[n].body \in BodyType
             /\ trace.lines[n].body.seq = n
             /\ Replayable(trace.lines[n].body) <=>
                  n - 1 \in 1 .. Len(h) /\ h[n - 1].call \in PayloadCalls
  <2>1. trace.lines[n] \in LineType
    BY <1>3, ElementOfSeq DEF TypeOK, DirectoryType
  <2>2. CASE n = 1 \/ n = Len(h) + 2
    <3>1. n - 1 \notin 1 .. Len(h)
      BY <1>1, <2>2
    <3>2. trace.lines[n].body.etype = "PROCESS" /\ trace.lines[n].body.seq = n
      BY <1>3, <2>2 DEF ProcessBody, Body
    <3> QED
      BY <2>1, <3>1, <3>2 DEF LineType, Replayable
  <2>3. CASE n - 1 \in 1 .. Len(h)
    <3>1. (n - 1) + 1 = n
      BY <1>1
    <3>2. LET body == trace.lines[n].body
          IN  /\ body.etype = "SYSCALL" /\ body.name = h[n - 1].call
              /\ body.seq = n
              /\ body.payload_ref.length = Len(h[n - 1].data)
      BY <1>5, <2>3, <3>1
    <3>3. h[n - 1].call = "read" => Len(h[n - 1].data) \in 1 .. MaxReadLen
      BY <1>1, <2>3 DEF Covered, h
    <3> QED
      BY <2>1, <2>3, <3>2, <3>3 DEF LineType, Replayable, ShouldLoad
  <2> QED
    BY <1>4, <2>2, <2>3
<1> QED
  BY <1>1, <1>3, <1>6, <1>7 DEF h

\* Its references have the lengths of their results, as the recorder's payload_len gave them.
LEMMA CoveredFits ==
  ASSUME TypeOK, Covered
  PROVE  RefsFit
<1> DEFINE h == Original
<1>1. /\ h \in Seq(ObservationType) /\ Len(h) \in Nat /\ DOMAIN h = 1 .. Len(h)
  BY LenProperties DEF TypeOK, DirectoryType, ResultType, Original
<1>2. trace.lines = RecordedLines(h)
  BY DEF Covered, RecordedTrace
<1>3. /\ DOMAIN trace.lines = 1 .. Len(h) + 2
      /\ trace.lines[1].body = ProcessBody("program_start", 1)
      /\ trace.lines[Len(h) + 2].body = ProcessBody("program_exit", Len(h) + 2)
      /\ \A k \in 1 .. Len(h) :
           trace.lines[k + 1].body = SyscallBody(h[k].call, k + 1, h[k].ret, RecordedRef(h, k))
  <2> HIDE DEF h
  <2> QED
    BY <1>1, <1>2, RecordedBody
<1>4. \A k \in 1 .. Len(h) : Len(h[k].data) = PayloadLen(h[k].call, h[k].ret)
  BY <1>1 DEF Covered, Ran
<1> HIDE DEF h
<1> SUFFICES ASSUME NEW n \in 1 .. Len(h) + 2, trace.lines[n].body.payload_ref.length > 0
             PROVE  trace.lines[n].body.payload_ref.length
                      = PayloadLen(trace.lines[n].body.name, trace.lines[n].body.ret)
  BY <1>3 DEF RefsFit
<1>5. n # 1 /\ n # Len(h) + 2
  BY <1>3, EmptySeq DEF ProcessBody, Body, NoRef, Ref
<1>6. n - 1 \in 1 .. Len(h) /\ (n - 1) + 1 = n
  BY <1>1, <1>5
<1>7. trace.lines[n].body = SyscallBody(h[n - 1].call, n, h[n - 1].ret, RecordedRef(h, n - 1))
  BY <1>3, <1>6
<1>8. RecordedRef(h, n - 1).length = Len(h[n - 1].data)
  BY <1>1, <1>6, RecordedRefTells
<1> QED
  BY <1>4, <1>6, <1>7, <1>8 DEF SyscallBody, Body

(***************************************************************************)
(* Where main() is and where the target is.                                 *)
(***************************************************************************)
Control ==
  /\ pc \in {"load", "opened", "attach"} =>
       seq = 0 /\ cursor = 0 /\ hist = << >> /\ ~in_syscall
  /\ pc \in {"load", "opened"} => tstate = "none"
  /\ pc = "attach" => tstate \in {"raised", "killed"}
  /\ pc = "resume" =>
       /\ tstate \in Stopped \cup {"killed", "reaped"}
       /\ tstate \in Stopped => (in_syscall <=> tstate = "entry")
  /\ pc = "wait" =>
       /\ tstate \in (Alive \ {"raised"}) \cup {"exited", "killed"}
       /\ tstate \in Alive => (in_syscall <=> tstate \in {"kernel", "exitstop"})
  /\ pc = "stopped" =>
       /\ tstate \in {"entry", "exitstop", "killed"}
       /\ tstate # "killed" => (in_syscall <=> tstate = "exitstop")
  /\ pc \in {"inject", "emit"} => tstate \in {"exitstop", "killed"} /\ in_syscall

\* The target is in the syscall its program makes next, and exits where it says so.
InCall ==
  /\ tstate \in {"entry", "kernel", "exitstop"} => call = Upcoming(hist)
  /\ tstate = "exitstop" => call # "exit_group"
  /\ tstate = "exited" => Upcoming(hist) = "exit_group"

\* The last line is this replayer's, and program_exit is the last it writes.
AtExitOnly ==
  /\ seq <= Len(events)
  /\ Exited => pc \in {"exited", "close", "done", "crashed"} /\ Upcoming(hist) = "exit_group"

LEMMA ControlStep ==
  ASSUME TypeOK, Control, [Next]_vars
  PROVE  Control'
<1> USE DEF Control, Alive, Stopped
<1>1. CASE LoadLine \/ Loaded \/ TargetUnknown \/ StartFails \/ PtraceFails \/ Close \/ Crash
  BY <1>1
  DEF LoadLine, Loaded, TargetUnknown, StartFails, PtraceFails, Close, Crash, targetVars,
      writerVars, loopVars, historyVars
<1>2. CASE Fork
  BY <1>2 DEF Fork, TargetFork, writerVars, loopVars, historyVars
<1>3. CASE Attach
  BY <1>3 DEF Attach, ReapTarget, targetVars, loopVars, historyVars
<1>4. CASE Resume
  BY <1>4 DEF Resume, ResumeTarget, loopVars, historyVars
<1>5. CASE WaitDeath \/ WriteResult \/ WriteResultFails
  BY <1>5 DEF WaitDeath, WriteResult, WriteResultFails
<1>6. CASE WaitSignalStop \/ WaitSyscallStop
  BY <1>6 DEF WaitSignalStop, WaitSyscallStop, targetVars, loopVars, historyVars
<1>7. CASE AtEntry \/ AtExit
  BY <1>7 DEF AtEntry, AtExit, targetVars, loopVars, historyVars
<1>8. CASE Inject \/ InjectFails
  BY <1>8 DEF Inject, InjectFails, targetVars
<1>9. CASE EmitSyscall
  BY <1>9 DEF EmitSyscall, targetVars
<1>10. CASE TargetMoves
  BY <1>10
  DEF TargetMoves, TargetNext, TargetRuns, EnterSyscall, KernelReturns, Exits, FaultStops,
      SignalStops, Interrupts, Killed, writerVars, loopVars, historyVars
<1>11. CASE UNCHANGED vars
  BY <1>11 DEF vars, targetVars, writerVars, loopVars, historyVars
<1> QED
  BY <1>1, <1>2, <1>3, <1>4, <1>5, <1>6, <1>7, <1>8, <1>9, <1>10, <1>11
  DEF Next, ReplayerStep

LEMMA InCallStep ==
  ASSUME TypeOK, Control, InCall, [Next]_vars
  PROVE  InCall'
<1> USE DEF InCall
<1>1. CASE LoadLine \/ Loaded \/ TargetUnknown \/ StartFails \/ PtraceFails \/ Close
  BY <1>1
  DEF LoadLine, Loaded, TargetUnknown, StartFails, PtraceFails, Close, targetVars
<1>2. CASE Fork \/ Crash
  BY <1>2 DEF Fork, TargetFork, Crash, DetachTarget
<1>3. CASE Attach \/ WaitDeath
  BY <1>3 DEF Attach, WaitDeath, ReapTarget, targetVars
<1>4. CASE Resume
  BY <1>4 DEF Resume, ResumeTarget, Control, Stopped
<1>5. CASE WriteResult \/ WriteResultFails \/ WaitSignalStop \/ WaitSyscallStop
  BY <1>5 DEF WriteResult, WriteResultFails, WaitSignalStop, WaitSyscallStop, targetVars
<1>6. CASE AtEntry \/ AtExit \/ InjectFails \/ EmitSyscall
  BY <1>6 DEF AtEntry, AtExit, InjectFails, EmitSyscall, targetVars
<1>7. CASE Inject
  <2>1. UNCHANGED << tstate, hist, call >>
    BY <1>7 DEF Inject
  <2> QED
    BY <2>1
<1>8. CASE TargetMoves
  <2>1. CASE Interrupts
    <3>1. "exit_group" \notin Blocking
      BY TraceAssumption DEF Blocking
    <3> QED
      BY <2>1, <3>1 DEF Interrupts
  <2>2. CASE ~Interrupts
    BY <1>8, <2>2
    DEF TargetMoves, TargetNext, TargetRuns, EnterSyscall, KernelReturns, Exits, FaultStops,
        SignalStops, Killed, Alive
  <2> QED
    BY <2>1, <2>2
<1>9. CASE UNCHANGED vars
  BY <1>9 DEF vars, targetVars
<1> QED
  BY <1>1, <1>2, <1>3, <1>4, <1>5, <1>6, <1>7, <1>8, <1>9 DEF Next, ReplayerStep

\* The line emit_line writes is the writer's last.
LEMMA EmitLast ==
  ASSUME TypeOK, seq <= Len(events), NEW body, body.seq = seq + 1, Emit(body)
  PROVE  /\ seq' = seq + 1
         /\ seq' <= Len(events')
         /\ Exited' <=> body = ProcessBody("program_exit", seq + 1)
<1> DEFINE l == Line(prev_hash, body)
           es == Append(events, l)
<1>1. events \in Seq(LineType \cup {l}) /\ Len(events) \in Nat /\ seq \in Nat
  BY LenProperties, SeqDef DEF TypeOK
<1>2. /\ events' = es /\ seq' = seq + 1
      /\ Len(es) = Len(events) + 1 /\ es[Len(events) + 1] = l
      /\ es \in Seq(LineType \cup {l})
  BY <1>1, AppendProperties DEF Emit
<1>3. l.body = body
  BY DEF Line
<1> HIDE DEF l, es
<1> DEFINE a == Len(es) - (seq + 1) + 1
           b == Len(es)
<1>4. a \in 1 .. b /\ b - a + 1 = seq + 1 /\ a + (seq + 1) - 1 = Len(events) + 1 /\ b = Len(events) + 1
  BY <1>1, <1>2
<1>5. \A i \in a .. b : es[i] \in LineType \cup {l}
  <2>1. \A i \in 1 .. Len(es) : es[i] \in LineType \cup {l}
    BY <1>2, ElementOfSeq
  <2> QED
    BY <1>1, <1>4, <2>1
<1> HIDE DEF a, b
<1>6. seq + 1 \in 1 .. b - a + 1
  BY <1>1, <1>4
<1>7. SubSeq(es, a, b)[seq + 1] = es[a + (seq + 1) - 1]
  BY <1>1, <1>4, <1>5, <1>6, SubSeqProperties
<1>8. SubSeq(es, a, b)[seq + 1] = l
  BY <1>2, <1>4, <1>7
<1>9. OwnLines'[seq'] = l
  BY <1>2, <1>8 DEF OwnLines, a, b
<1>10. seq' # 0
  BY <1>1, <1>2
<1> QED
  BY <1>1, <1>2, <1>3, <1>9, <1>10 DEF Exited

LEMMA AtExitOnlyStep ==
  ASSUME TypeOK, Control, InCall, AtExitOnly, [Next]_vars
  PROVE  AtExitOnly'
<1> USE DEF AtExitOnly
<1>0. seq \in Nat /\ ProcessBody("program_start", seq + 1).seq = seq + 1
  BY DEF TypeOK, ProcessBody, Body
<1>1. CASE LoadLine \/ Loaded \/ TargetUnknown \/ StartFails \/ PtraceFails \/ Close \/ Crash
  BY <1>1
  DEF LoadLine, Loaded, TargetUnknown, StartFails, PtraceFails, Close, Crash, DetachTarget,
      targetVars, diskVars, writerVars, Exited, OwnLines
<1>2. CASE Fork
  BY <1>2 DEF Fork, diskVars, writerVars, Exited, OwnLines, Control
<1>3. CASE Attach
  <2>1. EmitProcess("program_start") /\ "program_start" # "program_exit"
    BY <1>3 DEF Attach
  <2>2. ProcessBody("program_start", seq + 1) # ProcessBody("program_exit", seq + 1)
    BY DEF ProcessBody, Body
  <2> QED
    BY <1>0, <2>1, <2>2, EmitLast DEF EmitProcess
<1>4. CASE Resume
  BY <1>4 DEF Resume, diskVars, writerVars, Exited, OwnLines
<1>5. CASE WaitDeath
  <2>1. PICK name \in ProcessNames :
          /\ EmitProcess(name)
          /\ name = "program_exit" => tstate = "exited"
          /\ name # "program_exit" => pc' = "signalled"
          /\ name = "program_exit" => pc' = "exited"
    BY <1>5 DEF WaitDeath, ProcessNames
  <2>2. hist' = hist
    BY <1>5 DEF WaitDeath, ReapTarget
  <2>3. /\ ProcessBody(name, seq + 1).seq = seq + 1
        /\ ProcessBody(name, seq + 1) = ProcessBody("program_exit", seq + 1) => name = "program_exit"
    BY DEF ProcessBody, Body
  <2>4. seq' <= Len(events') /\ (Exited' => name = "program_exit")
    BY <2>1, <2>3, EmitLast DEF EmitProcess
  <2> QED
    BY <2>1, <2>2, <2>4 DEF InCall
<1>6. CASE WriteResult \/ WriteResultFails \/ WaitSignalStop \/ WaitSyscallStop
  BY <1>6
  DEF WriteResult, WriteResultFails, WaitSignalStop, WaitSyscallStop, targetVars, diskVars,
      writerVars, Exited, OwnLines
<1>7. CASE AtEntry \/ AtExit \/ Inject \/ InjectFails
  BY <1>7
  DEF AtEntry, AtExit, Inject, InjectFails, targetVars, diskVars, writerVars, Exited, OwnLines
<1>8. CASE EmitSyscall
  <2> DEFINE body == SyscallBody(entry, seq + 1, shown, EmittedRef)
  <2>1. body.seq = seq + 1 /\ body # ProcessBody("program_exit", seq + 1)
    BY DEF SyscallBody, ProcessBody, Body
  <2> QED
    BY <1>8, <2>1, EmitLast DEF EmitSyscall
<1>9. CASE TargetMoves
  <2>1. hist' = hist
    BY <1>9
    DEF TargetMoves, TargetNext, TargetRuns, EnterSyscall, KernelReturns, Exits, FaultStops,
        SignalStops, Interrupts, Killed
  <2> QED
    BY <1>9, <2>1 DEF TargetMoves, diskVars, writerVars, Exited, OwnLines
<1>10. CASE UNCHANGED vars
  BY <1>10 DEF vars, targetVars, diskVars, writerVars, Exited, OwnLines
<1> QED
  BY <1>1, <1>2, <1>3, <1>4, <1>5, <1>6, <1>7, <1>8, <1>9, <1>10 DEF Next, ReplayerStep

(***************************************************************************)
(* The loaded events.                                                       *)
(***************************************************************************)
\* They are the replayable lines read so far, every one, in their order.
LoadedSoFar ==
  /\ \A i \in 1 .. Len(items) :
       /\ items[i].seq \in 1 .. line
       /\ items[i] = trace.lines[items[i].seq].body
       /\ Replayable(items[i])
  /\ \A i, j \in 1 .. Len(items) : i < j => items[i].seq < items[j].seq
  /\ \A n \in 1 .. line :
       Replayable(trace.lines[n].body) => \E i \in 1 .. Len(items) : items[i].seq = n
  /\ pc \notin {"load", "failed", "crashed"} => line = Len(trace.lines)

\* Only load_replay_events changes them.
LEMMA OnlyLoaded ==
  ASSUME [Next]_vars
  PROVE  /\ trace' = trace
         /\ ~LoadLine => line' = line /\ items' = items
         /\ pc' \notin {"load", "failed", "crashed"} =>
              pc \notin {"load", "failed", "crashed"} \/ line' = Len(trace.lines)
<1>1. CASE LoadLine
  <2>1. trace' = trace /\ pc' = pc /\ pc = "load"
    BY <1>1 DEF LoadLine
  <2> QED
    BY <1>1, <2>1
<1>2. CASE Loaded
  BY <1>2 DEF Loaded, loadVars
<1>3. CASE TargetUnknown \/ StartFails \/ PtraceFails \/ Close \/ Crash
  BY <1>3 DEF TargetUnknown, StartFails, PtraceFails, Close, Crash, loadVars
<1>4. CASE Fork \/ Attach \/ Resume \/ WaitDeath \/ WaitSignalStop \/ WaitSyscallStop
  BY <1>4 DEF Fork, Attach, Resume, WaitDeath, WaitSignalStop, WaitSyscallStop, loadVars
<1>5. CASE AtEntry \/ AtExit \/ Inject \/ InjectFails \/ EmitSyscall
  BY <1>5 DEF AtEntry, AtExit, Inject, InjectFails, EmitSyscall, loadVars
<1>6. CASE WriteResult \/ WriteResultFails \/ TargetMoves \/ UNCHANGED vars
  BY <1>6 DEF WriteResult, WriteResultFails, TargetMoves, vars, loadVars
<1> QED
  BY <1>1, <1>2, <1>3, <1>4, <1>5, <1>6 DEF Next, ReplayerStep

LEMMA LoadedStep ==
  ASSUME TypeOK, Covered, LoadedSoFar, [Next]_vars
  PROVE  LoadedSoFar'
<1>0. /\ Len(items) \in Nat /\ items \in Seq(BodyType) /\ line \in 0 .. Len(trace.lines)
      /\ Len(trace.lines) \in Nat
  BY LenProperties DEF TypeOK, DirectoryType
<1>1. CASE ~LoadLine
  <2>1. trace' = trace /\ line' = line /\ items' = items
    BY <1>1, OnlyLoaded
  <2>2. pc' \notin {"load", "failed", "crashed"} => line' = Len(trace'.lines)
    BY <2>1, OnlyLoaded DEF LoadedSoFar
  <2> QED
    BY <2>1, <2>2 DEF LoadedSoFar
<1>2. CASE LoadLine
  <2> DEFINE n == line + 1
             body == trace.lines[n].body
  <2>1. n \in 1 .. Len(trace.lines) /\ line' = n /\ trace' = trace /\ pc' = "load"
    BY <1>0, <1>2 DEF LoadLine
  <2>2. body \in BodyType /\ body.seq = n
    BY <2>1, CoveredLines
  <2>3. items' = IF Replayable(body) THEN Append(items, body) ELSE items
    BY <1>2, <2>1 DEF LoadLine
  <2>4. \A i \in 1 .. Len(items) : items[i].seq \in 1 .. line
    BY DEF LoadedSoFar
  <2> HIDE DEF body
  <2>5. CASE ~Replayable(body)
    <3>1. items' = items
      BY <2>3, <2>5
    <3>2. \A m \in 1 .. n : m \in 1 .. line \/ m = n
      BY <1>0
    <3>3. \A m \in 1 .. n :
            Replayable(trace.lines[m].body) => \E i \in 1 .. Len(items) : items[i].seq = m
      BY <2>5, <3>2 DEF LoadedSoFar, body
    <3>4. \A i \in 1 .. Len(items) : items[i].seq \in 1 .. n
      BY <1>0, <2>4
    <3> QED
      BY <2>1, <3>1, <3>3, <3>4 DEF LoadedSoFar
  <2>6. CASE Replayable(body)
    <3>1. /\ items' = Append(items, body) /\ Len(items') = Len(items) + 1
          /\ items'[Len(items) + 1] = body
          /\ \A i \in 1 .. Len(items) : items'[i] = items[i]
      BY <1>0, <2>2, <2>3, <2>6, AppendProperties
    <3>2. \A i \in 1 .. Len(items') : i \in 1 .. Len(items) \/ i = Len(items) + 1
      BY <1>0, <3>1
    <3>3. \A i \in 1 .. Len(items') :
            /\ items'[i].seq \in 1 .. n
            /\ items'[i] = trace.lines[items'[i].seq].body
            /\ Replayable(items'[i])
      <4> SUFFICES ASSUME NEW i \in 1 .. Len(items')
                   PROVE  /\ items'[i].seq \in 1 .. n
                          /\ items'[i] = trace.lines[items'[i].seq].body
                          /\ Replayable(items'[i])
        OBVIOUS
      <4>1. CASE i \in 1 .. Len(items)
        <5>1. items'[i] = items[i] /\ items[i].seq \in 1 .. n
          BY <1>0, <2>4, <3>1, <4>1
        <5> QED
          BY <4>1, <5>1 DEF LoadedSoFar
      <4>2. CASE i = Len(items) + 1
        <5>1. items'[i] = body /\ body = trace.lines[body.seq].body
          BY <2>2, <3>1, <4>2 DEF body
        <5> QED
          BY <1>0, <2>2, <2>6, <5>1
      <4> QED
        BY <3>2, <4>1, <4>2
    <3>4. \A i, j \in 1 .. Len(items') : i < j => items'[i].seq < items'[j].seq
      <4> SUFFICES ASSUME NEW i \in 1 .. Len(items'), NEW j \in 1 .. Len(items'), i < j
                   PROVE  items'[i].seq < items'[j].seq
        OBVIOUS
      <4>1. i \in 1 .. Len(items) /\ items'[i] = items[i]
        BY <1>0, <3>1
      <4>2. CASE j \in 1 .. Len(items)
        BY <3>1, <4>1, <4>2 DEF LoadedSoFar
      <4>3. CASE j = Len(items) + 1
        <5>1. items'[j].seq = n /\ items[i].seq \in 1 .. line
          BY <2>2, <2>4, <3>1, <4>1, <4>3
        <5> QED
          BY <1>0, <4>1, <5>1
      <4> QED
        BY <3>2, <4>2, <4>3
    <3>5. \A m \in 1 .. n :
            Replayable(trace.lines[m].body) => \E i \in 1 .. Len(items') : items'[i].seq = m
      <4> SUFFICES ASSUME NEW m \in 1 .. n, Replayable(trace.lines[m].body)
                   PROVE  \E i \in 1 .. Len(items') : items'[i].seq = m
        OBVIOUS
      <4>1. CASE m \in 1 .. line
        <5>1. PICK i \in 1 .. Len(items) : items[i].seq = m
          BY <4>1 DEF LoadedSoFar
        <5>2. i \in 1 .. Len(items') /\ items'[i].seq = m
          BY <1>0, <3>1, <5>1
        <5> QED
          BY <5>2
      <4>2. CASE m = n
        <5>1. Len(items) + 1 \in 1 .. Len(items') /\ items'[Len(items) + 1].seq = n
          BY <1>0, <2>2, <3>1
        <5> QED
          BY <4>2, <5>1
      <4> QED
        BY <1>0, <4>1, <4>2
    <3> QED
      BY <2>1, <3>3, <3>4, <3>5 DEF LoadedSoFar
  <2> QED
    BY <2>5, <2>6
<1> QED
  BY <1>1, <1>2

(***************************************************************************)
(* Determinism.  As long as the history is the beginning of the recorded     *)
(* one, the next syscall is the recorded one, and the event at the cursor is  *)
(* its own.                                                                 *)
(***************************************************************************)
AsRecorded ==
  /\ Len(hist) <= Len(Original)
  /\ \A k \in 1 .. Len(hist) : hist[k] = Original[k]

\* The events up to the one of line n are spent, and no other.
SpentUpTo(n) == \A i \in 1 .. Len(items) : i <= cursor <=> items[i].seq <= n

\* What was chosen for the syscall in entry, which will be line seq + 1.
Matched ==
  IF entry \in PayloadCalls
  THEN active = cursor + 1 /\ cursor < Len(items) /\ items[cursor + 1].seq = seq + 1
  ELSE active = 0

\* The result in the registers and the buffer is the next recorded one.
Restored ==
  /\ Len(hist) < Len(Original)
  /\ Observation(call, ret, mem) = Original[Len(hist) + 1]

InPlace ==
  pc \in {"resume", "wait", "stopped", "inject", "emit"} /\ (tstate \in Alive \/ pc = "inject") =>
    /\ seq = Len(hist) + (IF pc = "resume" /\ tstate = "exitstop" THEN 2 ELSE 1)
    /\ SpentUpTo(IF pc = "emit" THEN seq + 1 ELSE seq)
    /\ in_syscall => entry = Upcoming(hist)
    /\ in_syscall /\ pc # "emit" => Matched
    /\ tstate = "exitstop" /\ pc \in {"emit", "resume"} /\ call \in PayloadCalls => Restored

\* The program goes on as it went on when recorded.
LEMMA NextAsRecorded ==
  ASSUME TypeOK, Covered, AsRecorded
  PROVE  /\ Len(hist) = Len(Original) => hist = Original /\ Upcoming(hist) = "exit_group"
         /\ Len(hist) < Len(Original) =>
              /\ Len(hist) + 1 \in 1 .. Len(Original)
              /\ Upcoming(hist) = Original[Len(hist) + 1].call
              /\ Upcoming(hist) # "exit_group"
<1>1. /\ hist \in Seq(ObservationType) /\ Original \in Seq(ObservationType)
      /\ Len(hist) \in Nat /\ Len(Original) \in Nat /\ DOMAIN Original = 1 .. Len(Original)
  BY LenProperties DEF TypeOK, TargetTypeOK, DirectoryType, ResultType, Original
<1>2. CASE Len(hist) = Len(Original)
  <2>1. hist = Original
    BY <1>1, <1>2, SeqEqual DEF AsRecorded
  <2>2. Upcoming(Original) = "exit_group"
    BY DEF Covered, Ran
  <2> QED
    BY <1>1, <1>2, <2>1, <2>2
<1>3. CASE Len(hist) < Len(Original)
  <2> DEFINE n == Len(hist)
  <2>1. n + 1 \in 1 .. Len(Original) /\ (n + 1) - 1 = n
    BY <1>1, <1>3
  <2>2. SubSeq(Original, 1, n) = hist
    <3>1. \A i \in 1 .. n : Original[i] \in ObservationType
      BY <1>1, <1>3, ElementOfSeq
    <3>2. /\ SubSeq(Original, 1, n) \in Seq(ObservationType)
          /\ Len(SubSeq(Original, 1, n)) = n
          /\ \A i \in 1 .. n : SubSeq(Original, 1, n)[i] = Original[i]
      BY <1>1, <1>3, <3>1, SubSeqProperties
    <3> QED
      BY <1>1, <3>2, SeqEqual DEF AsRecorded
  <2>3. Original[n + 1].call = Upcoming(SubSeq(Original, 1, (n + 1) - 1))
    BY <1>1, <2>1 DEF Covered, Ran
  <2>4. Original[n + 1].call # "exit_group"
    BY <1>1, <2>1 DEF Covered, Ran
  <2>5. Upcoming(SubSeq(Original, 1, (n + 1) - 1)) = Upcoming(hist)
    BY <2>1, <2>2
  <2>6. Upcoming(hist) = Original[Len(hist) + 1].call /\ Upcoming(hist) # "exit_group"
    BY <2>3, <2>4, <2>5
  <2>7. Len(hist) # Len(Original)
    BY <1>1, <1>3
  <2> QED
    BY <2>1, <2>6, <2>7
<1> QED
  BY <1>1, <1>2, <1>3

\* A replayed syscall finds its own event at the cursor; no event is any other's.
LEMMA OwnEvent ==
  ASSUME TypeOK, Covered, LoadedSoFar, line = Len(trace.lines), AsRecorded,
         seq = Len(hist) + 1, SpentUpTo(seq)
  PROVE  /\ Upcoming(hist) \in PayloadCalls =>
              /\ cursor < Len(items)
              /\ cursor + 1 \in 1 .. Len(items)
              /\ items[cursor + 1].seq = seq + 1
              /\ items[cursor + 1].name = Upcoming(hist)
         /\ Upcoming(hist) \notin PayloadCalls =>
              \A i \in 1 .. Len(items) : items[i].seq # seq + 1
<1> DEFINE n == Len(hist) + 1
<1>0. /\ Len(items) \in Nat /\ items \in Seq(BodyType) /\ cursor \in 0 .. Len(items)
      /\ Len(hist) \in Nat /\ Len(Original) \in Nat /\ Len(hist) <= Len(Original)
  BY LenProperties, CoveredLines DEF TypeOK, TargetTypeOK, AsRecorded
<1>1. \A i \in 1 .. Len(items) : items[i].seq \in Nat
  <2>1. \A i \in 1 .. Len(items) : items[i] \in BodyType
    BY <1>0, ElementOfSeq
  <2> QED
    BY <2>1 DEF BodyType
<1>2. ASSUME Upcoming(hist) \in PayloadCalls
      PROVE  /\ cursor < Len(items)
             /\ cursor + 1 \in 1 .. Len(items)
             /\ items[cursor + 1].seq = seq + 1
             /\ items[cursor + 1].name = Upcoming(hist)
  <2>0. Upcoming(hist) # "exit_group"
    BY <1>2 DEF PayloadCalls, TimeCalls
  <2>1. n \in 1 .. Len(Original) /\ Original[n].call = Upcoming(hist)
    BY <1>0, <2>0, NextAsRecorded
  <2>2. n + 1 \in 1 .. Len(trace.lines) /\ (n + 1) - 1 = n
    BY <1>0, <2>1, CoveredLines
  <2>3. Replayable(trace.lines[n + 1].body)
    BY <1>2, <2>1, <2>2, CoveredLines
  <2>4. PICK i \in 1 .. Len(items) : items[i].seq = n + 1
    BY <2>2, <2>3 DEF LoadedSoFar
  <2>5. i > cursor
    BY <1>0, <1>1, <2>4 DEF SpentUpTo
  <2>6. cursor + 1 \in 1 .. Len(items) /\ cursor < Len(items)
    BY <1>0, <2>5
  <2>7. items[cursor + 1].seq > seq
    BY <1>0, <1>1, <2>6 DEF SpentUpTo
  <2>8. cursor + 1 = i
    <3>1. CASE cursor + 1 < i
      <4>1. items[cursor + 1].seq < items[i].seq
        BY <2>6, <3>1 DEF LoadedSoFar
      <4> QED
        BY <1>0, <1>1, <2>4, <2>6, <2>7, <4>1
    <3> QED
      BY <1>0, <2>5, <3>1
  <2>9. items[cursor + 1] = trace.lines[n + 1].body
    BY <2>4, <2>8 DEF LoadedSoFar
  <2>10. trace.lines[n + 1].body.name = Original[n].call
    BY <2>1, CoveredLines DEF Told
  <2> QED
    BY <2>1, <2>4, <2>6, <2>8, <2>9, <2>10
<1>3. ASSUME Upcoming(hist) \notin PayloadCalls, NEW i \in 1 .. Len(items), items[i].seq = seq + 1
      PROVE  FALSE
  <2>1. n + 1 \in 1 .. Len(trace.lines) /\ (n + 1) - 1 = n /\ Replayable(trace.lines[n + 1].body)
    <3>1. items[i].seq \in 1 .. line /\ items[i] = trace.lines[items[i].seq].body
          /\ Replayable(items[i])
      BY <1>3 DEF LoadedSoFar
    <3> QED
      BY <1>0, <1>3, <3>1
  <2>2. n \in 1 .. Len(Original) /\ Original[n].call \in PayloadCalls
    BY <2>1, CoveredLines
  <2>3. Upcoming(hist) = Original[n].call
    BY <1>0, <2>2, NextAsRecorded
  <2> QED
    BY <1>3, <2>2, <2>3
<1> QED
  BY <1>2, <1>3

\* Bytes written over the start of a buffer are what is read there.
LEMMA TakeOverlay ==
  ASSUME NEW m \in Seq(Byte), NEW d \in Seq(Byte)
  PROVE  Take(Overlay(m, d), Len(d)) = d
<1> DEFINE o == Overlay(m, d)
<1>1. o \in Seq(Byte) /\ Len(m) \in Nat /\ Len(d) \in Nat
  BY OverlayBytes, LenProperties
<1>2. /\ DOMAIN o = 1 .. (IF Len(m) < Len(d) THEN Len(d) ELSE Len(m))
      /\ \A i \in DOMAIN o : i <= Len(d) => o[i] = d[i]
  BY DEF Overlay
<1> HIDE DEF o
<1>3. Len(o) \in Nat /\ DOMAIN o = 1 .. Len(o)
  BY <1>1, LenProperties
<1>4. Len(d) <= Len(o)
  <2>1. CASE Len(d) = 0
    BY <1>3, <2>1
  <2>2. CASE Len(d) > 0
    <3>1. Len(d) \in DOMAIN o
      BY <1>1, <1>2, <2>2
    <3> QED
      BY <1>3, <3>1
  <2> QED
    BY <1>1, <2>1, <2>2
<1>5. \A i \in 1 .. Len(d) : o[i] \in Byte /\ o[i] = d[i]
  BY <1>1, <1>2, <1>3, <1>4, ElementOfSeq
<1>6. /\ SubSeq(o, 1, Len(d)) \in Seq(Byte)
      /\ Len(SubSeq(o, 1, Len(d))) = Len(d)
      /\ \A i \in 1 .. Len(d) : SubSeq(o, 1, Len(d))[i] = o[i]
  BY <1>1, <1>5, SubSeqProperties
<1>7. SubSeq(o, 1, Len(d)) = d
  BY <1>1, <1>5, <1>6, SeqEqual
<1> QED
  BY <1>4, <1>7 DEF Take, o

\* So what an injected event shows the program is the recorded observation.
LEMMA InjectedIsRecorded ==
  ASSUME TypeOK, Covered, NEW k \in 1 .. Len(Original), NEW m \in Seq(Byte)
  PROVE  LET body == trace.lines[k + 1].body
         IN  Observation(Original[k].call, body.ret, Overlay(m, RecordedData(body.payload_ref)))
               = Original[k]
<1> DEFINE d == Original[k].data
           body == trace.lines[k + 1].body
<1>1. Original \in Seq(ObservationType) /\ Told(k) /\ DOMAIN Original = 1 .. Len(Original)
  BY CoveredLines, LenProperties
<1>2. Original[k] \in ObservationType
  BY <1>1, ElementOfSeq
<1>3. d \in Seq(Byte) /\ Original[k] = [call |-> Original[k].call, ret |-> Original[k].ret, data |-> d]
  BY <1>2 DEF ObservationType
<1>4. Len(d) = PayloadLen(Original[k].call, Original[k].ret)
  BY <1>1 DEF Covered, Ran
<1>5. RecordedData(body.payload_ref) = d /\ body.ret = Original[k].ret
  BY <1>1 DEF Told
<1>6. Take(Overlay(m, d), Len(d)) = d
  BY <1>3, TakeOverlay
<1> HIDE DEF d, body
<1>7. Observation(Original[k].call, body.ret, Overlay(m, RecordedData(body.payload_ref)))
        = Original[k]
  BY <1>3, <1>4, <1>5, <1>6 DEF Observation
<1> QED
  BY <1>7 DEF body

(***************************************************************************)
(* The induction.                                                           *)
(***************************************************************************)
\* Only resuming an exit stop adds to the history.
LEMMA HistStep ==
  ASSUME TypeOK, Control, [Next]_vars
  PROVE  \/ hist' = hist
         \/ /\ pc = "resume" /\ tstate = "exitstop"
            /\ hist' = Append(hist, Observation(call, ret, mem))
<1>1. CASE Fork
  BY <1>1 DEF Fork, TargetFork, Control
<1>2. CASE Resume
  BY <1>2 DEF Resume, ResumeTarget
<1>3. CASE LoadLine \/ Loaded \/ TargetUnknown \/ StartFails \/ PtraceFails \/ Close \/ Crash
  BY <1>3
  DEF LoadLine, Loaded, TargetUnknown, StartFails, PtraceFails, Close, Crash, DetachTarget,
      targetVars
<1>4. CASE Attach \/ WaitDeath \/ WaitSignalStop \/ WaitSyscallStop
  BY <1>4 DEF Attach, WaitDeath, WaitSignalStop, WaitSyscallStop, ReapTarget, targetVars
<1>5. CASE AtEntry \/ AtExit \/ Inject \/ InjectFails \/ EmitSyscall
  BY <1>5 DEF AtEntry, AtExit, Inject, InjectFails, EmitSyscall, targetVars
<1>6. CASE WriteResult \/ WriteResultFails \/ UNCHANGED vars
  BY <1>6 DEF WriteResult, WriteResultFails, vars, targetVars
<1>7. CASE TargetMoves
  BY <1>7
  DEF TargetMoves, TargetNext, TargetRuns, EnterSyscall, KernelReturns, Exits, FaultStops,
      SignalStops, Interrupts, Killed
<1> QED
  BY <1>1, <1>2, <1>3, <1>4, <1>5, <1>6, <1>7 DEF Next, ReplayerStep

\* What a longer history supposes, a shorter one does too.
LEMMA StepBack ==
  ASSUME TypeOK, Control, [Next]_vars
  PROVE  /\ Covered' => Covered
         /\ Reproducible' => Reproducible
<1>1. trace' = trace /\ Original' = Original
  BY OnlyLoaded DEF Original
<1>2. Covered' => Covered
  BY <1>1, OnlyLoaded DEF Covered
<1>3. hist \in Seq(ObservationType) /\ Len(hist) \in Nat /\ DOMAIN hist = 1 .. Len(hist)
  BY LenProperties DEF TypeOK, TargetTypeOK
<1>4. \A k \in DOMAIN hist : k \in DOMAIN hist' /\ hist'[k] = hist[k]
  <2>1. CASE hist' = hist
    BY <2>1
  <2>2. CASE hist' = Append(hist, Observation(call, ret, mem))
    <3>1. Observation(call, ret, mem) \in ObservationType
      BY ObservationInType DEF TypeOK, TargetTypeOK
    <3>2. /\ hist' \in Seq(ObservationType) /\ Len(hist') = Len(hist) + 1
          /\ \A k \in 1 .. Len(hist) : hist'[k] = hist[k]
      BY <1>3, <2>2, <3>1, AppendProperties
    <3>3. DOMAIN hist' = 1 .. Len(hist) + 1
      BY <3>2, LenProperties
    <3> QED
      BY <1>3, <3>2, <3>3
  <2> QED
    BY <2>1, <2>2, HistStep
<1>5. Reproducible' => Reproducible
  BY <1>1, <1>4 DEF Reproducible
<1> QED
  BY <1>2, <1>5

\* The next observation is the recorded one: of a replayed syscall because it was
\* injected, of another because the kernel gave the recorded result.
LEMMA AsRecordedStep ==
  ASSUME TypeOK, Control, InCall, Covered, AsRecorded, InPlace, [Next]_vars, Reproducible'
  PROVE  AsRecorded'
<1>0. /\ trace' = trace /\ Original' = Original
      /\ hist \in Seq(ObservationType) /\ Len(hist) \in Nat
      /\ Original \in Seq(ObservationType) /\ Len(Original) \in Nat
      /\ DOMAIN Original = 1 .. Len(Original)
  BY OnlyLoaded, CoveredLines, LenProperties DEF Original, TypeOK, TargetTypeOK
<1>1. CASE hist' = hist
  BY <1>0, <1>1 DEF AsRecorded
<1>2. CASE /\ pc = "resume" /\ tstate = "exitstop"
           /\ hist' = Append(hist, Observation(call, ret, mem))
  <2> DEFINE n == Len(hist) + 1
             o == Observation(call, ret, mem)
  <2>1. call = Upcoming(hist) /\ call # "exit_group" /\ call \in Calls
    BY <1>2 DEF InCall, TypeOK, TargetTypeOK
  <2>2. Len(hist) < Len(Original)
    BY <1>0, <2>1, NextAsRecorded DEF AsRecorded
  <2>3. n \in 1 .. Len(Original) /\ Original[n].call = call
    BY <2>1, <2>2, NextAsRecorded
  <2>4. o \in ObservationType
    BY ObservationInType DEF TypeOK, TargetTypeOK
  <2>5. /\ hist' \in Seq(ObservationType) /\ Len(hist') = n /\ hist'[n] = o
        /\ \A k \in 1 .. Len(hist) : hist'[k] = hist[k]
    BY <1>0, <1>2, <2>4, AppendProperties
  <2>6. DOMAIN hist' = 1 .. n
    BY <2>5, LenProperties
  <2>7. o = Original[n]
    <3>1. CASE call \in PayloadCalls
      <4>1. pc \in {"emit", "resume"} /\ tstate \in Alive
        BY <1>2 DEF Alive, Stopped
      <4>2. Restored
        BY <1>2, <3>1, <4>1 DEF InPlace
      <4> QED
        BY <4>2 DEF Restored
    <3>2. CASE call \notin PayloadCalls
      <4>1. call \in OtherCalls
        BY <2>1, <3>2 DEF Calls
      <4>2. o.call = call /\ o.ret = ret /\ o.data = Take(mem, PayloadLen(call, ret))
        BY DEF Observation
      <4>3. \A r : PayloadLen(call, r) = 0
        BY <3>2 DEF PayloadLen, PayloadCalls
      <4>4. Original[n] \in ObservationType
        BY <1>0, <2>3, ElementOfSeq
      <4>5. o.data = << >>
        <5>1. o.data \in Seq(Byte) /\ Len(o.data) = 0
          <6>1. mem \in Seq(Byte)
            BY DEF TypeOK, TargetTypeOK
          <6>2. Len(mem) \in Nat /\ 0 \in Nat
            BY <6>1, LenProperties
          <6> QED
            BY <4>2, <4>3, <6>1, <6>2, TakePrefix
        <5> QED
          BY <5>1, EmptySeq
      <4>6. Original[n].data = << >>
        <5>1. Len(Original[n].data) = PayloadLen(Original[n].call, Original[n].ret)
          BY <1>0, <2>3 DEF Covered, Ran
        <5>2. Len(Original[n].data) = 0
          BY <2>3, <4>3, <5>1
        <5>3. Original[n].data \in Seq(Byte)
          BY <4>4 DEF ObservationType
        <5> QED
          BY <5>2, <5>3, EmptySeq
      <4>7. Original[n].ret = ret
        <5>1. n \in DOMAIN hist' \cap DOMAIN Original
          BY <1>0, <2>3, <2>6
        <5>2. hist'[n].call = call /\ hist'[n].ret = ret
          BY <2>5, <4>2
        <5> QED
          BY <1>0, <2>3, <4>1, <5>1, <5>2 DEF Reproducible
      <4>8. Original[n] = [call |-> Original[n].call, ret |-> Original[n].ret,
                           data |-> Original[n].data]
        BY <4>4 DEF ObservationType
      <4> QED
        BY <2>3, <4>2, <4>5, <4>6, <4>7, <4>8 DEF Observation
    <3> QED
      BY <3>1, <3>2
  <2> HIDE DEF o
  <2>8. \A k \in 1 .. n : k \in 1 .. Len(hist) \/ k = n
    BY <1>0
  <2> QED
    BY <1>0, <2>2, <2>5, <2>7, <2>8 DEF AsRecorded
<1> QED
  BY <1>1, <1>2, HistStep

\* Spending the event of line n + 1, which is at the cursor.
LEMMA SpendNext ==
  ASSUME TypeOK, LoadedSoFar, NEW n \in Nat, SpentUpTo(n),
         cursor + 1 \in 1 .. Len(items), items[cursor + 1].seq = n + 1
  PROVE  \A i \in 1 .. Len(items) : i <= cursor + 1 <=> items[i].seq <= n + 1
<1>0. cursor \in Nat /\ Len(items) \in Nat /\ items \in Seq(BodyType)
  BY LenProperties DEF TypeOK
<1> SUFFICES ASSUME NEW i \in 1 .. Len(items)
             PROVE  i <= cursor + 1 <=> items[i].seq <= n + 1
  OBVIOUS
<1>1. items[i].seq \in Nat
  <2>1. items[i] \in BodyType
    BY <1>0, ElementOfSeq
  <2> QED
    BY <2>1 DEF BodyType
<1>2. CASE i <= cursor
  BY <1>0, <1>1, <1>2 DEF SpentUpTo
<1>3. CASE i = cursor + 1
  BY <1>3
<1>4. CASE cursor + 1 < i
  <2>1. items[cursor + 1].seq < items[i].seq
    BY <1>4 DEF LoadedSoFar
  <2> QED
    BY <1>0, <1>1, <1>4, <2>1
<1> QED
  BY <1>0, <1>2, <1>3, <1>4

\* What is injected is the event of the line about to be written.
LEMMA InjectStep ==
  ASSUME TypeOK, Pending, Control, InCall, Covered, LoadedSoFar, AsRecorded, InPlace,
         pc = "inject"
  PROVE  /\ items[active].seq = seq + 1
         /\ active = cursor + 1
         /\ active \in 1 .. Len(items)
         /\ seq = Len(hist) + 1
         /\ SpentUpTo(seq)
         /\ entry = Upcoming(hist)
         /\ Len(hist) < Len(Original)
         /\ Len(hist) + 1 \in 1 .. Len(Original)
         /\ Original[Len(hist) + 1].call = entry
         /\ items[active] = trace.lines[Len(hist) + 2].body
         /\ items[active].payload_ref.length > 0 => Readable(items[active].payload_ref)
<1>0. Len(hist) \in Nat /\ Len(Original) \in Nat /\ Len(items) \in Nat
  BY LenProperties, CoveredLines DEF TypeOK, TargetTypeOK
<1>1. /\ in_syscall /\ active # 0 /\ active = cursor + 1
      /\ active \in 0 .. Len(items)
  BY DEF Control, Pending, Chose, TypeOK
<1>2. seq = Len(hist) + 1 /\ SpentUpTo(seq) /\ entry = Upcoming(hist) /\ Matched
  BY <1>1 DEF InPlace
<1>3. entry \in PayloadCalls /\ items[active].seq = seq + 1
  BY <1>1, <1>2 DEF Matched
<1>4. entry # "exit_group"
  BY <1>3 DEF PayloadCalls, TimeCalls
<1>5. /\ Len(hist) < Len(Original)
      /\ Len(hist) + 1 \in 1 .. Len(Original)
      /\ Original[Len(hist) + 1].call = entry
  BY <1>0, <1>2, <1>4, NextAsRecorded DEF AsRecorded
<1>6. active \in 1 .. Len(items)
  BY <1>0, <1>1
<1>7. items[active] = trace.lines[Len(hist) + 2].body
  <2>1. items[active].seq = Len(hist) + 2
    BY <1>0, <1>2, <1>3
  <2> QED
    BY <1>6, <2>1 DEF LoadedSoFar
<1>8. Told(Len(hist) + 1) /\ (Len(hist) + 1) + 1 = Len(hist) + 2
  BY <1>0, <1>5, CoveredLines
<1> QED
  BY <1>1, <1>2, <1>3, <1>5, <1>6, <1>7, <1>8 DEF Told

\* As long as the history is the beginning of the recorded one and no injection misses
\* the program, every event is chosen, injected and spent in its place.
LEMMA InPlaceStep ==
  ASSUME TypeOK, Pending, Control, InCall, Covered, LoadedSoFar, AsRecorded, InPlace,
         [Next]_vars, missed' = {}
  PROVE  InPlace'
<1> USE DEF Alive, Stopped
<1>0. Len(hist) \in Nat /\ seq \in Nat /\ Original' = Original
  BY OnlyLoaded, LenProperties DEF TypeOK, TargetTypeOK, Original
<1>1. CASE LoadLine \/ Loaded \/ TargetUnknown \/ StartFails \/ PtraceFails \/ Close \/ Crash \/ Fork
  BY <1>1 DEF LoadLine, Loaded, TargetUnknown, StartFails, PtraceFails, Close, Crash, Fork, InPlace
<1>2. CASE WaitDeath \/ WriteResult \/ WriteResultFails
  BY <1>2 DEF WaitDeath, WriteResult, WriteResultFails, InPlace
<1>3. CASE Attach
  <2>1. CASE tstate = "raised"
    <3>1. /\ seq' = 1 /\ hist' = << >> /\ cursor' = 0 /\ items' = items /\ ~in_syscall'
          /\ pc' = "resume" /\ tstate' = "raised"
      BY <1>3, <2>1
      DEF Attach, EmitProcess, Emit, ProcessBody, Body, Control, targetVars, loopVars,
          historyVars, loadVars
    <3>2. \A i \in 1 .. Len(items) : ~(i <= 0) /\ ~(items[i].seq <= 1)
      <4> SUFFICES ASSUME NEW i \in 1 .. Len(items)
                   PROVE  ~(items[i].seq <= 1)
        OBVIOUS
      <4>1. /\ items[i].seq \in 1 .. Len(trace.lines)
            /\ Replayable(trace.lines[items[i].seq].body)
        BY <1>3 DEF LoadedSoFar, Attach
      <4>2. items[i].seq - 1 \in 1 .. Len(Original)
        BY <4>1, CoveredLines
      <4> QED
        BY <4>1, <4>2
    <3>3. SpentUpTo(1)'
      BY <3>1, <3>2 DEF SpentUpTo
    <3>4. Len(<< >>) = 0
      BY EmptySeq
    <3> QED
      BY <3>1, <3>3, <3>4 DEF InPlace
  <2>2. CASE tstate = "killed"
    BY <1>3, <2>2 DEF Attach, ReapTarget, InPlace
  <2> QED
    BY <1>3, <2>1, <2>2 DEF Attach
<1>4. CASE Resume
  <2>1. CASE tstate = "exitstop"
    <3>1. /\ seq = Len(hist) + 2 /\ SpentUpTo(seq) /\ ~in_syscall
      BY <1>4, <2>1 DEF InPlace, Resume, Control
    <3>2. /\ pc' = "wait" /\ tstate' = "running" /\ seq' = seq /\ cursor' = cursor
          /\ items' = items /\ in_syscall' = in_syscall
          /\ hist' = Append(hist, Observation(call, ret, mem))
      BY <1>4, <2>1 DEF Resume, ResumeTarget, writerVars, loopVars, historyVars, loadVars
    <3>3. Len(hist') = Len(hist) + 1
      <4>1. Observation(call, ret, mem) \in ObservationType
        BY ObservationInType DEF TypeOK, TargetTypeOK
      <4> QED
        BY <3>2, <4>1, AppendProperties DEF TypeOK, TargetTypeOK
    <3>4. seq' = Len(hist') + 1
      BY <1>0, <3>1, <3>2, <3>3
    <3>5. SpentUpTo(seq)'
      BY <3>1, <3>2 DEF SpentUpTo
    <3> QED
      BY <3>1, <3>2, <3>4, <3>5 DEF InPlace
  <2>2. CASE tstate # "exitstop"
    <3>1. /\ pc = "resume" /\ pc' = "wait" /\ seq' = seq /\ cursor' = cursor
          /\ items' = items /\ in_syscall' = in_syscall /\ hist' = hist
          /\ entry' = entry /\ active' = active /\ tstate \in Stopped
          /\ tstate' \in {"kernel", "running"}
      BY <1>4, <2>2 DEF Resume, ResumeTarget, writerVars, loopVars, historyVars, loadVars
    <3>2. /\ seq = Len(hist) + 1 /\ SpentUpTo(seq)
          /\ in_syscall => entry = Upcoming(hist) /\ Matched
      BY <2>2, <3>1 DEF InPlace
    <3>3. SpentUpTo(seq)' /\ (Matched => Matched')
      BY <3>1, <3>2 DEF SpentUpTo, Matched
    <3> QED
      BY <3>1, <3>2, <3>3 DEF InPlace
  <2> QED
    BY <2>1, <2>2
<1>5. CASE WaitSignalStop \/ WaitSyscallStop
  <2>1. /\ pc = "wait" /\ pc' \in {"resume", "stopped"} /\ seq' = seq /\ cursor' = cursor
        /\ items' = items /\ in_syscall' = in_syscall /\ hist' = hist /\ entry' = entry
        /\ active' = active /\ tstate' = tstate /\ tstate \in {"signal", "entry", "exitstop"}
        /\ pc' = "resume" => tstate = "signal"
    BY <1>5 DEF WaitSignalStop, WaitSyscallStop, targetVars, writerVars, loopVars, historyVars,
         loadVars
  <2>2. /\ seq = Len(hist) + 1 /\ SpentUpTo(seq)
        /\ in_syscall => entry = Upcoming(hist) /\ Matched
    BY <2>1 DEF InPlace
  <2>3. SpentUpTo(seq)' /\ (Matched => Matched')
    BY <2>1, <2>2 DEF SpentUpTo, Matched
  <2> QED
    BY <2>1, <2>2, <2>3 DEF InPlace
<1>6. CASE AtEntry
  <2>1. /\ pc = "stopped" /\ tstate = "entry" /\ ~in_syscall
        /\ pc' = "resume" /\ seq' = seq /\ cursor' = cursor /\ items' = items
        /\ entry' = call /\ active' = Chosen(call) /\ in_syscall' = TRUE
        /\ hist' = hist /\ tstate' = tstate
    BY <1>6 DEF AtEntry, Control, targetVars, writerVars, loadVars
  <2>2. seq = Len(hist) + 1 /\ SpentUpTo(seq) /\ call = Upcoming(hist)
    BY <2>1 DEF InPlace, InCall
  <2>3. line = Len(trace.lines)
    BY <2>1 DEF LoadedSoFar
  <2>4. call \in PayloadCalls =>
          /\ cursor < Len(items) /\ items[cursor + 1].seq = seq + 1
          /\ items[cursor + 1].name = call
    BY <2>2, <2>3, OwnEvent
  <2>5. IF call \in PayloadCalls THEN Chosen(call) = cursor + 1 ELSE Chosen(call) = 0
    BY <2>4 DEF Chosen
  <2>6. Matched'
    BY <2>1, <2>4, <2>5 DEF Matched
  <2>7. SpentUpTo(seq)'
    BY <2>1, <2>2 DEF SpentUpTo
  <2> QED
    BY <2>1, <2>2, <2>6, <2>7 DEF InPlace
<1>7. CASE AtExit
  <2>1. /\ pc = "stopped" /\ tstate = "exitstop" /\ in_syscall
        /\ pc' = IF active = 0 THEN "emit" ELSE "inject"
        /\ seq' = seq /\ cursor' = cursor /\ items' = items
        /\ entry' = entry /\ active' = active /\ in_syscall' = in_syscall
        /\ hist' = hist /\ tstate' = tstate /\ call' = call
    BY <1>7 DEF AtExit, Control, targetVars, writerVars, loadVars
  <2>2. seq = Len(hist) + 1 /\ SpentUpTo(seq) /\ entry = Upcoming(hist) /\ Matched
    BY <2>1 DEF InPlace
  <2>3. CASE active # 0
    <3>1. SpentUpTo(seq)' /\ Matched'
      BY <2>1, <2>2 DEF SpentUpTo, Matched
    <3> QED
      BY <2>1, <2>2, <2>3, <3>1 DEF InPlace
  <2>4. CASE active = 0
    <3>1. cursor \in Nat /\ cursor + 1 # 0
      BY DEF TypeOK
    <3>2. entry \notin PayloadCalls
      BY <2>2, <2>4, <3>1 DEF Matched
    <3>3. call = entry
      BY <2>1, <2>2 DEF InCall
    <3>4. line = Len(trace.lines)
      BY <2>1 DEF LoadedSoFar
    <3>5. \A i \in 1 .. Len(items) : items[i].seq # seq + 1
      BY <2>2, <3>2, <3>4, OwnEvent
    <3>6. \A i \in 1 .. Len(items) : items[i].seq \in Nat
      BY <3>4, CoveredLines DEF LoadedSoFar
    <3>7. SpentUpTo(seq + 1)'
      BY <1>0, <2>1, <2>2, <3>5, <3>6 DEF SpentUpTo
    <3> QED
      BY <2>1, <2>2, <2>4, <3>2, <3>3, <3>7 DEF InPlace
  <2> QED
    BY <2>3, <2>4
<1>8. CASE Inject
  <2>1. /\ pc = "inject" /\ pc' = "emit" /\ seq' = seq /\ cursor' = cursor + 1 /\ items' = items
        /\ entry' = entry /\ active' = active /\ in_syscall' = in_syscall
        /\ hist' = hist /\ tstate' = tstate /\ call' = call
    BY <1>8 DEF Inject, Consume, writerVars, loadVars
  <2>2. CASE tstate = "killed"
    BY <2>1, <2>2 DEF InPlace
  <2>3. CASE tstate = "exitstop"
    <3>1. SpentUpTo(seq + 1)'
      <4>1. \A i \in 1 .. Len(items) : i <= cursor + 1 <=> items[i].seq <= seq + 1
        BY <1>0, <2>1, InjectStep, SpendNext
      <4> QED
        BY <2>1, <4>1 DEF SpentUpTo
    <3>2. Restored'
      <4> DEFINE k == Len(hist) + 1
                 ref == items[active].payload_ref
      <4>1. /\ k \in 1 .. Len(Original) /\ Original[k].call = call
            /\ items[active] = trace.lines[k + 1].body /\ Len(hist) < Len(Original)
        <5>1. k + 1 = Len(hist) + 2
          BY <1>0
        <5>2. call = entry
          BY <2>1, <2>3, InjectStep DEF InCall
        <5> QED
          BY <2>1, <5>1, <5>2, InjectStep
      <4>2. ret' = items[active].ret /\ mem' = Overlay(mem, RecordedData(ref))
        BY <1>8, <2>3, InjectReaches
      <4>3. mem \in Seq(Byte)
        BY DEF TypeOK, TargetTypeOK
      <4>4. Observation(Original[k].call, items[active].ret, Overlay(mem, RecordedData(ref)))
              = Original[k]
        BY <4>1, <4>3, InjectedIsRecorded
      <4>5. Observation(call', ret', mem') = Original[k]
        BY <2>1, <4>1, <4>2, <4>4
      <4> HIDE DEF ref
      <4> QED
        BY <1>0, <2>1, <4>1, <4>5 DEF Restored
    <3>3. seq = Len(hist) + 1 /\ entry = Upcoming(hist)
      BY <2>1, InjectStep
    <3> QED
      BY <2>1, <3>1, <3>2, <3>3 DEF InPlace
  <2> QED
    BY <2>1, <2>2, <2>3 DEF Control
<1>9. CASE InjectFails
  BY <1>9 DEF InjectFails
<1>10. CASE EmitSyscall
  <2>1. /\ pc = "emit" /\ pc' = "resume" /\ seq' = seq + 1 /\ cursor' = cursor /\ items' = items
        /\ in_syscall' = FALSE /\ hist' = hist /\ tstate' = tstate /\ call' = call
        /\ ret' = ret /\ mem' = mem
    BY <1>10 DEF EmitSyscall, Emit, SyscallBody, Body, targetVars, loadVars
  <2>2. CASE tstate = "killed"
    BY <2>1, <2>2 DEF InPlace
  <2>3. CASE tstate = "exitstop"
    <3>1. /\ seq = Len(hist) + 1 /\ SpentUpTo(seq + 1)
          /\ call \in PayloadCalls => Restored
      BY <2>1, <2>3 DEF InPlace
    <3>2. seq' = Len(hist') + 2
      BY <1>0, <2>1, <3>1
    <3>3. SpentUpTo(seq)'
      BY <2>1, <3>1 DEF SpentUpTo
    <3>4. Restored => Restored'
      BY <1>0, <2>1 DEF Restored
    <3> QED
      BY <2>1, <2>3, <3>1, <3>2, <3>3, <3>4 DEF InPlace
  <2> QED
    BY <2>1, <2>2, <2>3 DEF Control
<1>11. CASE TargetMoves
  <2>1. /\ pc' = pc /\ seq' = seq /\ cursor' = cursor /\ items' = items
        /\ in_syscall' = in_syscall /\ entry' = entry /\ active' = active
    BY <1>11 DEF TargetMoves, writerVars, loopVars, historyVars, loadVars
  <2>2. /\ hist' = hist
        /\ \/ tstate' = "killed"
           \/ tstate \in {"running", "kernel"} /\ tstate' \in {"entry", "exitstop", "exited", "signal"}
    BY <1>11
    DEF TargetMoves, TargetNext, TargetRuns, EnterSyscall, KernelReturns, Exits, FaultStops,
        SignalStops, Interrupts, Killed
  <2>3. CASE tstate' = "killed"
    <3>1. CASE pc = "inject"
      <4>1. SpentUpTo(seq) /\ Matched /\ entry = Upcoming(hist) /\ seq = Len(hist) + 1
        BY <3>1 DEF InPlace, Control
      <4>2. SpentUpTo(seq)' /\ Matched'
        BY <2>1, <4>1 DEF SpentUpTo, Matched
      <4> QED
        BY <2>1, <2>2, <2>3, <3>1, <4>1, <4>2 DEF InPlace
    <3>2. CASE pc # "inject"
      BY <2>1, <2>3, <3>2 DEF InPlace
    <3> QED
      BY <3>1, <3>2
  <2>4. CASE tstate' # "killed"
    <3>1. pc \notin {"resume", "stopped", "inject", "emit"} /\ tstate \in {"running", "kernel"}
      BY <2>2, <2>4 DEF Control
    <3>2. CASE pc = "wait"
      <4>1. /\ SpentUpTo(seq) /\ seq = Len(hist) + 1
            /\ in_syscall => entry = Upcoming(hist) /\ Matched
        BY <3>1, <3>2 DEF InPlace
      <4>2. SpentUpTo(seq)' /\ (Matched => Matched')
        BY <2>1, <4>1 DEF SpentUpTo, Matched
      <4> QED
        BY <2>1, <2>2, <3>2, <4>1, <4>2 DEF InPlace
    <3>3. CASE pc # "wait"
      BY <2>1, <3>1, <3>3 DEF InPlace
    <3> QED
      BY <3>2, <3>3
  <2> QED
    BY <2>3, <2>4
<1>12. CASE UNCHANGED vars
  <2>1. /\ SpentUpTo(seq) <=> SpentUpTo(seq)'
        /\ SpentUpTo(seq + 1) <=> SpentUpTo(seq + 1)'
        /\ Matched <=> Matched'
        /\ Restored <=> Restored'
    BY <1>0, <1>12
    DEF vars, targetVars, loadVars, writerVars, loopVars, historyVars, SpentUpTo, Matched,
        Restored
  <2> QED
    BY <1>12, <2>1 DEF vars, targetVars, loadVars, writerVars, loopVars, historyVars, InPlace
<1> QED
  BY <1>1, <1>2, <1>3, <1>4, <1>5, <1>6, <1>7, <1>8, <1>9, <1>10, <1>11, <1>12
  DEF Next, ReplayerStep

(***************************************************************************)
(* The theorems.                                                            *)
(***************************************************************************)
\* A sequence that agrees with the beginning of another is a prefix of it.
LEMMA BeginsWith ==
  ASSUME NEW S, NEW s \in Seq(S), NEW t \in Seq(S), Len(s) <= Len(t),
         \A k \in 1 .. Len(s) : s[k] = t[k]
  PROVE  IsPrefix(s, t)
<1>1. Len(s) \in Nat /\ Len(t) \in Nat
  BY LenProperties
<1>2. \A k \in 1 .. Len(s) : s[k] \in S /\ t[k] \in S
  BY <1>1, ElementOfSeq
<1>3. /\ SubSeq(s, 1, Len(s)) \in Seq(S) /\ Len(SubSeq(s, 1, Len(s))) = Len(s)
      /\ \A k \in 1 .. Len(s) : SubSeq(s, 1, Len(s))[k] = s[k]
  BY <1>1, <1>2, SubSeqProperties
<1>4. /\ SubSeq(t, 1, Len(s)) \in Seq(S) /\ Len(SubSeq(t, 1, Len(s))) = Len(s)
      /\ \A k \in 1 .. Len(s) : SubSeq(t, 1, Len(s))[k] = t[k]
  BY <1>1, <1>2, SubSeqProperties
<1>5. SubSeq(s, 1, Len(s)) = SubSeq(t, 1, Len(s))
  BY <1>3, <1>4, SeqEqual
<1> QED
  BY <1>5 DEF IsPrefix

\* The inductive invariant: the two last parts hold of a covered recording only, and
\* the last as long as every injection reaches the program.
Inv ==
  /\ TypeOK /\ Pending /\ Control /\ InCall /\ AtExitOnly
  /\ Covered => LoadedSoFar
  /\ Covered /\ Reproducible /\ missed = {} => AsRecorded /\ InPlace

LEMMA InitInv ==
  ASSUME Begins
  PROVE  Inv
<1>1. TypeOK /\ Pending
  BY InitTyped
<1>2. pc = "load" /\ tstate = "none" /\ hist = << >> /\ seq = 0 /\ cursor = 0 /\ ~in_syscall
      /\ line = 0 /\ items = << >>
  BY DEF Begins, TargetInit
<1>3. Len(hist) = 0 /\ Len(items) = 0
  BY <1>2, EmptySeq
<1>4. Control /\ InCall
  BY <1>2 DEF Control, InCall
<1>5. AtExitOnly
  <2>1. Len(events) \in Nat
    BY <1>1, LenProperties DEF TypeOK
  <2> QED
    BY <1>2, <2>1 DEF AtExitOnly, Exited
<1>6. LoadedSoFar
  BY <1>2, <1>3 DEF LoadedSoFar
<1>7. InPlace
  BY <1>2 DEF InPlace
<1>8. Covered => AsRecorded
  <2>1. Covered => Len(Original) \in Nat
    BY <1>1, CoveredLines
  <2> QED
    BY <1>3, <2>1 DEF AsRecorded
<1> QED
  BY <1>1, <1>4, <1>5, <1>6, <1>7, <1>8 DEF Inv

LEMMA InvStep ==
  ASSUME Inv, [Next]_vars
  PROVE  Inv'
<1>1. TypeOK /\ Pending /\ Control /\ InCall /\ AtExitOnly
  BY DEF Inv
<1>2. TypeOK' /\ Pending' /\ Control' /\ InCall' /\ AtExitOnly'
  BY <1>1, TypeStep, PendingStep, ControlStep, InCallStep, AtExitOnlyStep
<1>3. (Covered' => Covered) /\ (Reproducible' => Reproducible)
  BY <1>1, StepBack
<1>4. Covered' => LoadedSoFar'
  BY <1>1, <1>3, LoadedStep DEF Inv
<1>5. missed' = {} => missed = {}
  BY MissedGrows
<1>6. Covered' /\ Reproducible' /\ missed' = {} => AsRecorded' /\ InPlace'
  BY <1>1, <1>3, <1>5, AsRecordedStep, InPlaceStep DEF Inv
<1> QED
  BY <1>2, <1>4, <1>6 DEF Inv

LEMMA InvInductive == Spec => []Inv
BY InitBegins, InitInv, InvStep, PTL DEF Spec

\* The result injected into the n-th syscall is the recorded result of the n-th syscall
\* (ptrace_replayer.c:279-296), whatever the kernel returns, whatever signals arrive and
\* whenever the target is killed, as long as every injection before it reached the program.
THEOREM ReplayerInjectedInPlace == Spec => []InjectedInPlace
<1>1. Inv => InjectedInPlace
  <2> SUFFICES ASSUME Inv, pc = "inject", Covered, Reproducible, missed = {}
               PROVE  items[active].seq = seq + 1
    BY DEF InjectedInPlace
  <2> QED
    BY InjectStep DEF Inv
<1> QED
  BY <1>1, InvInductive, PTL

\* The determinism the program is named for: a replay of a recording it covers shows the
\* program, result by result, what it observed when recorded, and all of it if it exits;
\* unless main() was not told that an injection failed (ptrace_replayer.c:470-476).
THEOREM ReplayerDeterministic == Spec => []ReplaysRecording
<1>1. Inv => ReplaysRecording
  <2> SUFFICES ASSUME Inv, Covered, Reproducible, missed = {}
               PROVE  IsPrefix(hist, Original) /\ (Exited => hist = Original)
    BY DEF ReplaysRecording
  <2>1. /\ TypeOK /\ AsRecorded
        /\ Exited => Upcoming(hist) = "exit_group"
    BY DEF Inv, AtExitOnly
  <2>2. /\ hist \in Seq(ObservationType) /\ Original \in Seq(ObservationType)
        /\ Len(hist) \in Nat /\ Len(Original) \in Nat
    BY <2>1, LenProperties, CoveredLines DEF TypeOK, TargetTypeOK
  <2>3. IsPrefix(hist, Original)
    BY <2>1, <2>2, BeginsWith DEF AsRecorded
  <2>4. Exited => hist = Original
    BY <2>1, <2>2, NextAsRecorded DEF AsRecorded
  <2> QED
    BY <2>3, <2>4
<1> QED
  BY <1>1, InvInductive, PTL


(***************************************************************************)
(* The replay's own lines.                                                  *)
(***************************************************************************)
\* The body of the n-th line this replayer wrote, and what it has to tell of an
\* observation: if its injection missed the program, only which syscall it was.
Own(n) == events[Len(events) - seq + n].body
Tells(n, body, o) ==
  /\ body.etype = "SYSCALL" /\ body.name = o.call
  /\ n \notin missed =>
       /\ body.ret = o.ret
       /\ PayloadsReadable /\ RefsFit /\ body.payload_ref.length > 0
            => body.payload_ref.sha256 = o.data

\* Every event to inject is a replayable line of the recording, whatever the recording.
FromTrace ==
  \A i \in 1 .. Len(items) :
    Replayable(items[i]) /\ \E n \in DOMAIN trace.lines : items[i] = trace.lines[n].body

\* Between a stop at the entry and the line, the syscall stays the same, and the event
\* chosen is one of its kind.
SameCall ==
  in_syscall /\ pc \in {"resume", "wait", "stopped", "inject", "emit"} =>
    entry = call /\ (active # 0 => items[active].name = call)

\* What EmitSyscall will write is what the program will see.
ToTell ==
  tstate = "exitstop" =>
    /\ pc = "inject" => shown = ret
    /\ pc = "emit" /\ seq + 1 \notin missed =>
         /\ shown = ret
         /\ PayloadsReadable /\ RefsFit /\ active # 0 /\ items[active].payload_ref.length > 0
              => items[active].payload_ref.sha256 = Observation(call, ret, mem).data

\* One line for the start, one for each result; one more before the program sees it.
Counts ==
  /\ hist = << >> \/ seq >= Len(hist) + 1
  /\ pc \in {"resume", "wait", "stopped", "inject", "emit"} /\ tstate \in Alive \cup {"exited"} =>
       seq = Len(hist) + (IF pc = "resume" /\ tstate = "exitstop" THEN 2 ELSE 1)
  /\ Exited => seq = Len(hist) + 2

ToldSoFar ==
  /\ \A k \in 1 .. Len(hist) : Tells(k + 1, Own(k + 1), hist[k])
  /\ pc = "resume" /\ tstate = "exitstop" =>
       Tells(seq, events[Len(events)].body, Observation(call, ret, mem))

\* emit_line leaves the earlier lines where they were.
LEMMA EmitOwn ==
  ASSUME TypeOK, seq <= Len(events), NEW body, body.seq = seq + 1, Emit(body)
  PROVE  /\ events'[Len(events')].body = body
         /\ \A n \in 1 .. seq : Own(n)' = Own(n)
<1> DEFINE l == Line(prev_hash, body)
<1>1. events \in Seq(LineType \cup {l}) /\ Len(events) \in Nat /\ seq \in Nat
  BY LenProperties, SeqDef DEF TypeOK
<1>2. /\ events' = Append(events, l) /\ seq' = seq + 1 /\ l.body = body
  BY DEF Emit, Line
<1> HIDE DEF l
<1>3. /\ Len(events') = Len(events) + 1 /\ events'[Len(events) + 1] = l
      /\ \A i \in 1 .. Len(events) : events'[i] = events[i]
  BY <1>1, <1>2, AppendProperties
<1>4. Len(events') - seq' = Len(events) - seq
  BY <1>1, <1>2, <1>3
<1>5. \A n \in 1 .. seq : Len(events) - seq + n \in 1 .. Len(events)
  BY <1>1
<1>8. \A n \in 1 .. seq : events'[Len(events') - seq' + n] = events[Len(events) - seq + n]
  BY <1>3, <1>4, <1>5
<1> QED
  BY <1>2, <1>3, <1>8 DEF Own

LEMMA FromTraceStep ==
  ASSUME TypeOK, FromTrace, [Next]_vars
  PROVE  FromTrace'
<1>1. CASE ~LoadLine
  BY <1>1, OnlyLoaded DEF FromTrace
<1>2. CASE LoadLine
  <2>1. PICK n \in DOMAIN trace.lines :
          /\ trace' = trace
          /\ items' = IF Replayable(trace.lines[n].body) THEN Append(items, trace.lines[n].body)
                      ELSE items
    <3>1. Len(trace.lines) \in Nat /\ DOMAIN trace.lines = 1 .. Len(trace.lines)
      BY LenProperties DEF TypeOK, DirectoryType
    <3>2. line + 1 \in DOMAIN trace.lines
      BY <1>2, <3>1 DEF LoadLine, TypeOK
    <3> QED
      BY <1>2, <3>2 DEF LoadLine
  <2> DEFINE body == trace.lines[n].body
  <2>2. CASE ~Replayable(body)
    BY <2>1, <2>2 DEF FromTrace
  <2>3. CASE Replayable(body)
    <3>1. items \in Seq(BodyType) /\ Len(items) \in Nat /\ body \in BodyType
      <4>1. trace.lines[n] \in LineType
        BY ElementOfSeq, LenProperties DEF TypeOK, DirectoryType
      <4> QED
        BY <4>1, LenProperties DEF TypeOK, LineType
    <3>2. /\ Len(items') = Len(items) + 1 /\ items'[Len(items) + 1] = body
          /\ \A i \in 1 .. Len(items) : items'[i] = items[i]
      BY <2>1, <2>3, <3>1, AppendProperties
    <3>3. \A i \in 1 .. Len(items') : i \in 1 .. Len(items) \/ i = Len(items) + 1
      BY <3>1, <3>2
    <3> QED
      BY <2>1, <2>3, <3>2, <3>3 DEF FromTrace
  <2> QED
    BY <2>2, <2>3
<1> QED
  BY <1>1, <1>2

LEMMA SameCallStep ==
  ASSUME TypeOK, Control, Pending, SameCall, [Next]_vars
  PROVE  SameCall'
<1> USE DEF SameCall
<1>0. Len(items) \in Nat
  BY LenProperties DEF TypeOK
<1>1. CASE LoadLine \/ Loaded \/ TargetUnknown \/ StartFails \/ PtraceFails \/ Close \/ Crash
  BY <1>1
  DEF LoadLine, Loaded, TargetUnknown, StartFails, PtraceFails, Close, Crash, DetachTarget,
      targetVars, loadVars, loopVars, historyVars
<1>2. CASE Fork \/ Attach
  BY <1>2 DEF Fork, TargetFork, Attach, ReapTarget, targetVars, loadVars, loopVars,
       historyVars, Control
<1>3. CASE Resume
  BY <1>3 DEF Resume, ResumeTarget, loadVars, loopVars, historyVars
<1>4. CASE WaitDeath \/ WriteResult \/ WriteResultFails \/ WaitSignalStop \/ WaitSyscallStop
  BY <1>4
  DEF WaitDeath, WriteResult, WriteResultFails, WaitSignalStop, WaitSyscallStop, targetVars,
      loadVars, loopVars, historyVars
<1>5. CASE AtEntry
  <2>1. entry' = call /\ active' = Chosen(call) /\ call' = call /\ items' = items
    BY <1>5 DEF AtEntry, targetVars, loadVars
  <2>2. active' # 0 => items[active'].name = call
    BY <2>1 DEF Chosen
  <2> QED
    BY <2>1, <2>2
<1>6. CASE AtExit \/ Inject \/ InjectFails \/ EmitSyscall
  BY <1>6 DEF AtExit, Inject, InjectFails, EmitSyscall, targetVars, loadVars
<1>7. CASE TargetMoves
  BY <1>7
  DEF TargetMoves, TargetNext, TargetRuns, EnterSyscall, KernelReturns, Exits, FaultStops,
      SignalStops, Interrupts, Killed, loadVars, loopVars, historyVars, Control, Stopped, Alive
<1>8. CASE UNCHANGED vars
  BY <1>8 DEF vars, targetVars, loadVars, loopVars, historyVars
<1> QED
  BY <1>1, <1>2, <1>3, <1>4, <1>5, <1>6, <1>7, <1>8 DEF Next, ReplayerStep

\* What can be read back has the length and the hash its reference claims.
LEMMA DataRead ==
  ASSUME TypeOK, FromTrace, PayloadsReadable, NEW i \in 1 .. Len(items)
  PROVE  LET ref == items[i].payload_ref
         IN  /\ items[i].ret \in Int
             /\ ref.length > 0 => Readable(ref)
             /\ ref.length > 0 => RecordedData(ref) = ref.sha256
             /\ RecordedData(ref) \in Seq(Byte) /\ Len(RecordedData(ref)) = ref.length
<1> DEFINE ref == items[i].payload_ref
<1>1. items[i] \in BodyType
  BY ElementOfSeq, LenProperties DEF TypeOK
<1>2. ref \in RefType /\ items[i].ret \in Int
  BY <1>1 DEF BodyType
<1>3. PICK n \in DOMAIN trace.lines : items[i] = trace.lines[n].body
  BY DEF FromTrace
<1>4. Addresses(trace.bytes, ref)
  BY <1>3 DEF PayloadsReadable
<1>5. trace.bytes \in Seq(Byte) /\ ref.offset \in Nat /\ ref.length \in Nat
  BY <1>2 DEF TypeOK, DirectoryType, RefType
<1> HIDE DEF ref
<1>6. /\ Readable(ref)
      /\ RecordedData(ref) = ref.sha256
  BY <1>4 DEF Addresses, Readable, RecordedData
<1>7. RecordedData(ref) \in Seq(Byte) /\ Len(RecordedData(ref)) = ref.length
  BY <1>5, <1>6, SliceBytes DEF Readable, RecordedData
<1> QED
  BY <1>2, <1>6, <1>7 DEF ref

LEMMA ToTellStep ==
  ASSUME TypeOK, Control, Pending, FromTrace, SameCall, ToTell, [Next]_vars
  PROVE  ToTell'
<1>1. CASE pc' \notin {"inject", "emit"} \/ tstate' # "exitstop"
  BY <1>1 DEF ToTell
<1>0. (PayloadsReadable' => PayloadsReadable) /\ (RefsFit' => RefsFit)
  BY OnlyLoaded DEF PayloadsReadable, RefsFit
<1>3. CASE AtExit
  BY <1>3 DEF AtExit, ToTell, targetVars
<1>4. CASE Inject
  <2> DEFINE item == items[active]
             data == RecordedData(item.payload_ref)
  <2>1. active \in 1 .. Len(items) /\ in_syscall
    BY <1>4 DEF Inject, Pending, Chose, TypeOK, Control
  <2>2. /\ shown' = item.ret /\ items' = items /\ active' = active /\ call' = call /\ pc' = "emit"
        /\ tstate' = tstate /\ seq' = seq
        /\ tstate = "exitstop" /\ seq + 1 \notin missed' =>
             ret' = item.ret /\ mem' = Overlay(mem, data)
    <3>1. tstate = "exitstop" /\ seq + 1 \notin missed' =>
            ret' = item.ret /\ mem' = Overlay(mem, data)
      BY <1>4, InjectReaches
    <3> QED
      BY <1>4, <3>1 DEF Inject, loadVars, writerVars
  <2>3. item.name = call
    BY <1>4, <2>1 DEF SameCall, Inject
  <2>4. mem \in Seq(Byte)
    BY DEF TypeOK, TargetTypeOK
  <2>5. ASSUME tstate = "exitstop", PayloadsReadable, RefsFit, item.payload_ref.length > 0
        PROVE  item.payload_ref.sha256 = Observation(call, item.ret, Overlay(mem, data)).data
    <3>1. data \in Seq(Byte) /\ data = item.payload_ref.sha256 /\ Len(data) = item.payload_ref.length
      BY <2>1, <2>5, DataRead
    <3>2. item.payload_ref.length = PayloadLen(item.name, item.ret)
      BY <2>1, <2>5 DEF FromTrace, RefsFit
    <3>3. Take(Overlay(mem, data), Len(data)) = data
      BY <2>4, <3>1, TakeOverlay
    <3> HIDE DEF data, item
    <3> QED
      BY <2>3, <3>1, <3>2, <3>3 DEF Observation
  <2> HIDE DEF item, data
  <2>6. ASSUME tstate' = "exitstop", PayloadsReadable', RefsFit', item.payload_ref.length > 0,
               seq + 1 \notin missed'
        PROVE  item.payload_ref.sha256 = Observation(call', ret', mem').data
    BY <1>0, <2>2, <2>5, <2>6
  <2>7. items'[active'] = item
    BY <2>2 DEF item
  <2> QED
    BY <2>2, <2>6, <2>7 DEF ToTell
<1>5. CASE InjectFails
  BY <1>5 DEF InjectFails, ToTell, writerVars
<1>6. CASE LoadLine \/ Loaded \/ TargetUnknown \/ StartFails \/ PtraceFails \/ Close \/ Crash
  BY <1>1, <1>6 DEF LoadLine, Loaded, TargetUnknown, StartFails, PtraceFails, Close, Crash
<1>7. CASE Fork \/ Attach \/ Resume \/ AtEntry \/ EmitSyscall
  BY <1>1, <1>7 DEF Fork, Attach, Resume, AtEntry, EmitSyscall
<1>8. CASE WaitDeath \/ WriteResult \/ WriteResultFails \/ WaitSignalStop \/ WaitSyscallStop
  BY <1>1, <1>8 DEF WaitDeath, WriteResult, WriteResultFails, WaitSignalStop, WaitSyscallStop
<1>9. CASE TargetMoves
  <2>1. pc' = pc /\ UNCHANGED << items, shown, active >>
    BY <1>9 DEF TargetMoves, loadVars, loopVars, historyVars
  <2>2. pc \in {"inject", "emit"} => tstate' # "exitstop"
    BY <1>9
    DEF TargetMoves, TargetNext, TargetRuns, EnterSyscall, KernelReturns, Exits, FaultStops,
        SignalStops, Interrupts, Killed, Control
  <2> QED
    BY <1>1, <2>1, <2>2
<1>10. CASE UNCHANGED vars
  BY <1>0, <1>10 DEF vars, targetVars, loadVars, writerVars, loopVars, historyVars, ToTell
<1> QED
  BY <1>3, <1>4, <1>5, <1>6, <1>7, <1>8, <1>9, <1>10 DEF Next, ReplayerStep

\* Whether it has exited is told by the line, so it does not change without one.
LEMMA SameLines ==
  ASSUME events' = events, seq' = seq
  PROVE  /\ Exited' <=> Exited
         /\ \A n : Own(n)' = Own(n)
BY DEF Exited, OwnLines, Own

LEMMA CountsStep ==
  ASSUME TypeOK, Control, AtExitOnly, Counts, [Next]_vars
  PROVE  Counts'
<1>0. Len(hist) \in Nat /\ seq \in Nat
  BY LenProperties DEF TypeOK, TargetTypeOK
<1>1. CASE LoadLine \/ Loaded \/ TargetUnknown \/ StartFails \/ PtraceFails \/ Close \/ Crash
  <2>1. /\ hist' = hist /\ seq' = seq /\ events' = events
        /\ pc' \notin {"resume", "wait", "stopped", "inject", "emit"}
    BY <1>1
    DEF LoadLine, Loaded, TargetUnknown, StartFails, PtraceFails, Close, Crash, DetachTarget,
        targetVars, diskVars, writerVars
  <2> QED
    BY <2>1, SameLines DEF Counts
<1>2. CASE Fork
  <2>1. hist' = << >> /\ hist = << >> /\ seq' = seq /\ events' = events /\ pc' = "attach"
    BY <1>2 DEF Fork, TargetFork, diskVars, writerVars, Control
  <2> QED
    BY <2>1, SameLines DEF Counts
<1>3. CASE Attach
  <2>1. hist = << >> /\ hist' = hist /\ seq = 0 /\ tstate' # "exitstop"
        /\ pc' = "resume" /\ EmitProcess("program_start")
    BY <1>3 DEF Attach, ReapTarget, targetVars, Control
  <2>2. /\ ProcessBody("program_start", seq + 1).seq = seq + 1
        /\ ProcessBody("program_start", seq + 1) # ProcessBody("program_exit", seq + 1)
    BY DEF ProcessBody, Body
  <2>3. seq' = seq + 1 /\ ~Exited'
    BY <2>1, <2>2, EmitLast DEF EmitProcess, AtExitOnly
  <2> QED
    BY <2>1, <2>3, EmptySeq DEF Counts
<1>4. CASE Resume
  <2>1. seq' = seq /\ events' = events /\ pc' = "wait" /\ pc = "resume"
    BY <1>4 DEF Resume, diskVars, writerVars
  <2>2. ~Exited'
    BY <2>1, SameLines DEF AtExitOnly
  <2>3. CASE tstate = "exitstop"
    <3>1. hist' = Append(hist, Observation(call, ret, mem))
      BY <1>4, <2>3 DEF Resume, ResumeTarget
    <3>2. Len(hist') = Len(hist) + 1
      BY <3>1, ObservationInType, AppendProperties DEF TypeOK, TargetTypeOK
    <3>3. seq = Len(hist) + 2
      BY <2>1, <2>3 DEF Counts, Alive, Stopped
    <3> QED
      BY <1>0, <2>1, <2>2, <3>2, <3>3 DEF Counts
  <2>4. CASE tstate # "exitstop"
    <3>1. hist' = hist /\ tstate \in Alive
      BY <1>4, <2>4 DEF Resume, ResumeTarget, Alive
    <3> QED
      BY <2>1, <2>2, <2>4, <3>1 DEF Counts
  <2> QED
    BY <2>3, <2>4
<1>5. CASE WaitDeath
  <2>1. PICK name \in ProcessNames :
          /\ EmitProcess(name)
          /\ name = "program_exit" => tstate = "exited"
    BY <1>5 DEF WaitDeath, ProcessNames
  <2>2. /\ hist' = hist /\ pc = "wait" /\ pc' \in {"exited", "signalled"}
    BY <1>5 DEF WaitDeath, ReapTarget
  <2>3. /\ ProcessBody(name, seq + 1).seq = seq + 1
        /\ ProcessBody(name, seq + 1) = ProcessBody("program_exit", seq + 1) => name = "program_exit"
    BY DEF ProcessBody, Body
  <2>4. seq' = seq + 1 /\ (Exited' => name = "program_exit")
    BY <2>1, <2>3, EmitLast DEF EmitProcess, AtExitOnly
  <2>5. tstate = "exited" => seq = Len(hist) + 1
    BY <2>2 DEF Counts
  <2> QED
    BY <1>0, <2>1, <2>2, <2>4, <2>5 DEF Counts
<1>6. CASE WriteResult \/ WriteResultFails
  <2>1. hist' = hist /\ seq' = seq /\ events' = events /\ pc' = "close"
    BY <1>6 DEF WriteResult, WriteResultFails, targetVars, diskVars, writerVars
  <2> QED
    BY <2>1, SameLines DEF Counts
<1>7. CASE WaitSignalStop \/ WaitSyscallStop
  <2>1. /\ hist' = hist /\ seq' = seq /\ events' = events /\ pc = "wait" /\ tstate' = tstate
        /\ pc' = "resume" => tstate = "signal"
        /\ pc' \in {"resume", "stopped"}
    BY <1>7 DEF WaitSignalStop, WaitSyscallStop, targetVars, diskVars, writerVars
  <2> QED
    BY <2>1, SameLines DEF Counts
<1>8. CASE AtEntry
  <2>1. /\ hist' = hist /\ seq' = seq /\ events' = events /\ pc = "stopped" /\ tstate' = tstate
        /\ pc' = "resume" /\ ~in_syscall /\ tstate \in Stopped
    BY <1>8 DEF AtEntry, targetVars, diskVars, writerVars
  <2>2. tstate # "exitstop"
    BY <2>1 DEF Control, Stopped
  <2> QED
    BY <2>1, <2>2, SameLines DEF Counts
<1>9. CASE AtExit \/ Inject \/ InjectFails
  <2>1. /\ hist' = hist /\ seq' = seq /\ events' = events /\ pc \in {"stopped", "inject"}
        /\ tstate' = tstate /\ pc' \in {"inject", "emit"}
    BY <1>9 DEF AtExit, Inject, InjectFails, targetVars, diskVars, writerVars
  <2> QED
    BY <2>1, SameLines DEF Counts
<1>10. CASE EmitSyscall
  <2> DEFINE body == SyscallBody(entry, seq + 1, shown, EmittedRef)
  <2>1. body.seq = seq + 1 /\ body # ProcessBody("program_exit", seq + 1)
    BY DEF SyscallBody, ProcessBody, Body
  <2>2. Emit(body) /\ hist' = hist /\ tstate' = tstate /\ pc = "emit" /\ pc' = "resume"
    BY <1>10 DEF EmitSyscall, targetVars
  <2> HIDE DEF body
  <2>3. seq' = seq + 1 /\ ~Exited'
    BY <2>1, <2>2, EmitLast DEF AtExitOnly
  <2>4. tstate \in {"exitstop", "killed"}
    BY <2>2 DEF Control
  <2>5. tstate = "exitstop" => seq = Len(hist) + 1
    BY <2>2 DEF Counts, Alive, Stopped
  <2>6. "killed" \notin Alive \cup {"exited"}
    BY DEF Alive, Stopped
  <2>7. hist' = << >> \/ seq' >= Len(hist') + 1
    BY <1>0, <2>2, <2>3 DEF Counts
  <2> QED
    BY <1>0, <2>2, <2>3, <2>4, <2>5, <2>6, <2>7 DEF Counts
<1>11. CASE TargetMoves
  <2>1. hist' = hist /\ seq' = seq /\ events' = events /\ pc' = pc
    BY <1>11
    DEF TargetMoves, TargetNext, TargetRuns, EnterSyscall, KernelReturns, Exits, FaultStops,
        SignalStops, Interrupts, Killed, diskVars, writerVars
  <2>2. tstate' \in Alive \cup {"exited"} => tstate \in Alive \cup {"exited"}
    BY <1>11
    DEF TargetMoves, TargetNext, TargetRuns, EnterSyscall, KernelReturns, Exits, FaultStops,
        SignalStops, Interrupts, Killed, Alive, Stopped
  <2>3. pc = "resume" => (tstate' = "exitstop" => tstate = "exitstop")
                         /\ (tstate' \in Alive \cup {"exited"} => tstate' = tstate)
    BY <1>11
    DEF TargetMoves, TargetNext, TargetRuns, EnterSyscall, KernelReturns, Exits, FaultStops,
        SignalStops, Interrupts, Killed, Alive, Stopped, Control
  <2> QED
    BY <2>1, <2>2, <2>3, SameLines DEF Counts
<1>12. CASE UNCHANGED vars
  BY <1>12, SameLines DEF vars, targetVars, diskVars, writerVars, Counts
<1> QED
  BY <1>1, <1>2, <1>3, <1>4, <1>5, <1>6, <1>7, <1>8, <1>9, <1>10, <1>11, <1>12
  DEF Next, ReplayerStep

LEMMA ToldStep ==
  ASSUME TypeOK, Control, AtExitOnly, SameCall, ToTell, Counts, ToldSoFar, [Next]_vars
  PROVE  ToldSoFar'
<1>0. Len(hist) \in Nat /\ seq \in Nat /\ trace' = trace
  BY LenProperties, OnlyLoaded DEF TypeOK, TargetTypeOK
<1>1. missed \subseteq missed'
  BY MissedGrows
<1>2. ASSUME hist' = hist, \A n \in 1 .. seq : Own(n)' = Own(n),
             NEW k \in 1 .. Len(hist')
      PROVE  Tells(k + 1, Own(k + 1), hist[k])'
  <2>1. k \in 1 .. Len(hist) /\ hist # << >>
    BY <1>0, <1>2, EmptySeq
  <2>2. k + 1 \in 1 .. seq
    BY <1>0, <2>1 DEF Counts
  <2>3. Tells(k + 1, Own(k + 1), hist[k]) /\ Own(k + 1)' = Own(k + 1) /\ hist'[k] = hist[k]
    BY <1>2, <2>1, <2>2 DEF ToldSoFar
  <2> QED
    BY <1>0, <1>1, <2>3 DEF Tells, PayloadsReadable, RefsFit
<1>3. ASSUME hist' = hist, events' = events, seq' = seq,
             pc' = "resume" /\ tstate' = "exitstop" =>
               pc = "resume" /\ UNCHANGED targetVars
      PROVE  ToldSoFar'
  <2>1. \A k \in 1 .. Len(hist') : Tells(k + 1, Own(k + 1), hist[k])'
    BY <1>2, <1>3, SameLines
  <2>2. ASSUME pc' = "resume", tstate' = "exitstop"
        PROVE  Tells(seq, events[Len(events)].body, Observation(call, ret, mem))'
    BY <1>0, <1>1, <1>3, <2>2 DEF ToldSoFar, Tells, PayloadsReadable, RefsFit, targetVars
  <2> QED
    BY <2>1, <2>2 DEF ToldSoFar
<1>4. CASE LoadLine \/ Loaded \/ TargetUnknown \/ StartFails \/ PtraceFails \/ Close \/ Crash
  BY <1>3, <1>4
  DEF LoadLine, Loaded, TargetUnknown, StartFails, PtraceFails, Close, Crash, DetachTarget,
      targetVars, diskVars, writerVars
<1>5. CASE Fork
  BY <1>3, <1>5 DEF Fork, TargetFork, diskVars, writerVars, Control
<1>6. CASE Attach
  <2>1. hist' = << >> /\ tstate' # "exitstop"
    BY <1>6 DEF Attach, ReapTarget, targetVars, Control
  <2> QED
    BY <2>1, EmptySeq DEF ToldSoFar
<1>7. CASE Resume
  <2>1. seq' = seq /\ events' = events /\ pc' = "wait" /\ pc = "resume"
    BY <1>7 DEF Resume, diskVars, writerVars
  <2>2. CASE tstate = "exitstop"
    <3> DEFINE o == Observation(call, ret, mem)
    <3>1. hist' = Append(hist, o)
      BY <1>7, <2>2 DEF Resume, ResumeTarget
    <3>2. hist \in Seq(ObservationType) /\ o \in ObservationType
      BY ObservationInType DEF TypeOK, TargetTypeOK
    <3>3. Tells(seq, events[Len(events)].body, o)
      BY <2>1, <2>2 DEF ToldSoFar
    <3> HIDE DEF o
    <3>4. /\ Len(hist') = Len(hist) + 1 /\ hist'[Len(hist) + 1] = o
          /\ \A k \in 1 .. Len(hist) : hist'[k] = hist[k]
      BY <3>1, <3>2, AppendProperties
    <3>5. seq = Len(hist) + 2
      BY <2>1, <2>2 DEF Counts, Alive, Stopped
    <3>6. ASSUME NEW k \in 1 .. Len(hist')
          PROVE  Tells(k + 1, Own(k + 1), hist[k])'
      <4>1. Own(k + 1)' = Own(k + 1)
        BY <2>1 DEF Own
      <4>2. CASE k \in 1 .. Len(hist)
        <5>1. Tells(k + 1, Own(k + 1), hist[k]) /\ hist'[k] = hist[k]
          BY <3>4, <4>2 DEF ToldSoFar
        <5> QED
          BY <1>0, <1>1, <4>1, <5>1 DEF Tells, PayloadsReadable, RefsFit
      <4>3. CASE k = Len(hist) + 1
        <5>1. Own(k + 1) = events[Len(events)].body
          <6>1. Len(events) \in Nat
            BY LenProperties DEF TypeOK
          <6>2. Len(events) - seq + (k + 1) = Len(events)
            BY <1>0, <3>5, <4>3, <6>1
          <6> QED
            BY <6>2 DEF Own
        <5>2. hist'[k] = o /\ k + 1 = seq
          BY <1>0, <3>4, <3>5, <4>3
        <5> QED
          BY <1>0, <1>1, <3>3, <4>1, <5>1, <5>2 DEF Tells, PayloadsReadable, RefsFit
      <4> QED
        BY <1>0, <3>4, <4>2, <4>3
    <3> QED
      BY <2>1, <3>6 DEF ToldSoFar
  <2>3. CASE tstate # "exitstop"
    BY <1>3, <1>7, <2>1, <2>3 DEF Resume, ResumeTarget
  <2> QED
    BY <2>2, <2>3
<1>8. CASE WaitDeath
  <2>1. PICK name \in ProcessNames : EmitProcess(name)
    BY <1>8 DEF WaitDeath, ProcessNames
  <2>2. hist' = hist /\ pc' # "resume"
    BY <1>8 DEF WaitDeath, ReapTarget
  <2>3. ProcessBody(name, seq + 1).seq = seq + 1
    BY DEF ProcessBody, Body
  <2>4. \A n \in 1 .. seq : Own(n)' = Own(n)
    BY <2>1, <2>3, EmitOwn DEF EmitProcess, AtExitOnly
  <2> QED
    BY <1>2, <2>2, <2>4 DEF ToldSoFar
<1>9. CASE WriteResult \/ WriteResultFails \/ WaitSignalStop \/ WaitSyscallStop
  BY <1>3, <1>9
  DEF WriteResult, WriteResultFails, WaitSignalStop, WaitSyscallStop, targetVars, diskVars,
      writerVars
<1>10. CASE AtEntry
  BY <1>3, <1>10 DEF AtEntry, targetVars, diskVars, writerVars, Control
<1>11. CASE AtExit \/ Inject \/ InjectFails
  BY <1>3, <1>11 DEF AtExit, Inject, InjectFails, targetVars, diskVars, writerVars
<1>12. CASE EmitSyscall
  <2> DEFINE body == SyscallBody(entry, seq + 1, shown, EmittedRef)
  <2>1. body.seq = seq + 1 /\ Emit(body) /\ UNCHANGED targetVars /\ pc = "emit"
    BY <1>12 DEF EmitSyscall, SyscallBody, Body
  <2>2. /\ body.etype = "SYSCALL" /\ body.name = entry /\ body.ret = shown
        /\ body.payload_ref = EmittedRef
    BY DEF SyscallBody, Body
  <2> HIDE DEF body
  <2>3. events'[Len(events')].body = body /\ \A n \in 1 .. seq : Own(n)' = Own(n)
    BY <2>1, EmitOwn DEF AtExitOnly
  <2>4. \A k \in 1 .. Len(hist') : Tells(k + 1, Own(k + 1), hist[k])'
    BY <1>2, <2>1, <2>3 DEF targetVars
  <2>5. ASSUME tstate = "exitstop"
        PROVE  Tells(seq + 1, body, Observation(call, ret, mem))
    <3>1. /\ entry = call
          /\ seq + 1 \notin missed => shown = ret
          /\ seq + 1 \notin missed /\ PayloadsReadable /\ RefsFit /\ active # 0 /\ items[active].payload_ref.length > 0
               => items[active].payload_ref.sha256 = Observation(call, ret, mem).data
      BY <2>1, <2>5 DEF SameCall, ToTell, Control
    <3>2. EmittedRef.length > 0 =>
            /\ active # 0 /\ items[active].payload_ref.length > 0
            /\ EmittedRef.sha256 = items[active].payload_ref.sha256
      <4>1. CASE active = 0 \/ items[active].payload_ref.length = 0
        <5>1. EmittedRef.length = 0
          BY <4>1, EmptySeq DEF EmittedRef, NoRef, Ref
        <5> QED
          BY <5>1
      <4>2. CASE ~(active = 0 \/ items[active].payload_ref.length = 0)
        <5>1. active \in 1 .. Len(items) /\ items \in Seq(BodyType)
          BY <4>2 DEF TypeOK
        <5>2. items[active].payload_ref \in RefType
          <6>1. items[active] \in BodyType
            BY <5>1, ElementOfSeq
          <6> QED
            BY <6>1 DEF BodyType
        <5>3. EmittedRef = [items[active].payload_ref EXCEPT !.offset = Len(payload)]
          BY <4>2 DEF EmittedRef
        <5> QED
          BY <4>2, <5>2, <5>3 DEF RefType
      <4> QED
        BY <4>1, <4>2
    <3>3. Observation(call, ret, mem).call = call /\ Observation(call, ret, mem).ret = ret
      BY DEF Observation
    <3> QED
      BY <2>2, <3>1, <3>2, <3>3 DEF Tells
  <2>6. tstate' = "exitstop" => Tells(seq, events[Len(events)].body, Observation(call, ret, mem))'
    <3>1. seq' = seq + 1 /\ missed' = missed
      BY <1>12, <2>1 DEF EmitSyscall, Emit, historyVars
    <3> QED
      BY <1>0, <2>1, <2>3, <2>5, <3>1 DEF Tells, PayloadsReadable, RefsFit, targetVars
  <2> QED
    BY <2>4, <2>6 DEF ToldSoFar
<1>13. CASE TargetMoves
  <2>1. /\ hist' = hist /\ seq' = seq /\ events' = events /\ pc' = pc
        /\ pc = "resume" => tstate' # "exitstop"
    BY <1>13
    DEF TargetMoves, TargetNext, TargetRuns, EnterSyscall, KernelReturns, Exits, FaultStops,
        SignalStops, Interrupts, Killed, Control, Stopped, Alive, diskVars, writerVars
  <2> QED
    BY <1>3, <2>1
<1>14. CASE UNCHANGED vars
  BY <1>3, <1>14 DEF vars, targetVars, diskVars, writerVars
<1> QED
  BY <1>4, <1>5, <1>6, <1>7, <1>8, <1>9, <1>10, <1>11, <1>12, <1>13, <1>14
  DEF Next, ReplayerStep

\* The inductive invariant, which nothing is asked of the recording for.
LinesInv ==
  /\ TypeOK /\ Pending /\ Control /\ AtExitOnly
  /\ FromTrace /\ SameCall /\ ToTell /\ Counts /\ ToldSoFar

LEMMA LinesInvariant == Spec => [](LinesInv /\ InCall)
<1>1. Init => LinesInv /\ InCall
  <2> SUFFICES ASSUME Init
               PROVE  LinesInv /\ InCall
    OBVIOUS
  <2>1. TypeOK /\ Pending
    BY InitBegins, InitTyped
  <2>2. /\ pc = "load" /\ tstate = "none" /\ hist = << >> /\ seq = 0 /\ cursor = 0
        /\ ~in_syscall /\ items = << >>
    BY DEF Init, TargetInit
  <2>3. Len(hist) = 0 /\ Len(items) = 0 /\ Len(events) \in Nat
    BY <2>1, <2>2, EmptySeq, LenProperties DEF TypeOK
  <2>4. Control /\ InCall /\ AtExitOnly
    BY <2>2, <2>3 DEF Control, InCall, AtExitOnly, Exited
  <2>5. FromTrace /\ SameCall /\ ToTell /\ Counts /\ ToldSoFar
    BY <2>2, <2>3 DEF FromTrace, SameCall, ToTell, Counts, ToldSoFar, Exited
  <2> QED
    BY <2>1, <2>4, <2>5 DEF LinesInv
<1>2. LinesInv /\ InCall /\ [Next]_vars => LinesInv' /\ InCall'
  BY TypeStep, PendingStep, ControlStep, InCallStep, AtExitOnlyStep, FromTraceStep, SameCallStep,
     ToTellStep, CountsStep, ToldStep
  DEF LinesInv
<1> QED
  BY <1>1, <1>2, PTL DEF Spec

\* The replay's own trace tells what the program observed, syscall by syscall, also when it
\* strays from the recording, and the results and bytes too where the injection reached the
\* program; a program that exits left a line for every result and no other.
THEOREM ReplayerLinesMatch == Spec => []LinesMatchHistory
<1>1. LinesInv => LinesMatchHistory
  <2> SUFFICES ASSUME LinesInv, PayloadsReadable, RefsFit
               PROVE  /\ \A k \in DOMAIN hist :
                           LET body == OwnLines[k + 1].body
                           IN  /\ << body.etype, body.name >> = << "SYSCALL", hist[k].call >>
                               /\ k + 1 \notin missed =>
                                    /\ body.ret = hist[k].ret
                                    /\ body.payload_ref.length > 0
                                         => body.payload_ref.sha256 = hist[k].data
                      /\ Exited => seq = Len(hist) + 2
    BY DEF LinesMatchHistory
  <2>1. Exited => seq = Len(hist) + 2
    BY DEF LinesInv, Counts
  <2>2. ASSUME NEW k \in DOMAIN hist
        PROVE  LET body == OwnLines[k + 1].body
               IN  /\ << body.etype, body.name >> = << "SYSCALL", hist[k].call >>
                   /\ k + 1 \notin missed =>
                        /\ body.ret = hist[k].ret
                        /\ body.payload_ref.length > 0 => body.payload_ref.sha256 = hist[k].data
    <3>1. k \in 1 .. Len(hist) /\ Len(hist) \in Nat /\ hist # << >>
      BY <2>2, LenProperties, EmptySeq DEF LinesInv, TypeOK, TargetTypeOK
    <3>2. Tells(k + 1, Own(k + 1), hist[k])
      BY <3>1 DEF LinesInv, ToldSoFar
    <3>3. /\ events \in Seq(LineType) /\ Len(events) \in Nat /\ seq \in Nat
          /\ seq <= Len(events) /\ seq >= Len(hist) + 1
      BY <3>1, LenProperties DEF LinesInv, TypeOK, AtExitOnly, Counts
    <3>4. OwnLines[k + 1].body = Own(k + 1)
      <4> DEFINE a == Len(events) - seq + 1
      <4>1. a \in 1 .. Len(events) /\ k + 1 \in 1 .. Len(events) - a + 1
            /\ a + (k + 1) - 1 = Len(events) - seq + (k + 1)
        BY <3>1, <3>3
      <4>2. \A i \in a .. Len(events) : events[i] \in LineType
        BY <3>3, <4>1, ElementOfSeq
      <4> HIDE DEF a
      <4>3. SubSeq(events, a, Len(events))[k + 1] = events[a + (k + 1) - 1]
        BY <3>3, <4>1, <4>2, SubSeqProperties
      <4> QED
        BY <4>1, <4>3 DEF OwnLines, Own, a
    <3> QED
      BY <3>2, <3>4 DEF Tells
  <2> QED
    BY <2>1, <2>2
<1> QED
  BY <1>1, LinesInvariant, PTL

(***************************************************************************)
(* The recorded results that are spent.                                     *)
(***************************************************************************)
Pair(body) == << body.name, body.payload_ref.sha256 >>
Pairs == {Pair(body) : body \in BodyType}

\* f[k] is what Payloads tells of the first k bodies.
PaidTo(f, es) ==
  /\ f[0] = << >>
  /\ \A k \in 1 .. Len(es) :
       f[k] = IF es[k].payload_ref.length > 0 THEN Append(f[k - 1], Pair(es[k])) ELSE f[k - 1]

LEMMA PaidSame ==
  ASSUME NEW n \in Nat, NEW f, NEW g, NEW es, NEW fs,
         n <= Len(es), n <= Len(fs), Len(es) \in Nat, Len(fs) \in Nat,
         PaidTo(f, es), PaidTo(g, fs), \A k \in 1 .. n : es[k] = fs[k]
  PROVE  f[n] = g[n]
<1> DEFINE T == {k \in 0 .. n : f[k] # g[k]}
<1>1. ASSUME T # {}
      PROVE  FALSE
  <2>1. T \in SUBSET Nat
    OBVIOUS
  <2>2. PICK k \in T : \A m \in T : k <= m
    <3> HIDE DEF T
    <3> QED
      BY <1>1, <2>1, Least
  <2>3. k \in 1 .. n /\ k - 1 \in 0 .. n /\ ~(k <= k - 1)
    BY <2>2 DEF PaidTo
  <2>4. f[k - 1] = g[k - 1]
    BY <2>2, <2>3
  <2>5. k \in 1 .. Len(es) /\ k \in 1 .. Len(fs) /\ es[k] = fs[k]
    BY <2>3
  <2>6. f[k] = g[k]
    BY <2>4, <2>5 DEF PaidTo
  <2> QED
    BY <2>2, <2>6
<1> QED
  BY <1>1

LEMMA PayloadsPaid ==
  ASSUME NEW es \in Seq(BodyType)
  PROVE  \E f \in [0 .. Len(es) -> Seq(Pairs)] : PaidTo(f, es) /\ Payloads(es) = f[Len(es)]
<1> DEFINE n == Len(es)
           After(u, k) == IF es[k].payload_ref.length > 0 THEN Append(u, Pair(es[k])) ELSE u
           Up(u) == u = [k \in 0 .. n |->
                           IF k = 0 THEN << >>
                           ELSE IF es[k].payload_ref.length > 0
                           THEN Append(u[k - 1], << es[k].name, es[k].payload_ref.sha256 >>)
                           ELSE u[k - 1]]
           up == CHOOSE u : Up(u)
           Step == [x \in Seq(Pairs) \X (1 .. n) |-> After(x[1], x[2])]
<1>0. n \in Nat /\ << >> \in Seq(Pairs) /\ \A k \in 1 .. n : Pair(es[k]) \in Pairs
  BY LenProperties, EmptySeq, ElementOfSeq DEF Pairs
<1>1. Step \in [Seq(Pairs) \X (1 .. n) -> Seq(Pairs)]
  <2>1. \A u \in Seq(Pairs), k \in 1 .. n : After(u, k) \in Seq(Pairs)
    BY <1>0, AppendProperties
  <2> HIDE DEF After
  <2> QED
    BY <2>1
<1>2. PICK f \in [0 .. n -> Seq(Pairs)] : Runs(f, << >>, n, Step)
  <2> HIDE DEF n, Step
  <2> QED
    BY <1>0, <1>1, StepByStep
<1>3. \A k \in 1 .. n : f[k] = After(f[k - 1], k)
  <2> SUFFICES ASSUME NEW k \in 1 .. n
               PROVE  f[k] = After(f[k - 1], k)
    OBVIOUS
  <2> HIDE DEF After
  <2>1. k - 1 \in 0 .. n
    BY <1>0
  <2>2. << f[k - 1], k >> \in Seq(Pairs) \X (1 .. n)
    BY <2>1
  <2>3. Step[<< f[k - 1], k >>] = After(f[k - 1], k)
    BY <2>2
  <2> QED
    BY <1>2, <2>3 DEF Runs
<1> HIDE DEF Step
<1>4. Up(f)
  <2>1. \A k \in 0 .. n : k # 0 => k \in 1 .. n
    BY <1>0
  <2>2. \A k \in 0 .. n : f[k] = IF k = 0 THEN << >>
                                 ELSE IF es[k].payload_ref.length > 0
                                 THEN Append(f[k - 1], << es[k].name, es[k].payload_ref.sha256 >>)
                                 ELSE f[k - 1]
    BY <1>2, <1>3, <2>1 DEF Runs, Pair
  <2> QED
    BY <2>2
<1>5. Up(up)
  <2> HIDE DEF Up
  <2> QED
    BY <1>4
<1>6. Payloads(es) = up[n]
  BY DEF Payloads
<1> HIDE DEF up
<1>7. PaidTo(up, es)
  <2>1. \A k \in 0 .. n : up[k] = IF k = 0 THEN << >>
                                  ELSE IF es[k].payload_ref.length > 0
                                  THEN Append(up[k - 1], << es[k].name, es[k].payload_ref.sha256 >>)
                                  ELSE up[k - 1]
    BY <1>5
  <2>2. 0 \in 0 .. n /\ \A k \in 1 .. n : k \in 0 .. n /\ k # 0
    BY <1>0
  <2> HIDE DEF Up
  <2> QED
    BY <2>1, <2>2 DEF PaidTo, Pair
<1>8. PaidTo(f, es)
  BY <1>2, <1>3 DEF Runs, PaidTo
<1>9. up[n] = f[n]
  <2> HIDE DEF Up
  <2> QED
    BY <1>0, <1>7, <1>8, PaidSame
<1> QED
  BY <1>6, <1>8, <1>9

\* Payloads, one body at a time.
LEMMA PayloadsAppend ==
  ASSUME NEW es \in Seq(BodyType), NEW b \in BodyType
  PROVE  /\ Payloads(es) \in Seq(Pairs)
         /\ Payloads(Append(es, b)) =
              IF b.payload_ref.length > 0 THEN Append(Payloads(es), Pair(b)) ELSE Payloads(es)
<1> DEFINE fs == Append(es, b)
<1>1. /\ fs \in Seq(BodyType) /\ Len(fs) = Len(es) + 1 /\ Len(es) \in Nat
      /\ fs[Len(es) + 1] = b /\ \A k \in 1 .. Len(es) : fs[k] = es[k]
  BY AppendProperties, LenProperties
<1> HIDE DEF fs
<1>2. PICK f \in [0 .. Len(es) -> Seq(Pairs)] : PaidTo(f, es) /\ Payloads(es) = f[Len(es)]
  BY PayloadsPaid
<1>3. PICK g \in [0 .. Len(fs) -> Seq(Pairs)] : PaidTo(g, fs) /\ Payloads(fs) = g[Len(fs)]
  BY <1>1, PayloadsPaid
<1>4. f[Len(es)] = g[Len(es)]
  <2>1. /\ Len(es) \in Nat /\ Len(fs) \in Nat /\ Len(es) <= Len(es) /\ Len(es) <= Len(fs)
        /\ PaidTo(f, es) /\ PaidTo(g, fs) /\ \A k \in 1 .. Len(es) : es[k] = fs[k]
    BY <1>1, <1>2, <1>3
  <2> QED
    BY <2>1, PaidSame
<1>5. Len(fs) \in 1 .. Len(fs) /\ Len(fs) - 1 = Len(es) /\ fs[Len(fs)] = b
  BY <1>1
<1>6. g[Len(fs)] = IF b.payload_ref.length > 0 THEN Append(g[Len(es)], Pair(b)) ELSE g[Len(es)]
  BY <1>3, <1>5 DEF PaidTo
<1>7. Payloads(es) \in Seq(Pairs)
  BY <1>1, <1>2
<1> QED
  BY <1>2, <1>3, <1>4, <1>6, <1>7 DEF fs

LEMMA PayloadsNone == Payloads(<< >>) = << >>
<1>1. << >> \in Seq(BodyType) /\ Len(<< >>) = 0
  BY EmptySeq
<1>2. PICK f : PaidTo(f, << >>) /\ Payloads(<< >>) = f[0]
  BY <1>1, PayloadsPaid
<1> QED
  BY <1>2 DEF PaidTo

\* The bodies of the lines this replayer wrote.
OwnBodies == [i \in DOMAIN OwnLines |-> OwnLines[i].body]

OwnFormed ==
  /\ DOMAIN OwnLines = 1 .. seq
  /\ OwnBodies \in Seq(BodyType) /\ Len(OwnBodies) = seq
  /\ \A n \in 1 .. seq : OwnBodies[n] = Own(n) /\ OwnLines[n].body = Own(n)
InFile == seq <= Len(events)

LEMMA OwnBodiesAre == TypeOK /\ InFile => OwnFormed
<1> SUFFICES ASSUME TypeOK, seq <= Len(events)
             PROVE  /\ DOMAIN OwnLines = 1 .. seq
                    /\ OwnBodies \in Seq(BodyType) /\ Len(OwnBodies) = seq
                    /\ \A n \in 1 .. seq : OwnBodies[n] = Own(n) /\ OwnLines[n].body = Own(n)
  BY DEF OwnFormed, InFile
<1> DEFINE a == Len(events) - seq + 1
<1>1. events \in Seq(LineType) /\ Len(events) \in Nat /\ seq \in Nat
  BY LenProperties DEF TypeOK
<1>2. a \in Int /\ a <= Len(events) + 1 /\ Len(events) - a + 1 = seq /\ a >= 1
  BY <1>1
<1>3. \A i \in a .. Len(events) : events[i] \in LineType
  BY <1>1, <1>2, ElementOfSeq
<1>4. \A n \in 1 .. seq : a + n - 1 = Len(events) - seq + n /\ a + n - 1 \in a .. Len(events)
  BY <1>1
<1> HIDE DEF a
<1>5. /\ OwnLines \in Seq(LineType) /\ Len(OwnLines) = seq
      /\ \A n \in 1 .. seq : OwnLines[n] = events[a + n - 1]
  BY <1>1, <1>2, <1>3, SubSeqProperties DEF OwnLines, a
<1>6. DOMAIN OwnLines = 1 .. seq
  BY <1>5, LenProperties
<1>7. \A n \in 1 .. seq : OwnLines[n].body = Own(n) /\ Own(n) \in BodyType
  BY <1>3, <1>4, <1>5 DEF Own, LineType
<1>8. OwnBodies = [n \in 1 .. seq |-> Own(n)]
  BY <1>6, <1>7 DEF OwnBodies
<1>9. [n \in 1 .. seq |-> Own(n)] \in Seq(BodyType)
  BY <1>1, <1>7, IsASeq
<1> QED
  BY <1>1, <1>6, <1>7, <1>8, <1>9, LenProperties

\* emit_line adds its body to them.
LEMMA OwnBodiesGrow ==
  ASSUME TypeOK, TypeOK', seq <= Len(events), NEW body \in BodyType, body.seq = seq + 1, Emit(body)
  PROVE  OwnBodies' = Append(OwnBodies, body)
<1>1. /\ events'[Len(events')].body = body
      /\ \A n \in 1 .. seq : Own(n)' = Own(n)
  BY EmitOwn
<1>2. /\ seq' = seq + 1 /\ seq \in Nat /\ Len(events) \in Nat
      /\ Len(events') = Len(events) + 1
  <2>1. Line(prev_hash, body) \in LineType
    BY DEF Line, LineType, TypeOK, HashType
  <2> QED
    BY <2>1, LenProperties, AppendProperties DEF TypeOK, Emit
<1>3. /\ OwnBodies \in Seq(BodyType) /\ Len(OwnBodies) = seq
      /\ \A n \in 1 .. seq : OwnBodies[n] = Own(n)
  BY OwnBodiesAre DEF InFile, OwnFormed
<1>4. /\ OwnBodies' \in Seq(BodyType) /\ Len(OwnBodies') = seq'
      /\ \A n \in 1 .. seq' : OwnBodies'[n] = Own(n)'
  <2>1. InFile'
    BY <1>2 DEF InFile
  <2>2. (TypeOK /\ InFile)' => OwnFormed'
    BY OwnBodiesAre, PTL
  <2> QED
    BY <2>1, <2>2 DEF OwnFormed
<1>5. \A n \in 1 .. seq' : n = seq + 1 => Own(n)' = body
  <2>1. Len(events') - seq' + (seq + 1) = Len(events')
    BY <1>2
  <2> QED
    BY <1>1, <2>1 DEF Own
<1>6. \A n \in 1 .. seq' : OwnBodies'[n] = Append(OwnBodies, body)[n]
  <2> SUFFICES ASSUME NEW n \in 1 .. seq'
               PROVE  OwnBodies'[n] = Append(OwnBodies, body)[n]
    OBVIOUS
  <2>1. CASE n = seq + 1
    BY <1>2, <1>3, <1>4, <1>5, <2>1, AppendProperties
  <2>2. CASE n # seq + 1
    <3>1. n \in 1 .. seq
      BY <1>2, <2>2
    <3> QED
      BY <1>1, <1>3, <1>4, <3>1, AppendProperties
  <2> QED
    BY <2>1, <2>2
<1>7. Append(OwnBodies, body) \in Seq(BodyType) /\ Len(Append(OwnBodies, body)) = seq'
  BY <1>2, <1>3, AppendProperties
<1> QED
  BY <1>4, <1>6, <1>7, SeqEqual

\* The payloads of the first n recorded results.
Spent(n) == Payloads(SubSeq(items, 1, n))

LEMMA SpentNext ==
  ASSUME TypeOK, NEW n \in 1 .. Len(items)
  PROVE  /\ Spent(n - 1) \in Seq(Pairs)
         /\ Spent(n) = IF items[n].payload_ref.length > 0
                       THEN Append(Spent(n - 1), Pair(items[n])) ELSE Spent(n - 1)
<1>1. items \in Seq(BodyType) /\ Len(items) \in Nat /\ items[n] \in BodyType
  BY LenProperties, ElementOfSeq DEF TypeOK
<1>2. \A k \in 1 .. n : items[k] \in BodyType
  BY <1>1, ElementOfSeq
<1> DEFINE before == SubSeq(items, 1, n - 1)
           upto == SubSeq(items, 1, n)
<1>3. /\ before \in Seq(BodyType) /\ Len(before) = n - 1
      /\ \A k \in 1 .. n - 1 : before[k] = items[k]
  BY <1>1, <1>2, SubSeqProperties
<1>4. /\ upto \in Seq(BodyType) /\ Len(upto) = n
      /\ \A k \in 1 .. n : upto[k] = items[k]
  BY <1>1, <1>2, SubSeqProperties
<1> HIDE DEF before, upto
<1>5. /\ Append(before, items[n]) \in Seq(BodyType) /\ Len(Append(before, items[n])) = n
      /\ \A k \in 1 .. n : Append(before, items[n])[k] = items[k]
  <2>1. \A k \in 1 .. n : k = n \/ k \in 1 .. n - 1
    OBVIOUS
  <2> QED
    BY <1>1, <1>3, <2>1, AppendProperties
<1>6. upto = Append(before, items[n])
  BY <1>4, <1>5, SeqEqual
<1> QED
  BY <1>1, <1>3, <1>6, PayloadsAppend DEF Spent, before, upto

\* The lines tell what was spent, but for the result between the injection and its line.
Owing == pc = "emit" /\ active # 0
SpentSoFar ==
  /\ Owing => active = cursor
  /\ Owing => Payloads(OwnBodies) = Spent(cursor - 1)
  /\ ~Owing => \/ Payloads(OwnBodies) = Spent(cursor)
               \/ pc = "crashed" /\ cursor # 0 /\ Payloads(OwnBodies) = Spent(cursor - 1)

LEMMA SpentStep ==
  ASSUME TypeOK, TypeOK', Pending, Control, AtExitOnly, FromTrace, SameCall, SpentSoFar,
         [Next]_vars
  PROVE  SpentSoFar'
<1>0. /\ Len(items) \in Nat /\ seq \in Nat /\ cursor \in 0 .. Len(items) /\ active \in 0 .. Len(items)
      /\ OwnBodies \in Seq(BodyType) /\ NoRef.length = 0
  BY LenProperties, OwnBodiesAre, EmptySeq
  DEF TypeOK, AtExitOnly, NoRef, Ref, InFile, OwnFormed
<1>1. ASSUME events' = events, seq' = seq, items' = items
      PROVE  OwnBodies' = OwnBodies /\ \A n : Spent(n)' = Spent(n)
  BY <1>1 DEF OwnBodies, OwnLines, Spent
<1>2. ASSUME ~Owing, NEW name \in ProcessNames, EmitProcess(name), items' = items, cursor' = cursor,
             pc # "crashed", pc' # "emit"
      PROVE  SpentSoFar'
  <2> DEFINE body == ProcessBody(name, seq + 1)
  <2>1. body \in BodyType /\ body.seq = seq + 1 /\ body.payload_ref = NoRef
    BY <1>0, BodiesInType DEF ProcessBody, Body
  <2>2. OwnBodies' = Append(OwnBodies, body)
    BY <1>2, <2>1, OwnBodiesGrow DEF EmitProcess, AtExitOnly
  <2>3. Payloads(OwnBodies') = Payloads(OwnBodies)
    BY <1>0, <2>1, <2>2, PayloadsAppend
  <2> QED
    BY <1>2, <2>3 DEF SpentSoFar, Owing, Spent
<1>3. CASE LoadLine
  <2>1. /\ events' = events /\ seq' = seq /\ cursor' = cursor /\ cursor = 0
        /\ pc = "load" /\ pc' = "load"
    BY <1>3 DEF LoadLine, Control, diskVars, writerVars, loopVars, historyVars
  <2>2. SubSeq(items, 1, 0) = << >> /\ SubSeq(items', 1, 0) = << >>
    BY SubSeqEmpty DEF TypeOK
  <2>3. OwnBodies' = OwnBodies /\ Spent(0)' = Spent(0)
    BY <2>1, <2>2 DEF OwnBodies, OwnLines, Spent
  <2> QED
    BY <2>1, <2>3 DEF SpentSoFar, Owing
<1>4. CASE Loaded \/ TargetUnknown \/ StartFails \/ PtraceFails \/ Close \/ Fork \/ Resume
           \/ WaitSignalStop \/ WaitSyscallStop \/ AtEntry \/ WriteResult \/ WriteResultFails
  <2>1. /\ events' = events /\ seq' = seq /\ items' = items /\ cursor' = cursor
        /\ pc \notin {"emit", "crashed"} /\ pc' # "emit"
    BY <1>4
    DEF Loaded, TargetUnknown, StartFails, PtraceFails, Close, Fork, Resume, WaitSignalStop,
        WaitSyscallStop, AtEntry, WriteResult, WriteResultFails, diskVars, loadVars, writerVars,
        loopVars, historyVars
  <2> QED
    BY <1>1, <2>1 DEF SpentSoFar, Owing
<1>5. CASE Crash
  <2>1. /\ events' = events /\ seq' = seq /\ items' = items /\ cursor' = cursor
        /\ active' = active /\ pc' = "crashed" /\ pc # "crashed"
    BY <1>5 DEF Crash, Active, diskVars, loadVars, writerVars, loopVars, historyVars
  <2> QED
    BY <1>1, <2>1 DEF SpentSoFar, Owing
<1>6. CASE Attach
  <2>1. ~Owing /\ EmitProcess("program_start") /\ items' = items /\ cursor' = cursor
        /\ pc # "crashed" /\ pc' # "emit"
    BY <1>6 DEF Attach, Owing, loadVars, loopVars, historyVars
  <2> QED
    BY <1>2, <2>1 DEF ProcessNames
<1>7. CASE WaitDeath
  <2>1. PICK name \in ProcessNames : EmitProcess(name)
    BY <1>7 DEF WaitDeath, ProcessNames
  <2>2. ~Owing /\ items' = items /\ cursor' = cursor /\ pc # "crashed" /\ pc' # "emit"
    BY <1>7 DEF WaitDeath, Owing, loadVars, loopVars, historyVars
  <2> QED
    BY <1>2, <2>1, <2>2
<1>8. CASE AtExit
  <2>1. /\ events' = events /\ seq' = seq /\ items' = items /\ cursor' = cursor
        /\ active' = active /\ pc = "stopped" /\ pc' = IF active = 0 THEN "emit" ELSE "inject"
    BY <1>8 DEF AtExit, diskVars, loadVars, writerVars
  <2> QED
    BY <1>1, <2>1 DEF SpentSoFar, Owing
<1>9. CASE Inject \/ InjectFails
  <2>1. /\ events' = events /\ seq' = seq /\ items' = items /\ cursor' = cursor + 1
        /\ active' = active /\ pc = "inject" /\ pc' = "emit"
    BY <1>9 DEF Inject, InjectFails, Consume, diskVars, loadVars, writerVars
  <2>2. active = cursor + 1 /\ (cursor + 1) - 1 = cursor
    BY <1>0, <2>1 DEF Pending, Chose
  <2> QED
    <3>1. Payloads(OwnBodies) = Spent(cursor) /\ OwnBodies' = OwnBodies /\ Owing' /\ active' = cursor'
      BY <1>1, <2>1, <2>2, <1>0 DEF SpentSoFar, Owing
    <3>2. Spent(cursor - 1)' = Spent(cursor)
      BY <2>1, <2>2 DEF Spent
    <3> QED
      BY <3>1, <3>2 DEF SpentSoFar
<1>10. CASE EmitSyscall
  <2> DEFINE body == SyscallBody(entry, seq + 1, shown, EmittedRef)
  <2>1. /\ Emit(body) /\ items' = items /\ cursor' = cursor /\ pc = "emit" /\ pc' = "resume"
        /\ in_syscall
    BY <1>10 DEF EmitSyscall, loadVars, Control
  <2>2. EmittedRef \in RefType
    <3>1. CASE active = 0 \/ items[active].payload_ref.length = 0
      BY <3>1, NoRefInType DEF EmittedRef
    <3>2. CASE active # 0 /\ items[active].payload_ref.length # 0
      <4>1. items[active] \in BodyType /\ Len(payload) \in Nat
        BY <1>0, <3>2, ElementOfSeq, LenProperties DEF TypeOK
      <4> QED
        BY <3>2, <4>1 DEF EmittedRef, BodyType, RefType
    <3> QED
      BY <3>1, <3>2
  <2>3. body \in BodyType /\ body.seq = seq + 1 /\ body.payload_ref = EmittedRef /\ body.name = entry
    <3>1. seq + 1 \in Nat /\ entry \in Calls /\ shown \in Int
      BY <1>0 DEF TypeOK
    <3>2. body \in BodyType
      BY <2>2, <3>1, BodiesInType
    <3>3. body.seq = seq + 1 /\ body.payload_ref = EmittedRef /\ body.name = entry
      BY DEF SyscallBody, Body
    <3> QED
      BY <3>2, <3>3
  <2>4. OwnBodies' = Append(OwnBodies, body)
    BY <2>1, <2>3, OwnBodiesGrow DEF AtExitOnly
  <2>5. Payloads(OwnBodies') = IF EmittedRef.length > 0 THEN Append(Payloads(OwnBodies), Pair(body))
                               ELSE Payloads(OwnBodies)
    BY <1>0, <2>3, <2>4, PayloadsAppend
  <2>6. ~Owing' /\ Spent(cursor)' = Spent(cursor)
    BY <2>1 DEF Owing, Spent
  <2>7. CASE active = 0
    BY <1>0, <2>1, <2>5, <2>6, <2>7 DEF SpentSoFar, Owing, EmittedRef
  <2>8. CASE active # 0
    <3>1. active = cursor /\ Payloads(OwnBodies) = Spent(cursor - 1) /\ cursor \in 1 .. Len(items)
      BY <1>0, <2>1, <2>8 DEF SpentSoFar, Owing
    <3>2. Spent(cursor) = IF items[cursor].payload_ref.length > 0
                          THEN Append(Spent(cursor - 1), Pair(items[cursor])) ELSE Spent(cursor - 1)
      BY <3>1, SpentNext
    <3>3. items[active].name = entry
      BY <2>1, <2>8 DEF SameCall
    <3>4. items[active] \in BodyType
      BY <1>0, <2>8, ElementOfSeq DEF TypeOK
    <3>5. CASE items[active].payload_ref.length = 0
      BY <1>0, <2>5, <2>6, <3>1, <3>2, <3>5, <2>1 DEF SpentSoFar, EmittedRef
    <3>6. CASE items[active].payload_ref.length # 0
      <4>1. EmittedRef.length = items[active].payload_ref.length
            /\ EmittedRef.sha256 = items[active].payload_ref.sha256
            /\ items[active].payload_ref.length > 0
        BY <2>8, <3>4, <3>6 DEF EmittedRef, BodyType, RefType
      <4>2. Pair(body) = Pair(items[cursor])
        BY <2>3, <3>1, <3>3, <4>1 DEF Pair
      <4> QED
        BY <2>1, <2>5, <2>6, <3>1, <3>2, <4>1, <4>2 DEF SpentSoFar
    <3> QED
      BY <3>5, <3>6
  <2> QED
    BY <2>7, <2>8
<1>11. CASE TargetMoves \/ UNCHANGED vars
  <2>1. /\ events' = events /\ seq' = seq /\ items' = items /\ cursor' = cursor
        /\ active' = active /\ pc' = pc
    BY <1>11 DEF TargetMoves, vars, diskVars, loadVars, writerVars, loopVars, historyVars
  <2> QED
    BY <1>1, <2>1 DEF SpentSoFar, Owing
<1> QED
  BY <1>3, <1>4, <1>5, <1>6, <1>7, <1>8, <1>9, <1>10, <1>11 DEF Next, ReplayerStep

\* The payloads in the replay's own lines are those of the recorded results that were spent,
\* in their order, none twice and none left out, whatever the program does with them.
THEOREM ReplayerSpentInOrder == Spec => []SpentInOrder
<1> DEFINE I == LinesInv /\ SpentSoFar
<1>1. Init => SpentSoFar
  <2> SUFFICES ASSUME Init
               PROVE  SpentSoFar
    OBVIOUS
  <2>1. pc = "load" /\ seq = 0 /\ cursor = 0 /\ items = << >> /\ TypeOK /\ Len(events) \in Nat
    BY InitBegins, InitTyped, LenProperties DEF Init, TypeOK
  <2>2. OwnBodies \in Seq(BodyType) /\ Len(OwnBodies) = 0
    BY <2>1, OwnBodiesAre DEF InFile, OwnFormed
  <2>3. OwnBodies = << >> /\ SubSeq(items, 1, 0) = << >>
    BY <2>1, <2>2, EmptySeq, SubSeqEmpty DEF TypeOK
  <2> QED
    BY <2>1, <2>3 DEF SpentSoFar, Owing, Spent
<1>2. LinesInv /\ LinesInv' /\ SpentSoFar /\ [Next]_vars => SpentSoFar'
  BY SpentStep DEF LinesInv
<1>3. LinesInv /\ SpentSoFar => SpentInOrder
  <2> SUFFICES ASSUME LinesInv, SpentSoFar
               PROVE  /\ IsPrefix(Payloads(OwnBodies), Spent(cursor))
                      /\ pc \notin {"emit", "crashed"} => Payloads(OwnBodies) = Spent(cursor)
    BY DEF SpentInOrder, OwnBodies, Spent
  <2>1. /\ TypeOK /\ Len(items) \in Nat /\ cursor \in 0 .. Len(items) /\ active \in 0 .. Len(items)
        /\ OwnBodies \in Seq(BodyType) /\ seq <= Len(events)
    BY LenProperties, OwnBodiesAre DEF LinesInv, TypeOK, AtExitOnly, InFile, OwnFormed
  <2>2. NoRef \in RefType /\ Payloads(OwnBodies) \in Seq(Pairs)
    <3>1. ProcessBody("program_start", 0) \in BodyType
      BY BodiesInType DEF ProcessNames
    <3> QED
      BY <2>1, <3>1, NoRefInType, PayloadsAppend
  <2>3. CASE Payloads(OwnBodies) = Spent(cursor)
    BY <2>2, <2>3, BeginsWith, LenProperties
  <2>4. CASE cursor # 0 /\ Payloads(OwnBodies) = Spent(cursor - 1) /\ pc \in {"emit", "crashed"}
    <3> DEFINE s == Spent(cursor - 1)
               t == Spent(cursor)
               p == Pair(items[cursor])
    <3>1. /\ s \in Seq(Pairs) /\ Len(s) \in Nat
          /\ t = IF items[cursor].payload_ref.length > 0 THEN Append(s, p) ELSE s
      <4>1. cursor \in 1 .. Len(items)
        BY <2>1, <2>4
      <4> QED
        BY <2>1, <4>1, SpentNext, LenProperties
    <3>2. p \in Pairs
      <4>1. cursor \in 1 .. Len(items) /\ items \in Seq(BodyType)
        BY <2>1, <2>4 DEF TypeOK
      <4>2. items[cursor] \in BodyType
        BY <4>1, ElementOfSeq
      <4> QED
        BY <4>2 DEF Pairs
    <3> HIDE DEF s, t, p
    <3>3. t \in Seq(Pairs) /\ Len(s) <= Len(t) /\ \A k \in 1 .. Len(s) : s[k] = t[k]
      BY <3>1, <3>2, AppendProperties
    <3>4. IsPrefix(s, t)
      BY <3>1, <3>3, BeginsWith
    <3> QED
      BY <2>4, <3>4 DEF s, t
  <2>5. cursor # 0 \/ ~Owing
    BY <2>1 DEF Owing, SpentSoFar
  <2> QED
    BY <2>3, <2>4, <2>5 DEF SpentSoFar, Owing
<1> QED
  BY <1>1, <1>2, <1>3, LinesInvariant, PTL DEF Spec

(***************************************************************************)
(* The bytes of payload.bin.                                                *)
(***************************************************************************)
\* A reference of the replay, put at the beginning of its bytes.
Begin(ref) == [ref EXCEPT !.offset = ref.offset - ref.length]

\* k is where the bytes of the first n bodies end.
LastEnd(bodies, n, k) ==
  /\ \/ k = 0
     \/ \E m \in 1 .. n : bodies[m].payload_ref.length > 0 /\ bodies[m].payload_ref.offset = k
  /\ k >= 0
  /\ \A m \in 1 .. n : bodies[m].payload_ref.length > 0 => bodies[m].payload_ref.offset <= k

\* The bytes of the n-th body begin where those before it end.
Stands(bodies, bytes, n) ==
  LET ref == bodies[n].payload_ref
  IN  ref.length > 0 =>
        LastEnd(bodies, n - 1, ref.offset - ref.length) /\ Addresses(bytes, Begin(ref))

LEMMA BeginTyped ==
  ASSUME NEW ref \in RefType, ref.offset - ref.length >= 0
  PROVE  /\ Begin(ref) \in RefType
         /\ Begin(ref).offset = ref.offset - ref.length
         /\ Begin(ref).length = ref.length /\ Begin(ref).sha256 = ref.sha256
BY DEF Begin, RefType

LEMMA StandsLonger ==
  ASSUME NEW bodies \in Seq(BodyType), NEW n \in 1 .. Len(bodies),
         NEW bytes \in Seq(Byte), NEW more \in Seq(Byte), Stands(bodies, bytes, n)
  PROVE  Stands(bodies, bytes \o more, n)
<1> DEFINE ref == bodies[n].payload_ref
<1>1. ref \in RefType
  <2>1. bodies[n] \in BodyType
    BY ElementOfSeq, LenProperties
  <2> QED
    BY <2>1 DEF BodyType
<1>2. CASE ref.length > 0
  <2>1. ref.offset - ref.length >= 0 /\ Addresses(bytes, Begin(ref))
    BY <1>2 DEF Stands, LastEnd
  <2>2. Begin(ref) \in RefType
    BY <1>1, <2>1, BeginTyped
  <2>3. Addresses(bytes \o more, Begin(ref))
    BY <2>1, <2>2, AddressesGrow
  <2> QED
    BY <2>3 DEF Stands
<1>3. CASE ~(ref.length > 0)
  BY <1>3 DEF Stands
<1> QED
  BY <1>2, <1>3

\* Another body after them.
LEMMA StandsOneMore ==
  ASSUME NEW bodies \in Seq(BodyType), NEW b \in BodyType, NEW bytes,
         \A n \in 1 .. Len(bodies) : Stands(bodies, bytes, n),
         b.payload_ref.length > 0 =>
           /\ LastEnd(bodies, Len(bodies), b.payload_ref.offset - b.payload_ref.length)
           /\ Addresses(bytes, Begin(b.payload_ref))
  PROVE  LET all == Append(bodies, b)
         IN  /\ \A n \in 1 .. Len(all) : Stands(all, bytes, n)
             /\ \A k \in Nat : LastEnd(bodies, Len(bodies), k) /\ b.payload_ref.length = 0
                  => LastEnd(all, Len(all), k)
             /\ b.payload_ref.length > 0 => LastEnd(all, Len(all), b.payload_ref.offset)
<1> DEFINE all == Append(bodies, b)
           last == Len(bodies) + 1
<1>1. /\ all \in Seq(BodyType) /\ Len(all) = last /\ Len(bodies) \in Nat
      /\ all[last] = b /\ \A m \in 1 .. Len(bodies) : all[m] = bodies[m]
  BY AppendProperties, LenProperties
<1> HIDE DEF all
<1>2. \A n \in 0 .. Len(bodies) : \A k : LastEnd(all, n, k) <=> LastEnd(bodies, n, k)
  <2> SUFFICES ASSUME NEW n \in 0 .. Len(bodies), NEW k
               PROVE  LastEnd(all, n, k) <=> LastEnd(bodies, n, k)
    OBVIOUS
  <2>1. \A m \in 1 .. n : all[m] = bodies[m]
    BY <1>1
  <2> QED
    BY <2>1 DEF LastEnd
<1>3. \A m \in 1 .. last : m = last \/ m \in 1 .. Len(bodies)
  BY <1>1
<1>4. \A n \in 1 .. Len(all) : Stands(all, bytes, n)
  <2> SUFFICES ASSUME NEW n \in 1 .. Len(all)
               PROVE  Stands(all, bytes, n)
    OBVIOUS
  <2>1. n - 1 \in 0 .. Len(bodies)
    BY <1>1
  <2>2. CASE n = last
    BY <1>1, <1>2, <2>1, <2>2 DEF Stands
  <2>3. CASE n # last
    <3>1. n \in 1 .. Len(bodies)
      BY <1>1, <1>3, <2>3
    <3> QED
      BY <1>1, <1>2, <2>1, <3>1 DEF Stands
  <2> QED
    BY <2>2, <2>3
<1>5. b.payload_ref \in RefType
  BY DEF BodyType
<1>6. ASSUME NEW k \in Nat, LastEnd(bodies, Len(bodies), k), b.payload_ref.length = 0
      PROVE  LastEnd(all, Len(all), k)
  <2>1. \A m \in 1 .. last : all[m].payload_ref.length > 0
          => m \in 1 .. Len(bodies) /\ all[m] = bodies[m]
    BY <1>1, <1>3, <1>6
  <2>2. \A m \in 1 .. Len(bodies) : m \in 1 .. last /\ all[m] = bodies[m]
    BY <1>1
  <2> QED
    BY <1>1, <1>6, <2>1, <2>2 DEF LastEnd
<1>7. ASSUME b.payload_ref.length > 0
      PROVE  LastEnd(all, Len(all), b.payload_ref.offset)
  <2> DEFINE k == b.payload_ref.offset - b.payload_ref.length
  <2>1. b.payload_ref.offset \in Nat /\ b.payload_ref.length \in Nat /\ LastEnd(bodies, Len(bodies), k)
    BY <1>5, <1>7 DEF RefType
  <2>2. \A m \in 1 .. Len(bodies) : bodies[m].payload_ref.length > 0
          => bodies[m].payload_ref.offset \in Nat /\ bodies[m].payload_ref.offset <= k
    <3>1. \A m \in 1 .. Len(bodies) : bodies[m] \in BodyType
      BY ElementOfSeq, LenProperties
    <3> QED
      BY <2>1, <3>1 DEF LastEnd, BodyType, RefType
  <2>3. \A m \in 1 .. last : all[m].payload_ref.length > 0
          => all[m].payload_ref.offset <= b.payload_ref.offset
    <3> SUFFICES ASSUME NEW m \in 1 .. last, all[m].payload_ref.length > 0
                 PROVE  all[m].payload_ref.offset <= b.payload_ref.offset
      OBVIOUS
    <3>1. CASE m = last
      BY <1>1, <2>1, <3>1
    <3>2. CASE m # last
      <4>1. m \in 1 .. Len(bodies) /\ all[m] = bodies[m]
        BY <1>1, <1>3, <3>2
      <4> QED
        BY <2>1, <2>2, <4>1, <1>7
    <3> QED
      BY <3>1, <3>2
  <2>4. last \in 1 .. last
    BY <1>1
  <2> QED
    BY <1>1, <1>7, <2>1, <2>3, <2>4 DEF LastEnd
<1> QED
  BY <1>4, <1>6, <1>7 DEF all

\* The bytes were copied, the line is not yet written.
Copied == pc = "emit" /\ active # 0 /\ items[active].payload_ref.length > 0
CopiedFrom == Len(payload) - items[active].payload_ref.length

\* Every reference stands where its bytes end, in the file or, after a crash, in the file
\* there would be; between the copy and the line, the bytes of the reference to come are
\* the last.
AllStand(bytes) == \A n \in 1 .. seq : Stands(OwnBodies, bytes, n)
CutShort == \E whole \in Seq(Byte), n \in Nat : AllStand(whole) /\ payload = Take(whole, n)
BytesTold ==
  /\ IF pc = "crashed" THEN CutShort ELSE AllStand(payload)
  /\ pc \notin {"load", "failed", "crashed"} =>
       IF Copied
       THEN /\ LastEnd(OwnBodies, seq, CopiedFrom)
            /\ Addresses(payload, [items[active].payload_ref EXCEPT !.offset = CopiedFrom])
       ELSE LastEnd(OwnBodies, seq, Len(payload))

LEMMA BytesStep ==
  ASSUME LinesInv, TypeOK', PayloadsReadable, BytesTold, [Next]_vars, unsaved' = {}
  PROVE  BytesTold'
<1> USE DEF AllStand
<1>0. /\ Len(items) \in Nat /\ seq \in Nat /\ active \in 0 .. Len(items)
      /\ Len(payload) \in Nat /\ payload \in Seq(Byte)
      /\ OwnBodies \in Seq(BodyType) /\ Len(OwnBodies) = seq /\ NoRef.length = 0
  BY LenProperties, OwnBodiesAre, EmptySeq
  DEF LinesInv, TypeOK, AtExitOnly, NoRef, Ref, InFile, OwnFormed
<1>1. ASSUME events' = events, seq' = seq
      PROVE  OwnBodies' = OwnBodies
  BY <1>1 DEF OwnBodies, OwnLines
<1>2. ASSUME ~Copied, NEW name \in ProcessNames, EmitProcess(name), payload' = payload,
             pc \notin {"load", "failed", "crashed"}, pc' \notin {"emit", "crashed"}
      PROVE  BytesTold'
  <2> DEFINE body == ProcessBody(name, seq + 1)
  <2>1. body \in BodyType /\ body.seq = seq + 1 /\ body.payload_ref = NoRef
    BY <1>0, BodiesInType DEF ProcessBody, Body
  <2>2. OwnBodies' = Append(OwnBodies, body) /\ seq' = seq + 1
    BY <1>2, <2>1, OwnBodiesGrow DEF EmitProcess, LinesInv, AtExitOnly, Emit
  <2>3. Len(Append(OwnBodies, body)) = seq'
    BY <1>0, <2>1, <2>2, AppendProperties
  <2>4. LastEnd(OwnBodies, Len(OwnBodies), Len(payload))
        /\ \A n \in 1 .. Len(OwnBodies) : Stands(OwnBodies, payload, n)
    BY <1>0, <1>2 DEF BytesTold
  <2> HIDE DEF body
  <2>5. /\ \A n \in 1 .. seq' : Stands(OwnBodies', payload, n)
        /\ LastEnd(OwnBodies', seq', Len(payload))
    <3> DEFINE all == Append(OwnBodies, body)
    <3>1. body.payload_ref.length = 0 /\ ~(body.payload_ref.length > 0)
      BY <1>0, <2>1
    <3>2. /\ \A n \in 1 .. Len(all) : Stands(all, payload, n)
          /\ \A k \in Nat : LastEnd(OwnBodies, Len(OwnBodies), k) /\ body.payload_ref.length = 0
               => LastEnd(all, Len(all), k)
      BY <1>0, <2>1, <2>4, <3>1, StandsOneMore
    <3> QED
      BY <1>0, <2>2, <2>3, <2>4, <3>1, <3>2
  <2> QED
    BY <1>2, <2>5 DEF BytesTold, Copied
<1>3. CASE LoadLine \/ TargetUnknown
  <2>1. /\ seq' = seq /\ seq = 0 /\ pc' \in {"load", "failed"}
    BY <1>3 DEF LoadLine, TargetUnknown, LinesInv, Control, writerVars
  <2> QED
    BY <2>1 DEF BytesTold
<1>4. CASE Loaded
  <2>1. seq' = seq /\ seq = 0 /\ payload' = << >> /\ pc' = "opened"
    BY <1>4 DEF Loaded, LinesInv, Control, writerVars
  <2>2. ~Copied' /\ Len(payload') = 0
    BY <2>1, EmptySeq DEF Copied
  <2> QED
    BY <2>1, <2>2 DEF BytesTold, LastEnd
<1>5. CASE StartFails \/ Close
  <2>1. CASE StartFails
    <3>1. /\ events' = events /\ seq' = seq /\ payload' = payload /\ pc' = "failed"
          /\ pc # "crashed"
      BY <2>1 DEF StartFails, diskVars, writerVars
    <3> QED
      BY <1>1, <3>1 DEF BytesTold
  <2>2. CASE Close
    <3>1. PICK n \in Accepted(Len(payload)) :
            /\ payload' = Take(payload, n)
            /\ unsaved' = IF n = Len(payload) THEN unsaved ELSE unsaved \cup {0}
      BY <2>2 DEF Close
    <3>2. payload' = payload
      BY <1>0, <3>1, TakeAll
    <3>3. events' = events /\ seq' = seq /\ pc = "close" /\ pc' = "done"
      BY <2>2 DEF Close, writerVars
    <3> QED
      BY <1>1, <3>2, <3>3 DEF BytesTold, Copied
  <2> QED
    BY <1>5, <2>1, <2>2
<1>6. CASE PtraceFails \/ Fork \/ Resume
           \/ WaitSignalStop \/ WaitSyscallStop \/ AtEntry \/ WriteResult \/ WriteResultFails
  <2>1. /\ events' = events /\ seq' = seq /\ payload' = payload
        /\ pc \notin {"emit", "load", "failed", "crashed"} /\ pc' \notin {"emit", "crashed"}
    BY <1>6
    DEF PtraceFails, Fork, Resume, WaitSignalStop,
        WaitSyscallStop, AtEntry, WriteResult, WriteResultFails, diskVars, writerVars
  <2> QED
    BY <1>1, <2>1 DEF BytesTold, Copied
<1>7. CASE Attach
  <2>1. ~Copied /\ EmitProcess("program_start") /\ payload' = payload
        /\ pc \notin {"load", "failed", "crashed"} /\ pc' \notin {"emit", "crashed"}
    BY <1>7 DEF Attach, Copied
  <2> QED
    BY <1>2, <2>1 DEF ProcessNames
<1>8. CASE WaitDeath
  <2>1. PICK name \in ProcessNames : EmitProcess(name)
    BY <1>8 DEF WaitDeath, ProcessNames
  <2>2. ~Copied /\ payload' = payload /\ pc \notin {"load", "failed", "crashed"} /\ pc' \notin {"emit", "crashed"}
    BY <1>8 DEF WaitDeath, Copied
  <2> QED
    BY <1>2, <2>1, <2>2
<1>9. CASE AtExit
  <2>1. /\ events' = events /\ seq' = seq /\ items' = items /\ payload' = payload
        /\ active' = active /\ pc = "stopped" /\ pc' = IF active = 0 THEN "emit" ELSE "inject"
    BY <1>9 DEF AtExit, diskVars, loadVars, writerVars
  <2> QED
    BY <1>1, <2>1 DEF BytesTold, Copied
<1>10. ASSUME pc = "inject"
       PROVE  /\ active \in 1 .. Len(items) /\ items[active] \in BodyType
              /\ items[active].payload_ref \in RefType
              /\ LET ref == items[active].payload_ref
                 IN  /\ ref.length > 0 => Readable(ref)
                     /\ ref.length > 0 => RecordedData(ref) = ref.sha256
                     /\ RecordedData(ref) \in Seq(Byte) /\ Len(RecordedData(ref)) = ref.length
  <2>1. active \in 1 .. Len(items)
    BY <1>0, <1>10 DEF LinesInv, Pending
  <2>2. items[active] \in BodyType
    BY <1>0, <2>1, ElementOfSeq DEF LinesInv, TypeOK
  <2> QED
    BY <2>1, <2>2, DataRead DEF LinesInv, BodyType
<1>11. CASE InjectFails
  BY <1>11 DEF InjectFails
<1>12. CASE Inject
  <2>0. /\ events' = events /\ seq' = seq /\ items' = items /\ active' = active
        /\ pc = "inject" /\ pc' = "emit"
        /\ payload' = payload \o RecordedData(items[active].payload_ref)
    <3>1. payload' = payload \o RecordedData(items[active].payload_ref)
      BY <1>12, InjectReaches DEF LinesInv
    <3> QED
      BY <1>12, <3>1 DEF Inject, loadVars, writerVars
  <2> DEFINE ref == items[active].payload_ref
             data == RecordedData(ref)
  <2>1. /\ active \in 1 .. Len(items) /\ ref \in RefType /\ data \in Seq(Byte)
        /\ Len(data) = ref.length /\ (ref.length > 0 => data = ref.sha256)
    BY <1>10, <2>0
  <2>2. OwnBodies' = OwnBodies /\ LastEnd(OwnBodies, seq, Len(payload))
    BY <1>1, <2>0 DEF BytesTold, Copied
  <2>3. ref' = ref /\ payload' = payload \o data
    BY <2>0
  <2> HIDE DEF data, ref
  <2>4. Len(payload') = Len(payload) + ref.length
    <3>1. Len(payload \o data) = Len(payload) + Len(data)
      BY <1>0, <2>1, ConcatProperties
    <3> QED
      BY <2>1, <2>3, <3>1
  <2>5. \A n \in 1 .. seq : Stands(OwnBodies, payload \o data, n)
    BY <1>0, <2>0, <2>1, StandsLonger DEF BytesTold
  <2>6. CASE ref.length > 0
    <3>1. Copied' /\ CopiedFrom' = Len(payload)
      <4>1. ref.length \in Nat
        BY <2>1 DEF RefType
      <4> QED
        BY <1>0, <2>0, <2>1, <2>3, <2>4, <2>6, <4>1 DEF Copied, CopiedFrom, ref
    <3>2. Addresses(payload', Ref(Len(payload), data))
      BY <1>0, <2>1, <2>3, AddressesNew
    <3>3. Ref(Len(payload), data) = [ref EXCEPT !.offset = Len(payload)]
      BY <2>1, <2>6 DEF Ref, RefType
    <3>4. Addresses(payload, [items[active].payload_ref EXCEPT !.offset = CopiedFrom])'
      BY <2>0, <3>1, <3>2, <3>3 DEF ref
    <3> QED
      BY <2>0, <2>2, <2>3, <2>5, <3>1, <3>4 DEF BytesTold
  <2>7. CASE ref.length = 0
    <3>1. ~Copied'
      BY <2>0, <2>7 DEF Copied, ref
    <3>2. Len(payload') = Len(payload)
      BY <1>0, <2>4, <2>7
    <3> QED
      BY <2>0, <2>2, <2>3, <2>5, <3>1, <3>2 DEF BytesTold
  <2>8. ref.length \in Nat
    BY <2>1 DEF RefType
  <2> QED
    BY <2>6, <2>7, <2>8
<1>13. CASE EmitSyscall
  <2> DEFINE body == SyscallBody(entry, seq + 1, shown, EmittedRef)
  <2>1. /\ Emit(body) /\ pc = "emit" /\ pc' = "resume" /\ payload' = payload
    BY <1>13 DEF EmitSyscall
  <2>2. ASSUME Copied
        PROVE  /\ EmittedRef \in RefType /\ EmittedRef.length > 0
               /\ EmittedRef.offset = Len(payload)
               /\ EmittedRef.offset - EmittedRef.length = CopiedFrom
               /\ LastEnd(OwnBodies, seq, CopiedFrom) /\ Addresses(payload, Begin(EmittedRef))
    <3> DEFINE ref == items[active].payload_ref
    <3>1. ref \in RefType /\ active # 0 /\ ref.length > 0
      <4>1. items[active] \in BodyType
        <5>1. items \in Seq(BodyType) /\ Len(items) \in Nat /\ active \in 0 .. Len(items)
          BY <1>0, LenProperties DEF LinesInv, TypeOK
        <5>2. active \in 1 .. Len(items)
          BY <2>2, <5>1 DEF Copied
        <5> QED
          BY <5>1, <5>2, ElementOfSeq
      <4> QED
        BY <2>2, <4>1 DEF BodyType, Copied
    <3>2. LastEnd(OwnBodies, seq, CopiedFrom) /\ Addresses(payload, [ref EXCEPT !.offset = CopiedFrom])
      BY <2>1, <2>2 DEF BytesTold
    <3>3. EmittedRef = [ref EXCEPT !.offset = Len(payload)] /\ CopiedFrom = Len(payload) - ref.length
      BY <3>1 DEF EmittedRef, CopiedFrom
    <3> HIDE DEF ref
    <3>4. /\ EmittedRef \in RefType /\ EmittedRef.length = ref.length
          /\ EmittedRef.offset = Len(payload) /\ ref.length \in Nat
      BY <1>0, <3>1, <3>3 DEF RefType
    <3>5. Begin(EmittedRef) = [ref EXCEPT !.offset = CopiedFrom]
      BY <1>0, <3>1, <3>3, <3>4 DEF Begin, RefType
    <3> QED
      BY <3>1, <3>2, <3>3, <3>4, <3>5
  <2>3. ASSUME ~Copied
        PROVE  EmittedRef = NoRef /\ LastEnd(OwnBodies, seq, Len(payload))
    <3>1. active # 0 => items[active].payload_ref.length \in Nat
      <4>1. active # 0 => items[active] \in BodyType
        <5>1. items \in Seq(BodyType) /\ Len(items) \in Nat /\ active \in 0 .. Len(items)
          BY <1>0, LenProperties DEF LinesInv, TypeOK
        <5>2. active # 0 => active \in 1 .. Len(items)
          BY <5>1
        <5> QED
          BY <5>1, <5>2, ElementOfSeq
      <4> QED
        BY <4>1 DEF BodyType, RefType
    <3> QED
      BY <2>1, <2>3, <3>1 DEF EmittedRef, Copied, BytesTold
  <2>4. EmittedRef \in RefType /\ (EmittedRef.length > 0 => Copied)
    BY <1>0, <2>2, <2>3, NoRefInType
  <2>5. body \in BodyType /\ body.seq = seq + 1 /\ body.payload_ref = EmittedRef
    <3>1. seq + 1 \in Nat /\ entry \in Calls /\ shown \in Int
      BY <1>0 DEF LinesInv, TypeOK
    <3>2. body \in BodyType
      BY <2>4, <3>1, BodiesInType
    <3>3. body.seq = seq + 1 /\ body.payload_ref = EmittedRef
      BY DEF SyscallBody, Body
    <3> QED
      BY <3>2, <3>3
  <2>6. OwnBodies' = Append(OwnBodies, body) /\ seq' = seq + 1
    BY <2>1, <2>5, OwnBodiesGrow DEF LinesInv, AtExitOnly, Emit
  <2>7. Len(Append(OwnBodies, body)) = seq'
    BY <1>0, <2>5, <2>6, AppendProperties
  <2>8. \A n \in 1 .. Len(OwnBodies) : Stands(OwnBodies, payload, n)
    BY <1>0, <2>1 DEF BytesTold
  <2> HIDE DEF body
  <2>9. /\ \A n \in 1 .. seq' : Stands(OwnBodies', payload, n)
        /\ LastEnd(OwnBodies', seq', Len(payload))
    <3> DEFINE all == Append(OwnBodies, body)
    <3>1. body.payload_ref.length > 0 =>
            /\ LastEnd(OwnBodies, Len(OwnBodies), body.payload_ref.offset - body.payload_ref.length)
            /\ Addresses(payload, Begin(body.payload_ref))
      BY <1>0, <2>2, <2>4, <2>5
    <3>2. /\ \A n \in 1 .. Len(all) : Stands(all, payload, n)
          /\ \A k \in Nat : LastEnd(OwnBodies, Len(OwnBodies), k) /\ body.payload_ref.length = 0
               => LastEnd(all, Len(all), k)
          /\ body.payload_ref.length > 0 => LastEnd(all, Len(all), body.payload_ref.offset)
      BY <1>0, <2>5, <2>8, <3>1, StandsOneMore
    <3>3. CASE Copied
      BY <2>2, <2>5, <2>6, <2>7, <3>2, <3>3
    <3>4. CASE ~Copied
      BY <1>0, <2>3, <2>5, <2>6, <2>7, <3>2, <3>4
    <3> QED
      BY <3>3, <3>4
  <2> QED
    BY <2>1, <2>9 DEF BytesTold, Copied
<1>14. CASE TargetMoves \/ UNCHANGED vars
  <2>1. /\ events' = events /\ seq' = seq /\ items' = items /\ payload' = payload
        /\ active' = active /\ pc' = pc
    BY <1>14 DEF TargetMoves, vars, diskVars, loadVars, writerVars, loopVars, historyVars
  <2>2. (Copied' <=> Copied) /\ CopiedFrom' = CopiedFrom
    BY <2>1 DEF Copied, CopiedFrom
  <2> QED
    BY <1>1, <2>1, <2>2 DEF BytesTold, CutShort
<1>15. CASE Crash
  <2>1. payload' = Take(payload, Len(payload))
          \/ \E n \in 0 .. Len(payload) : payload' = Take(payload, n)
    <3>1. Take(payload, Len(payload)) = payload
      BY <1>0, TakeAll
    <3> QED
      BY <1>15, <3>1 DEF Crash
  <2>2. PICK n \in Nat : payload' = Take(payload, n)
    BY <1>0, <2>1
  <2>3. events' = events /\ seq' = seq /\ pc # "crashed" /\ pc' = "crashed"
    BY <1>15 DEF Crash, Active, writerVars
  <2>4. AllStand(payload) /\ OwnBodies' = OwnBodies
    BY <1>1, <2>3 DEF BytesTold
  <2>5. \A m \in 1 .. seq' : Stands(OwnBodies', payload, m)
    BY <2>3, <2>4
  <2>6. CutShort'
    BY <1>0, <2>2, <2>5 DEF CutShort
  <2> QED
    BY <2>3, <2>6 DEF BytesTold
<1> QED
  BY <1>3, <1>4, <1>5, <1>6, <1>7, <1>8, <1>9, <1>11, <1>12, <1>13, <1>14, <1>15
  DEF Next, ReplayerStep

\* What a reference addresses, byte by byte.
LEMMA AddressesBytes ==
  ASSUME NEW f \in Seq(Byte), NEW r \in RefType, Addresses(f, r)
  PROVE  /\ r.offset + r.length <= Len(f)
         /\ \A i \in 1 .. r.length : f[r.offset + i] = r.sha256[i]
<1>1. /\ r.offset \in Nat /\ r.length \in Nat /\ Len(f) \in Nat
      /\ r.offset + r.length <= Len(f) /\ Slice(f, r.offset, r.length) = r.sha256
  BY LenProperties DEF RefType, Addresses
<1> DEFINE a == r.offset + 1
           b == r.offset + r.length
<1>2. a \in Int /\ b \in Int /\ a <= b + 1 /\ b - a + 1 = r.length
  BY <1>1
<1>3. \A j \in a .. b : f[j] \in Byte
  BY <1>1, ElementOfSeq
<1>4. \A i \in 1 .. r.length : a + i - 1 = r.offset + i
  BY <1>1
<1> HIDE DEF a, b
<1>5. \A i \in 1 .. b - a + 1 : SubSeq(f, a, b)[i] = f[a + i - 1]
  BY <1>2, <1>3, SubSeqProperties
<1>6. SubSeq(f, a, b) = r.sha256
  BY <1>1 DEF Slice, a, b
<1> QED
  BY <1>1, <1>2, <1>4, <1>5, <1>6

\* Each reference of a replay stands at the end of its bytes, which begin where those of the
\* reference before it end, whatever an earlier replay left in payload.bin; a crash may have
\* cut the file short, but what is in it is in its place (ptrace_replayer.c:140, 473, 493).
THEOREM ReplayerRefsEnd == Spec => []RefsEndTheirBytes
<1> DEFINE Kept == PayloadsReadable /\ unsaved = {} => BytesTold
<1>1. Init => BytesTold
  <2> SUFFICES ASSUME Init
               PROVE  BytesTold
    OBVIOUS
  <2>1. pc = "load" /\ seq = 0
    BY DEF Init
  <2> QED
    BY <2>1 DEF BytesTold, AllStand
<1>2. LinesInv /\ LinesInv' /\ Kept /\ [Next]_vars => Kept'
  <2> SUFFICES ASSUME LinesInv, LinesInv', Kept, [Next]_vars, PayloadsReadable', unsaved' = {}
               PROVE  BytesTold'
    OBVIOUS
  <2>1. PayloadsReadable /\ unsaved = {}
    BY OnlyLoaded, MissedGrows DEF PayloadsReadable
  <2> QED
    BY <2>1, BytesStep DEF LinesInv
<1>3. LinesInv /\ Kept => RefsEndTheirBytes
  <2> SUFFICES ASSUME LinesInv, BytesTold, PayloadsReadable, unsaved = {}
               PROVE  RefsEndTheirBytes
    BY DEF RefsEndTheirBytes
  <2>1. /\ seq \in Nat /\ OwnBodies \in Seq(BodyType) /\ Len(OwnBodies) = seq
        /\ DOMAIN OwnLines = 1 .. seq
        /\ \A k \in 1 .. seq : OwnLines[k].body = OwnBodies[k]
    BY OwnBodiesAre DEF LinesInv, AtExitOnly, InFile, OwnFormed, TypeOK
  <2>2. PICK whole \in Seq(Byte), cut \in Nat :
          /\ AllStand(whole) /\ payload = Take(whole, cut)
          /\ pc # "crashed" => payload = whole
    <3>1. CASE pc = "crashed"
      BY <3>1 DEF BytesTold, CutShort
    <3>2. CASE pc # "crashed"
      <4>1. /\ payload \in Seq(Byte) /\ Len(payload) \in Nat
            /\ payload = Take(payload, Len(payload))
        BY TakeAll, LenProperties DEF LinesInv, TypeOK
      <4> QED
        BY <3>2, <4>1 DEF BytesTold
    <3> QED
      BY <3>1, <3>2
  <2> DEFINE ref(n) == OwnLines[n].body.payload_ref
             refs == {n \in DOMAIN OwnLines : ref(n).length > 0}
             from(n) == ref(n).offset - ref(n).length
             ends(n) == {0} \cup {ref(m).offset : m \in {k \in refs : k < n}}
  <2>3. ASSUME NEW n \in refs
        PROVE  /\ from(n) \in ends(n) /\ \A e \in ends(n) : e <= from(n)
               /\ pc # "crashed" => ref(n).offset <= Len(payload)
               /\ \A i \in 1 .. ref(n).length :
                    from(n) + i <= Len(payload) => payload[from(n) + i] = ref(n).sha256[i]
    <3>1. n \in 1 .. seq /\ ref(n) = OwnBodies[n].payload_ref /\ ref(n).length > 0
      BY <2>1, <2>3
    <3>2. LastEnd(OwnBodies, n - 1, from(n)) /\ Addresses(whole, Begin(ref(n)))
      BY <2>2, <3>1 DEF AllStand, Stands
    <3>3. ref(n) \in RefType
      <4>1. OwnBodies[n] \in BodyType
        BY <2>1, <3>1, ElementOfSeq
      <4> QED
        BY <3>1, <4>1 DEF BodyType
    <3>4. /\ Begin(ref(n)) \in RefType /\ Begin(ref(n)).offset = from(n)
          /\ Begin(ref(n)).length = ref(n).length /\ Begin(ref(n)).sha256 = ref(n).sha256
          /\ from(n) >= 0 /\ ref(n).offset \in Nat /\ ref(n).length \in Nat
      BY <3>2, <3>3, BeginTyped DEF LastEnd, RefType
    <3>5. /\ from(n) + ref(n).length <= Len(whole)
          /\ \A i \in 1 .. ref(n).length : whole[from(n) + i] = ref(n).sha256[i]
      BY <3>2, <3>4, AddressesBytes
    <3>6. \A m : m \in 1 .. n - 1 /\ OwnBodies[m].payload_ref.length > 0 <=> m \in refs /\ m < n
      <4>1. \A m : m \in 1 .. n - 1 <=> m \in 1 .. seq /\ m < n
        BY <2>1, <3>1
      <4> QED
        BY <2>1, <4>1
    <3>7. \A m \in refs : ref(m).offset = OwnBodies[m].payload_ref.offset
      BY <2>1
    <3>8. from(n) + ref(n).length = ref(n).offset /\ from(n) \in Nat
      BY <3>4
    <3> HIDE DEF ref, refs, from
    <3>9. from(n) \in ends(n) /\ \A e \in ends(n) : e <= from(n)
      BY <3>2, <3>6, <3>7 DEF LastEnd
    <3>10. pc # "crashed" => ref(n).offset <= Len(payload)
      BY <2>2, <3>5, <3>8
    <3>11. ASSUME NEW i \in 1 .. ref(n).length, from(n) + i <= Len(payload)
           PROVE  payload[from(n) + i] = ref(n).sha256[i]
      <4>1. Len(payload) \in Nat
        BY LenProperties DEF LinesInv, TypeOK
      <4>2. from(n) + i \in 1 .. Len(Take(whole, cut))
        BY <2>2, <3>4, <3>8, <3>11, <4>1
      <4>3. payload[from(n) + i] = whole[from(n) + i]
        BY <2>2, <4>2, TakeAt
      <4> QED
        BY <3>5, <4>3
    <3> QED
      BY <3>9, <3>10, <3>11
  <2> QED
    BY <2>3 DEF RefsEndTheirBytes
<1> QED
  BY <1>1, <1>2, <1>3, LinesInvariant, PTL DEF Spec

=============================================================================
