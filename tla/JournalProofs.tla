---------------------------- MODULE JournalProofs ----------------------------
(***************************************************************************)
(* The recorder implements the journal, for every program, kernel, fault    *)
(* set, number of recordings and number of lines from the hook.             *)
(***************************************************************************)
EXTENDS RecorderProofs

\* No line the recorder owns is numbered above the writer's seq.
NoneAbove ==
  \A i \in OwnLines : events[i].body.seq \in Nat /\ events[i].body.seq <= seq

\* EmitOwn, with the body of the new line.
LEMMA EmitAdds ==
  ASSUME TypeOK, BaseInFile, NEW body \in OwnBodies, Emit(body), base' = base
  PROVE  /\ OwnLines' = OwnLines \cup {Len(events) + 1}
         /\ events'[Len(events) + 1].body = body
         /\ \A i \in 1 .. Len(events) : events'[i] = events[i]
<1>1. Line(prev_hash, body).body = body
  BY DEF Line
<1> QED
  BY <1>1, EmitOwn

\* NoneAbove is inductive: a line is numbered one above seq, and seq follows.
LEMMA NoneAboveStep ==
  ASSUME TypeOK, BaseInFile, NoneAbove, [Next]_vars
  PROVE  NoneAbove'
<1>1. CASE OpenTrace
  BY <1>1, OpenOwn DEF NoneAbove
<1>2. CASE HookAppends
  <2>1. \A i \in OwnLines : events'[i] = events[i]
    BY <1>2, HookOwn, OwnRefTyped
  <2> QED
    BY <1>2, <2>1, HookOwn DEF NoneAbove, HookAppends, writerVars
<1>3. CASE KeepsLines
  BY <1>3, KeepOwn DEF NoneAbove, KeepsLines
<1>4. ASSUME NEW body \in OwnBodies, body.seq = seq + 1, Emit(body), base' = base
      PROVE  NoneAbove'
  <2>1. /\ OwnLines' = OwnLines \cup {Len(events) + 1}
        /\ events'[Len(events) + 1].body = body
        /\ \A i \in OwnLines : events'[i] = events[i]
    BY <1>4, EmitAdds, OwnRefTyped
  <2>2. seq \in Nat /\ seq' = seq + 1
    BY <1>4 DEF TypeOK, Emit
  <2> QED
    BY <1>4, <2>1, <2>2 DEF NoneAbove
<1> QED
  BY <1>1, <1>2, <1>3, <1>4, LineSteps

\* A step that leaves the recorder's lines as they are leaves the entries.
LEMMA EntriesKept ==
  ASSUME LinesStay, OwnLines' = OwnLines
  PROVE  Entries' = Entries
BY DEF LinesStay, Entries, SyscallLine

\* A line that is not of a syscall is no entry; one that is, is one more.
LEMMA EntriesGrow ==
  ASSUME TypeOK, BaseInFile, NEW body \in OwnBodies, Emit(body), base' = base
  PROVE  Entries' = IF body.etype = "SYSCALL" THEN Entries \cup {Entry(body)} ELSE Entries
<1>1. /\ OwnLines' = OwnLines \cup {Len(events) + 1}
      /\ events'[Len(events) + 1].body = body
      /\ \A i \in OwnLines : events'[i] = events[i]
  BY EmitAdds, OwnRefTyped
<1>2. \A e : e \in Entries' <=>
        \/ \E i \in OwnLines : events[i].body.etype = "SYSCALL" /\ e = Entry(events[i].body)
        \/ body.etype = "SYSCALL" /\ e = Entry(body)
  BY <1>1 DEF Entries, SyscallLine, Entry
<1>3. \A e : e \in Entries <=>
        \E i \in OwnLines : events[i].body.etype = "SYSCALL" /\ e = Entry(events[i].body)
  BY DEF Entries, SyscallLine
<1> QED
  BY <1>2, <1>3

\* The writing of a syscall's line is the journal's Write.
LEMMA EmitWrites ==
  ASSUME TypeOK, BaseInFile, Ahead, NoneAbove, EmitSyscall
  PROVE  J!Next
<1> DEFINE body == SyscallBody(entry, seq + 1, ret, payload_json)
           e == Entry(body)
<1>1. body \in OwnBodies /\ body.seq = seq + 1 /\ body.etype = "SYSCALL"
  BY BodiesInType DEF TypeOK, TargetTypeOK, OwnBodies, SyscallBody, Body
<1>2. Emit(body) /\ base' = base /\ hist' = hist /\ seq = Len(hist) + 1
  BY DEF EmitSyscall, targetVars, Ahead, AheadBy
<1>3. seq \in Nat /\ Len(hist) \in Nat
  BY LenProperties DEF TypeOK, TargetTypeOK
<1> HIDE DEF body
<1>4. Entries' = Entries \cup {e}
  BY <1>1, <1>2, EntriesGrow
<1>5. e.k = Len(hist) + 1
  BY <1>1, <1>2, <1>3 DEF Entry
<1>6. \A f \in Entries : f.k <= Len(hist)
  BY <1>2, <1>3 DEF NoneAbove, Entries, Entry
<1> HIDE DEF e
<1>7. J!Write(e)
  BY <1>2, <1>4, <1>5, <1>6 DEF J!Write
<1>8. e \in Entries'
  BY <1>4
<1> QED
  BY <1>7, <1>8 DEF J!Next

\* The resumption of the target at an exit stop is the journal's Observe.
LEMMA ResumeObserves ==
  ASSUME TypeOK, Ahead, Resume, tstate = "exitstop"
  PROVE  J!Next
<1>1. InFlight \in ObservationType /\ hist \in Seq(ObservationType)
  BY ObservationInType DEF TypeOK, TargetTypeOK, InFlight
<1>2. hist' = Append(hist, InFlight)
  BY DEF Resume, ResumeTarget, InFlight
<1>3. Len(hist) \in Nat /\ Len(hist') = Len(hist) + 1 /\ hist'[Len(hist')] = InFlight
  BY <1>1, <1>2, AppendProperties, LenProperties
<1>4. Entries' = Entries
  BY DEF Resume, diskVars, Entries, SyscallLine, OwnLines, Own
<1>5. PICK i \in OwnLines : /\ SyscallLine(i) /\ events[i].body.seq = Len(hist) + 2
                            /\ Records(events[i].body, InFlight)
  BY <1>3 DEF Ahead, AheadBy, Resume, Recorded, Dead
<1> DEFINE e == Entry(events[i].body)
<1>6. e \in Entries
  BY <1>5 DEF Entries
<1>7. e.k = Len(hist) + 1 /\ J!Tells(e, InFlight)
  <2>1. /\ e.k = events[i].body.seq - 1 /\ e.call = events[i].body.name
        /\ e.ret = events[i].body.ret /\ e.data = events[i].body.payload_ref.sha256
    BY DEF Entry
  <2>2. e.kept => events[i].body.payload_ref.length > 0
    BY Zenon DEF Entry
  <2> HIDE DEF e
  <2>3. e.k = Len(hist) + 1
    BY <1>3, <1>5, <2>1
  <2>4. J!Tells(e, InFlight)
    BY <1>5, <2>1, <2>2, Zenon DEF Records, J!Tells
  <2> QED
    BY <2>3, <2>4
<1> HIDE DEF e
<1>8. J!Observe(InFlight)
  BY <1>2, <1>4, <1>6, <1>7 DEF J!Observe
<1> QED
  BY <1>3, <1>8 DEF J!Next

\* Every step of the recorder, its target and its environment is a step of the
\* journal or does not show in it.
LEMMA JournalStep ==
  ASSUME TypeOK, BaseInFile, Balanced, Ahead, NoneAbove, [Next]_vars
  PROVE  [J!Next]_<< Entries, hist >>
<1>1. CASE OpenTrace
  <2>1. hist' = << >> /\ Entries' = {}
    BY <1>1, OpenOwn DEF OpenTrace, Opens, TargetUnborn, Entries
  <2> QED
    BY <2>1 DEF J!Next, J!StartOver
<1>2. CASE EmitSyscall
  BY <1>2, EmitWrites
<1>3. CASE Resume
  <2>1. CASE tstate = "exitstop"
    BY <1>3, <2>1, ResumeObserves
  <2>2. CASE tstate # "exitstop"
    BY <1>3, <2>2
    DEF Resume, ResumeTarget, diskVars, Entries, SyscallLine, OwnLines, Own
  <2> QED
    BY <2>1, <2>2
<1>4. CASE Attach \/ WaitDeath
  <2>1. PICK name \in ProcessNames : EmitProcess(name) /\ base' = base /\ hist' = hist
    BY <1>4 DEF Attach, WaitDeath, ProcessNames, ReapTarget, targetVars
  <2>2. ProcessBody(name, seq + 1) \in OwnBodies /\ ProcessBody(name, seq + 1).etype # "SYSCALL"
    BY BodiesInType DEF TypeOK, OwnBodies, ProcessBody, Body
  <2> QED
    BY <2>1, <2>2, EntriesGrow DEF EmitProcess
<1>5. CASE Fork
  <2>1. hist' = hist /\ KeepsLines
    BY <1>5 DEF Fork, TargetFork, KeepsLines, Ahead, AheadBy, diskVars, writerVars
  <2> QED
    BY <2>1 DEF KeepsLines, Entries, SyscallLine, OwnLines, Own
<1>6. CASE StartFails \/ PtraceFails \/ WaitSignalStop \/ WaitSyscallStop \/ AtEntry \/ AtExit
           \/ SavePayload \/ SavePayloadFails \/ FlushFails \/ WriteResult \/ WriteResultFails \/ Close
           \/ TargetMoves \/ Crash \/ UNCHANGED vars
  <2>1. KeepsLines
    BY <1>6
    DEF StartFails, PtraceFails, WaitSignalStop, WaitSyscallStop, AtEntry, AtExit, SavePayload,
        SavePayloadFails, FlushFails, WriteResult, WriteResultFails, Close, TargetMoves, Crash, KeepsLines, vars,
        diskVars, writerVars
  <2>2. hist' = hist
    BY <1>6, TargetHeld
    DEF StartFails, PtraceFails, WaitSignalStop, WaitSyscallStop, AtEntry, AtExit, SavePayload,
        SavePayloadFails, FlushFails, WriteResult, WriteResultFails, Close, Crash, DetachTarget, vars, targetVars
  <2> QED
    BY <2>1, <2>2 DEF KeepsLines, Entries, SyscallLine, OwnLines, Own
<1>7. CASE HookAppends
  <2>1. LinesStay /\ OwnLines' = OwnLines
    BY <1>7, HookOwn, OwnRefTyped DEF LinesStay
  <2> QED
    BY <1>7, <2>1, EntriesKept DEF HookAppends, targetVars
<1> QED
  BY <1>1, <1>2, <1>3, <1>4, <1>5, <1>6, <1>7 DEF Next, RecorderStep

\* ImplementsJournal: seen through its syscall lines and what the target has
\* observed, whatever is killed, crashes, fails or is recorded again, the
\* recorder does nothing a write-ahead journal may not do.
THEOREM RecorderImplementsJournal == Spec => ImplementsJournal
<1>1. Init => J!Init /\ Balanced /\ Ahead /\ NoneAbove
  <2>1. Init => OwnLines = {} /\ hist = << >> /\ Len(hist) = 0
    BY EmptySeq DEF Init, TargetInit, OwnLines
  <2> QED
    BY <2>1
    DEF Init, J!Init, Entries, Balanced, Ahead, WriteAhead, AheadBy, AboutToRecord, InLoop,
        NoneAbove
<1>2. TypeOK /\ BaseInFile /\ Balanced /\ Ahead /\ NoneAbove /\ [Next]_vars
      => Balanced' /\ Ahead' /\ NoneAbove'
  BY BalancedStep, WriteAheadStep, AheadByStep, AboutStep, NoneAboveStep DEF Ahead
<1>3. TypeOK /\ BaseInFile /\ Balanced /\ Ahead /\ NoneAbove /\ [Next]_vars
      => [J!Next]_<< Entries, hist >>
  BY JournalStep
<1> QED
  BY <1>1, <1>2, <1>3, RecorderTyped, RecorderBase, PTL DEF Spec, ImplementsJournal, J!Spec

=============================================================================
