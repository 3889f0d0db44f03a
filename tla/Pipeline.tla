------------------------------- MODULE Pipeline -------------------------------
(***************************************************************************)
(* adr run: record, replay, verify and analyze, as often as --repeat says.   *)
(* Every iteration has directories and a verify.json of its own; all write   *)
(* the same analysis report.                                                *)
(*                                                                          *)
(* adr-recorder is one step here, that leaves one of the directories Traces  *)
(* or fails; Recorder has its steps.  adr-replayer takes the steps of        *)
(* Replayer, and cmd_verify is Session's.                                   *)
(***************************************************************************)
EXTENDS Session, Analyzer

CONSTANTS
  MaxRepeat  \* a bound on --repeat

ASSUME PipelineAssumption == MaxRepeat \in Nat

VARIABLES
  repeat,        \* args.repeat
  stop_on_fail,  \* args.stop_on_fail
  stage,         \* where cmd_run is
  verdicts,      \* the status in each iteration's verify.json
  analysis,      \* the rules in the analysis report, << >> before there is one
  code           \* adr's exit code

argVars == << repeat, stop_on_fail >>
runVars == << stage, verdicts, analysis, code >>
pipelineVars == << sessionVars, argVars, runVars >>

Rules == {"PASS", "R-IO", "R-SYNC", "R-OUTPUT", "R-DEADLOCK", "R-SYSCALL", "R-GENERIC",
          "R-EXIT", "R-HIGHLEVEL"}

PipelineTypeOK ==
  /\ SessionTypeOK
  /\ repeat \in 0 .. MaxRepeat
  /\ stop_on_fail \in BOOLEAN
  /\ stage \in {"record", "replay", "verify", "analyze", "returned", "raised"}
  /\ Len(verdicts) <= repeat
  /\ verdicts \in Seq({"pass", "fail"})
  /\ analysis \in Seq(Rules)
  /\ Len(analysis) <= TopK
  /\ code \in 0 .. 1

PipelineInit ==
  /\ SessionInit
  /\ repeat \in 0 .. MaxRepeat
  /\ stop_on_fail \in BOOLEAN
  /\ stage = "record"
  /\ verdicts = << >>
  /\ analysis = << >>
  /\ code = 0

\* An exception, or SystemExit from run_cmd: nothing is caught.
Raises ==
  /\ stage' = "raised"
  /\ code' = 1
  /\ UNCHANGED << verdicts, analysis >>

MoreToRun == stage = "record" /\ Len(verdicts) < repeat

\* A replayer of its own, on the new recording and into a new directory.
Afresh ==
  /\ tstate' = "none" /\ hist' = << >> /\ call' = "exit_group" /\ ret' = 0 /\ mem' = << >>
  /\ signals' = 0
  /\ trace' \in Traces
  /\ line' = 0 /\ items' = << >>
  /\ events' = << >> /\ payload' = << >> /\ result' = NoResult
  /\ pc' = "load"
  /\ in_syscall' = FALSE /\ entry' = "read" /\ shown' = 0 /\ active' = 0 /\ cursor' = 0
  /\ seq' = 0 /\ prev_hash' = << >> /\ missed' = {} /\ unsaved' = {}
  /\ report' = "none" /\ mismatch' = 0

\* cmd_record: the recorder returns 0, with or without a result.
Record ==
  /\ MoreToRun
  /\ Afresh
  /\ stage' = "replay"
  /\ UNCHANGED << argVars, verdicts, analysis, code >>

RecordFails ==
  /\ MoreToRun
  /\ Faults \cap {"start", "crash"} # {}
  /\ Raises
  /\ UNCHANGED << sessionVars, argVars >>

Replaying ==
  /\ stage = "replay"
  /\ Replay
  /\ UNCHANGED << argVars, runVars >>

\* The end of cmd_replay: run_cmd passes a failure on.
CmdReplay ==
  /\ stage = "replay"
  /\ pc \in Over
  /\ IF pc = "done" THEN stage' = "verify" /\ UNCHANGED << verdicts, analysis, code >>
     ELSE Raises
  /\ UNCHANGED << sessionVars, argVars >>

CmdVerify ==
  /\ stage = "verify"
  /\ Verify
  /\ IF report' = "error" THEN Raises
     ELSE /\ verdicts' = Append(verdicts, report')
          /\ stage' = "analyze"
          /\ UNCHANGED << analysis, code >>
  /\ UNCHANGED argVars

Analyze ==
  LET a == LoadEvents(trace.lines)
      b == LoadEvents(events)
  IN  analysis' = Candidates(AnalyzedEvents(trace.lines), AnalyzedEvents(events), report,
                             Checks(trace.result, result, a, b), mismatch,
                             << SeqAt(a, mismatch), SeqAt(b, mismatch) >>)

\* Seeded faults: a failure stops the loop but is not returned; a report that is
\* there is kept.
CmdAnalyzeReturnsZero ==
  /\ stage = "analyze"
  /\ Analyze
  /\ IF report = "fail" /\ stop_on_fail THEN stage' = "returned" ELSE stage' = "record"
  /\ UNCHANGED << sessionVars, argVars, verdicts, code >>
CmdAnalyzeOnce ==
  /\ stage = "analyze"
  /\ IF analysis = << >> THEN Analyze ELSE analysis' = analysis
  /\ IF report = "fail" /\ stop_on_fail THEN stage' = "returned" /\ code' = 1
     ELSE stage' = "record" /\ code' = code
  /\ UNCHANGED << sessionVars, argVars, verdicts >>

\* cmd_analyze, and the end of the iteration.
CmdAnalyze ==
  /\ stage = "analyze"
  /\ Analyze
  /\ IF report = "fail" /\ stop_on_fail THEN stage' = "returned" /\ code' = 1
     ELSE stage' = "record" /\ code' = code
  /\ UNCHANGED << sessionVars, argVars, verdicts >>

Return ==
  /\ stage = "record"
  /\ Len(verdicts) = repeat
  /\ stage' = "returned"
  /\ UNCHANGED << sessionVars, argVars, verdicts, analysis, code >>

PipelineNext ==
  \/ Record \/ RecordFails \/ Replaying \/ CmdReplay \/ CmdVerify \/ CmdAnalyze \/ Return

PipelineSpec == PipelineInit /\ [][PipelineNext]_pipelineVars

(***************************************************************************)
(* Properties.                                                              *)
(***************************************************************************)
Passes == \A i \in DOMAIN verdicts : verdicts[i] = "pass"

\* The exit code can be relied on with --stop-on-fail, and then only: 0 says that
\* every repetition was verified and passed, and no run goes on after a failure.
\* Without the flag 0 says that every repetition got a verdict, whichever.
ExitCodeTells ==
  /\ stage = "returned" /\ code = 0 => Len(verdicts) = repeat /\ (stop_on_fail => Passes)
  /\ stop_on_fail /\ stage = "replay" => Passes

\* Once an iteration is over, the report is about its verdict: it says PASS just when
\* the last verify.json does, and an iteration that raises leaves the one before.
Analyzed == verdicts # << >> /\ stage \in {"record", "returned"}
ReportOfLast ==
  verdicts # << >> /\ stage # "analyze" =>
    (analysis = << "PASS" >> <=> verdicts[Len(verdicts)] = "pass")

\* Input, time and randomness are the first cause named after every mismatch, and no
\* other failure's: the verifier compares no other syscall, and the event at the
\* mismatch is in the window of the trace that has one.
InputNamedFirst ==
  Analyzed => (analysis[1] = "R-IO" <=> mismatch # 0)

\* A changed stdout is always named: at most two causes rank above it.
OutputNamed ==
  Analyzed /\ Outcome(trace.result).stdout # Outcome(result).stdout
    => \E i \in DOMAIN analysis : analysis[i] = "R-OUTPUT"

\* What the SYNC rules can see.  The hook numbers its lines far above the recorder's
\* and a replay has none, so synchronization is named at a mismatch only when the
\* original has no event there and its last lines are looked at instead.
SyncNamedAtEnd ==
  Analyzed /\ mismatch # 0 /\ (\E i \in DOMAIN analysis : analysis[i] \in {"R-SYNC", "R-DEADLOCK"})
    => SeqAt(LoadEvents(trace.lines), mismatch) = 0

\* What the recorder guarantees and the last properties suppose: the lines of a trace
\* have numbers, the hook's ones far above the others.
LinesNumbered(t) == \A n \in 1 .. Len(t.lines) : t.lines[n].body.seq # 0
HookApart(t) ==
  \A n \in 1 .. Len(t.lines) :
    LET body == t.lines[n].body
    IN  IF Synchronizes(body) THEN body.seq >= SyncSeqBase
        ELSE body.seq + Around < SyncSeqBase /\ ~OnMutex(body)
=============================================================================
