---------------------------- MODULE PipelineProofs ----------------------------
(***************************************************************************)
(* What adr run's exit code, verdicts and report tell, for every program,    *)
(* kernel, directory, fault set and number of repetitions.                   *)
(***************************************************************************)
EXTENDS Pipeline, SessionProofs

\* What cmd_run knows at each place of its loop: with --stop-on-fail every verdict
\* but the one about to be analyzed has been a pass.
Statuses == {"pass", "fail"}
LoopInv ==
  /\ verdicts \in Seq(Statuses)
  /\ stage \in {"record", "replay", "verify", "analyze", "returned", "raised"}
  /\ stage \in {"record", "replay", "verify"} => code = 0 /\ (stop_on_fail => Passes)
  /\ stage = "analyze" =>
       /\ code = 0
       /\ Len(verdicts) > 0
       /\ verdicts[Len(verdicts)] = report
       /\ stop_on_fail => \A i \in 1 .. Len(verdicts) - 1 : verdicts[i] = "pass"
  /\ stage = "returned" /\ code = 0 => Len(verdicts) = repeat /\ (stop_on_fail => Passes)
  /\ stage = "raised" => code = 1

\* cmd_verify appends what it reports.
LEMMA VerdictAppended ==
  ASSUME LoopInv, CmdVerify, report' # "error"
  PROVE  LoopInv'
<1>1. /\ stage = "verify" /\ stage' = "analyze" /\ code' = code /\ code = 0
      /\ verdicts' = Append(verdicts, report') /\ stop_on_fail' = stop_on_fail
      /\ stop_on_fail => Passes
  BY DEF LoopInv, CmdVerify, argVars
<1>2. report' \in Statuses
  BY Zenon DEF CmdVerify, Verify, Verdict, Statuses
<1>3. /\ verdicts' \in Seq(Statuses)
      /\ Len(verdicts') = Len(verdicts) + 1 /\ Len(verdicts) \in Nat
      /\ verdicts'[Len(verdicts')] = report'
      /\ \A i \in 1 .. Len(verdicts) : verdicts'[i] = verdicts[i]
  BY <1>1, <1>2, AppendProperties, LenProperties DEF LoopInv
<1>4. stop_on_fail => \A i \in 1 .. Len(verdicts') - 1 : verdicts'[i] = "pass"
  BY <1>1, <1>3, LenProperties DEF LoopInv, Passes
<1> QED
  BY <1>1, <1>3, <1>4 DEF LoopInv

\* cmd_analyze leaves the loop on a failure, or goes on with nothing but passes.
LEMMA VerdictActedOn ==
  ASSUME LoopInv, CmdAnalyze
  PROVE  LoopInv'
<1>1. /\ stage = "analyze" /\ code = 0 /\ Len(verdicts) > 0
      /\ verdicts[Len(verdicts)] = report
      /\ stop_on_fail => \A i \in 1 .. Len(verdicts) - 1 : verdicts[i] = "pass"
      /\ verdicts' = verdicts /\ stop_on_fail' = stop_on_fail
      /\ verdicts \in Seq(Statuses)
  BY DEF LoopInv, CmdAnalyze, argVars
<1>2. DOMAIN verdicts = 1 .. Len(verdicts) /\ Len(verdicts) \in Nat
  BY <1>1, LenProperties
<1>3. CASE report = "fail" /\ stop_on_fail
  BY <1>1, <1>3 DEF LoopInv, CmdAnalyze
<1>4. CASE ~(report = "fail" /\ stop_on_fail)
  <2>1. stop_on_fail => report = "pass"
    BY <1>1, <1>2, <1>4, ElementOfSeq DEF Statuses
  <2>2. stop_on_fail => Passes
    BY <1>1, <1>2, <2>1 DEF Passes
  <2>3. stage' = "record" /\ code' = code
    BY <1>4 DEF CmdAnalyze
  <2> QED
    BY <1>1, <2>2, <2>3 DEF LoopInv, Passes
<1> QED
  BY <1>3, <1>4

\* LoopInv is inductive.
LEMMA LoopStep ==
  ASSUME LoopInv, [PipelineNext]_pipelineVars
  PROVE  LoopInv'
<1>1. CASE Record
  BY <1>1 DEF LoopInv, Passes, Record, MoreToRun, argVars
<1>2. CASE RecordFails
  BY <1>2 DEF LoopInv, Passes, RecordFails, MoreToRun, Raises, argVars
<1>3. CASE Replaying
  BY <1>3 DEF LoopInv, Passes, Replaying, argVars, runVars
<1>4. CASE CmdReplay
  BY <1>4 DEF LoopInv, Passes, CmdReplay, Raises, argVars
<1>5. CASE CmdVerify
  <2>1. CASE report' = "error"
    BY <1>5, <2>1 DEF LoopInv, Passes, CmdVerify, Raises, argVars
  <2> QED
    BY <1>5, <2>1, VerdictAppended
<1>6. CASE CmdAnalyze
  BY <1>6, VerdictActedOn
<1>7. CASE Return
  BY <1>7 DEF LoopInv, Passes, Return, argVars
<1>8. CASE UNCHANGED pipelineVars
  BY <1>8 DEF LoopInv, Passes, pipelineVars, sessionVars, argVars, runVars
<1> QED
  BY <1>1, <1>2, <1>3, <1>4, <1>5, <1>6, <1>7, <1>8 DEF PipelineNext

(***************************************************************************)
(* The causes the analyzer ranks.                                           *)
(***************************************************************************)
\* A candidate is appended when its condition holds.
LEMMA CandidateFirst ==
  ASSUME NEW S, NEW rule, NEW holds, holds => rule \in S
  PROVE  LET first == Given(rule, holds)
         IN  /\ first \in Seq(S)
             /\ holds => Len(first) = 1 /\ first[1] = rule
             /\ ~holds => first = << >> /\ Len(first) = 0
<1>1. CASE holds
  <2>1. Given(rule, holds) = << rule >>
    BY <1>1 DEF Given
  <2>2. << rule >> \in Seq(S) /\ Len(<< rule >>) = 1 /\ << rule >>[1] = rule
    BY <1>1
  <2> QED
    BY <1>1, <2>1, <2>2
<1>2. CASE ~holds
  <2>1. Given(rule, holds) = << >>
    BY <1>2 DEF Given
  <2> QED
    BY <1>2, <2>1, EmptySeq
<1> QED
  BY <1>1, <1>2

LEMMA CandidateAppended ==
  ASSUME NEW S, NEW rules \in Seq(S), NEW rule, NEW holds, holds => rule \in S
  PROVE  LET more == rules \o Given(rule, holds)
         IN  /\ more \in Seq(S)
             /\ holds => /\ Len(more) = Len(rules) + 1 /\ more[Len(rules) + 1] = rule
                         /\ \A i \in 1 .. Len(rules) : more[i] = rules[i]
             /\ ~holds => more = rules
<1>1. CASE holds
  <2>1. Given(rule, holds) = << rule >>
    BY <1>1 DEF Given
  <2>2. << rule >> \in Seq(S) /\ Len(<< rule >>) = 1 /\ << rule >>[1] = rule
    BY <1>1
  <2>3. Len(rules) \in Nat
    BY LenProperties
  <2>4. /\ rules \o << rule >> \in Seq(S)
        /\ Len(rules \o << rule >>) = Len(rules) + 1
        /\ (rules \o << rule >>)[Len(rules) + 1] = rule
        /\ \A i \in 1 .. Len(rules) : (rules \o << rule >>)[i] = rules[i]
    BY <2>2, <2>3, ConcatProperties
  <2> QED
    BY <1>1, <2>1, <2>4
<1>2. CASE ~holds
  <2>1. Given(rule, holds) = << >>
    BY <1>2 DEF Given
  <2>2. rules \o << >> = rules
    BY ConcatEmptySeq
  <2> QED
    BY <1>2, <2>1, <2>2
<1> QED
  BY <1>1, <1>2

\* What is kept of the candidates: the first ones, and at least one.
LEMMA TopKept ==
  ASSUME NEW S, NEW rules \in Seq(S), NEW otherwise \in S
  PROVE  LET top == Top(rules, otherwise)
         IN  /\ top \in Seq(S) /\ Len(top) \in 1 .. TopK
             /\ rules = << >> => top = << otherwise >>
             /\ rules # << >> => /\ Len(top) = IF Len(rules) <= TopK THEN Len(rules) ELSE TopK
                                /\ \A i \in 1 .. Len(top) : top[i] = rules[i]
<1>1. TopK \in Nat /\ TopK >= 1 /\ Len(rules) \in Nat
  BY AnalyzerAssumption, LenProperties
<1>2. CASE rules = << >>
  BY <1>1, <1>2 DEF Top
<1>3. CASE rules # << >>
  <2> DEFINE n == IF Len(rules) <= TopK THEN Len(rules) ELSE TopK
  <2>1. Len(rules) >= 1
    BY <1>1, <1>3, EmptySeq
  <2>2. n \in 1 .. Len(rules) /\ n <= TopK
    BY <1>1, <2>1
  <2>3. Top(rules, otherwise) = SubSeq(rules, 1, n)
    BY <1>3 DEF Top
  <2> HIDE DEF n
  <2>4. /\ \A i \in 1 .. n : rules[i] \in S
        /\ 1 \in Int /\ n \in Int /\ 1 <= n + 1
    BY <1>1, <2>2, ElementOfSeq
  <2>5. /\ SubSeq(rules, 1, n) \in Seq(S) /\ Len(SubSeq(rules, 1, n)) = n - 1 + 1
        /\ \A i \in 1 .. n - 1 + 1 : SubSeq(rules, 1, n)[i] = rules[1 + i - 1]
    BY <2>4, SubSeqProperties
  <2>6. \A i \in 1 .. n : SubSeq(rules, 1, n)[i] = rules[i]
    BY <2>2, <2>5
  <2> QED
    BY <1>1, <1>3, <2>2, <2>3, <2>5, <2>6 DEF n
<1> QED
  BY <1>2, <1>3

\* The rules for a mismatch that hold: of what is near it and of the checks.
NearRules(combined, checks) ==
  {rule \in {"R-IO", "R-SYNC", "R-OUTPUT", "R-DEADLOCK", "R-SYSCALL"} :
     /\ rule = "R-IO" => \E ev \in combined : Replayed(ev)
     /\ rule = "R-SYNC" => \E ev \in combined : Synchronizes(ev)
     /\ rule = "R-DEADLOCK" => \E ev \in combined : OnMutex(ev)}

\* Input comes first if it is there, and output third at the latest.
LEMMA NearRanked ==
  ASSUME NEW combined, NEW checks
  PROVE  LET rules == NearMismatch(combined, checks)
         IN  /\ rules \in Seq(NearRules(combined, checks))
             /\ (\E ev \in combined : Replayed(ev)) => rules # << >> /\ rules[1] = "R-IO"
             /\ ~checks.stdout_hash =>
                  \E i \in 1 .. 3 : i <= Len(rules) /\ rules[i] = "R-OUTPUT"
<1> DEFINE S == NearRules(combined, checks)
           io == \E ev \in combined : Replayed(ev)
           sync == \E ev \in combined : Synchronizes(ev)
           out == ~checks.stdout_hash
           mutex == (\E ev \in combined : OnMutex(ev)) /\ ~checks.event_sequence
           exit == ~checks.exit_code
           r1 == Given("R-IO", io)
           r2 == r1 \o Given("R-SYNC", sync)
           r3 == r2 \o Given("R-OUTPUT", out)
           r4 == r3 \o Given("R-DEADLOCK", mutex)
           r5 == r4 \o Given("R-SYSCALL", exit)
<1>1. NearMismatch(combined, checks) = r5
  BY DEF NearMismatch
<1>2. /\ io => "R-IO" \in S
      /\ sync => "R-SYNC" \in S
      /\ out => "R-OUTPUT" \in S
      /\ mutex => "R-DEADLOCK" \in S
      /\ exit => "R-SYSCALL" \in S
  BY DEF NearRules
<1> HIDE DEF S, io, sync, out, mutex, exit
<1>3. /\ r1 \in Seq(S)
      /\ io => Len(r1) = 1 /\ r1[1] = "R-IO"
      /\ ~io => Len(r1) = 0
  BY <1>2, CandidateFirst
<1> HIDE DEF r1
<1>4. /\ r2 \in Seq(S)
      /\ sync => Len(r2) = Len(r1) + 1 /\ \A i \in 1 .. Len(r1) : r2[i] = r1[i]
      /\ ~sync => r2 = r1
  BY <1>2, <1>3, CandidateAppended
<1> HIDE DEF r2
<1>5. /\ r3 \in Seq(S)
      /\ out => /\ Len(r3) = Len(r2) + 1 /\ r3[Len(r2) + 1] = "R-OUTPUT"
                /\ \A i \in 1 .. Len(r2) : r3[i] = r2[i]
      /\ ~out => r3 = r2
  BY <1>2, <1>4, CandidateAppended
<1> HIDE DEF r3
<1>6. /\ r4 \in Seq(S)
      /\ mutex => Len(r4) = Len(r3) + 1 /\ \A i \in 1 .. Len(r3) : r4[i] = r3[i]
      /\ ~mutex => r4 = r3
  BY <1>2, <1>5, CandidateAppended
<1> HIDE DEF r4
<1>7. /\ r5 \in Seq(S)
      /\ exit => Len(r5) = Len(r4) + 1 /\ \A i \in 1 .. Len(r4) : r5[i] = r4[i]
      /\ ~exit => r5 = r4
  BY <1>2, <1>6, CandidateAppended
<1> HIDE DEF r5
<1>8. /\ Len(r1) \in Nat /\ Len(r2) \in Nat /\ Len(r3) \in Nat /\ Len(r4) \in Nat
      /\ Len(r5) \in Nat
  BY <1>3, <1>4, <1>5, <1>6, <1>7, LenProperties
<1>9. /\ Len(r2) <= Len(r1) + 1 /\ Len(r1) <= Len(r2)
      /\ \A i \in 1 .. Len(r1) : r2[i] = r1[i]
  BY <1>4, <1>8
<1>10. Len(r2) <= Len(r3) /\ \A i \in 1 .. Len(r2) : r3[i] = r2[i]
  BY <1>5, <1>8
<1>11. Len(r3) <= Len(r4) /\ \A i \in 1 .. Len(r3) : r4[i] = r3[i]
  BY <1>6, <1>8
<1>12. Len(r4) <= Len(r5) /\ \A i \in 1 .. Len(r4) : r5[i] = r4[i]
  BY <1>7, <1>8
<1>13. io => r5 # << >> /\ r5[1] = "R-IO"
  <2>1. io => Len(r2) >= 1 /\ r2[1] = "R-IO"
    BY <1>3, <1>8, <1>9
  <2>2. io => Len(r3) >= 1 /\ r3[1] = "R-IO"
    BY <1>8, <1>10, <2>1
  <2>3. io => Len(r4) >= 1 /\ r4[1] = "R-IO"
    BY <1>8, <1>11, <2>2
  <2>4. io => Len(r5) >= 1 /\ r5[1] = "R-IO"
    BY <1>8, <1>12, <2>3
  <2>5. Len(<< >>) = 0
    BY EmptySeq
  <2> QED
    BY <2>4, <2>5
<1>14. out => \E i \in 1 .. 3 : i <= Len(r5) /\ r5[i] = "R-OUTPUT"
  <2> SUFFICES ASSUME out
               PROVE  \E i \in 1 .. 3 : i <= Len(r5) /\ r5[i] = "R-OUTPUT"
    OBVIOUS
  <2> DEFINE k == Len(r2) + 1
  <2>1. k \in 1 .. 3 /\ k \in 1 .. Len(r3) /\ r3[k] = "R-OUTPUT"
    BY <1>3, <1>5, <1>8, <1>9
  <2> HIDE DEF k
  <2>2. r4[k] = "R-OUTPUT" /\ k \in 1 .. Len(r4)
    BY <1>8, <1>11, <2>1
  <2>3. r5[k] = "R-OUTPUT" /\ k <= Len(r5)
    BY <1>8, <1>12, <2>2
  <2> QED
    BY <2>1, <2>3
<1> QED
  BY <1>1, <1>7, <1>13, <1>14 DEF S, io, out

\* Without a mismatch output comes first.
LEMMA OthersRanked ==
  ASSUME NEW all, NEW checks
  PROVE  LET rules == WithoutMismatch(all, checks)
         IN  /\ rules \in Seq({"R-OUTPUT", "R-EXIT", "R-SYNC"})
             /\ ~checks.stdout_hash => rules # << >> /\ rules[1] = "R-OUTPUT"
<1> DEFINE S == {"R-OUTPUT", "R-EXIT", "R-SYNC"}
           sync == \E ev \in all : Synchronizes(ev)
           out == ~checks.stdout_hash
           exit == ~checks.exit_code
           r1 == Given("R-OUTPUT", out)
           r2 == r1 \o Given("R-EXIT", exit)
           r3 == r2 \o Given("R-SYNC", sync)
<1>1. WithoutMismatch(all, checks) = r3
  BY DEF WithoutMismatch
<1> HIDE DEF sync, out, exit
<1>2. /\ r1 \in Seq(S)
      /\ out => Len(r1) = 1 /\ r1[1] = "R-OUTPUT"
  BY CandidateFirst
<1> HIDE DEF r1
<1>3. /\ r2 \in Seq(S)
      /\ exit => Len(r2) = Len(r1) + 1 /\ \A i \in 1 .. Len(r1) : r2[i] = r1[i]
      /\ ~exit => r2 = r1
  BY <1>2, CandidateAppended
<1> HIDE DEF r2
<1>4. /\ r3 \in Seq(S)
      /\ sync => Len(r3) = Len(r2) + 1 /\ \A i \in 1 .. Len(r2) : r3[i] = r2[i]
      /\ ~sync => r3 = r2
  BY <1>3, CandidateAppended
<1> HIDE DEF r3
<1>5. Len(r1) \in Nat /\ Len(r2) \in Nat /\ Len(r3) \in Nat
  BY <1>2, <1>3, <1>4, LenProperties
<1>6. out => r3 # << >> /\ r3[1] = "R-OUTPUT"
  <2>1. out => Len(r2) >= 1 /\ r2[1] = "R-OUTPUT"
    <3>1. Len(r1) <= Len(r2) /\ \A i \in 1 .. Len(r1) : r2[i] = r1[i]
      BY <1>3, <1>5
    <3>2. out => Len(r1) = 1 /\ r1[1] = "R-OUTPUT"
      BY <1>2
    <3>3. out => 1 \in 1 .. Len(r1)
      BY <1>5, <3>2
    <3> QED
      BY <1>5, <3>1, <3>2, <3>3
  <2>2. out => Len(r3) >= 1 /\ r3[1] = "R-OUTPUT"
    <3>1. Len(r2) <= Len(r3) /\ \A i \in 1 .. Len(r2) : r3[i] = r2[i]
      BY <1>4, <1>5
    <3> QED
      BY <1>5, <2>1, <3>1
  <2>3. Len(<< >>) = 0
    BY EmptySeq
  <2> QED
    BY <2>2, <2>3
<1> QED
  BY <1>1, <1>4, <1>6 DEF out

(***************************************************************************)
(* The window about a mismatch.                                             *)
(***************************************************************************)
\* What the analyzer reads is lines; it has read all the verifier has, but for the
\* TRACE_ERROR.
LEMMA LinesRead ==
  ASSUME NEW lines \in Seq(LineType)
  PROVE  LET es == AnalyzedEvents(lines)
         IN  /\ \A k \in DOMAIN es : k \in 1 .. Len(lines) /\ es[k] = lines[k].body
             /\ \A k \in 1 .. Len(LoadEvents(lines)) :
                  LoadEvents(lines)[k].etype # "TRACE_ERROR" =>
                    k \in DOMAIN es /\ LoadEvents(lines)[k] = es[k]
<1> DEFINE broken == {n \in DOMAIN lines : ~Decodable(lines[n])}
           first == CHOOSE n \in broken : \A m \in broken : n <= m
           read == {n \in DOMAIN lines : \A m \in 1 .. n : Decodable(lines[m])}
<1>1. Len(lines) \in Nat /\ DOMAIN lines = 1 .. Len(lines)
  BY LenProperties
<1>2. /\ DOMAIN AnalyzedEvents(lines) = read
      /\ \A k \in read : k \in 1 .. Len(lines) /\ AnalyzedEvents(lines)[k] = lines[k].body
  BY <1>1 DEF AnalyzedEvents
<1>3. CASE broken = {}
  <2>1. LoadEvents(lines) = [i \in DOMAIN lines |-> lines[i].body]
    BY <1>3 DEF LoadEvents
  <2>2. Len(LoadEvents(lines)) = Len(lines)
    BY <1>1, <2>1, EventsLoaded, LenProperties
  <2>3. \A k \in 1 .. Len(lines) : k \in read
    BY <1>1, <1>3
  <2> QED
    BY <1>1, <1>2, <2>1, <2>2, <2>3
<1>4. CASE broken # {}
  <2>1. first \in broken /\ \A m \in broken : first <= m
    <3>1. broken \in SUBSET Nat
      BY <1>1
    <3> HIDE DEF broken
    <3> QED
      BY <1>4, <3>1, LeastChosen
  <2>2. LoadEvents(lines) =
          [i \in 1 .. first |-> IF i < first THEN lines[i].body ELSE TraceError(first)]
    BY <1>4 DEF LoadEvents
  <2> HIDE DEF first
  <2>3. first \in 1 .. Len(lines)
    BY <1>1, <2>1
  <2>4. Len(LoadEvents(lines)) = first
    BY <2>2, <2>3, EventsLoaded, LenProperties
  <2>5. ASSUME NEW k \in 1 .. first, LoadEvents(lines)[k].etype # "TRACE_ERROR"
        PROVE  k \in read /\ LoadEvents(lines)[k] = lines[k].body
    <3>1. k < first
      BY <2>2, <2>3, <2>5 DEF TraceError, Body
    <3>2. \A m \in 1 .. k : m \in DOMAIN lines /\ m \notin broken
      BY <1>1, <2>1, <2>3, <3>1
    <3>3. k \in read
      BY <1>1, <3>2
    <3> QED
      BY <2>2, <2>3, <3>1, <3>3
  <2> QED
    BY <1>2, <2>4, <2>5
<1> QED
  BY <1>2, <1>3, <1>4

\* The event at a mismatch is one the analyzer has read, a result of a replayed syscall,
\* and in the window about its own number.
LEMMA MismatchInWindow ==
  ASSUME NEW lines \in Seq(LineType), \A n \in 1 .. Len(lines) : lines[n].body.seq # 0,
         NEW place \in 1 .. Len(CheckedEvents(LoadEvents(lines)))
  PROVE  \E ev \in Window(AnalyzedEvents(lines), SeqAt(LoadEvents(lines), place)) :
           Replayed(ev) /\ ev.etype = "SYSCALL" /\ ev.seq = SeqAt(LoadEvents(lines), place)
<1> DEFINE es == LoadEvents(lines)
           read == AnalyzedEvents(lines)
           checked == CheckedEvents(es)
<1>1. es \in Seq(EventType)
  BY EventsLoaded
<1>2. \A k \in 1 .. Len(es) : es[k].etype # "TRACE_ERROR" => k \in DOMAIN read /\ es[k] = read[k]
  BY LinesRead
<1>3. \A k \in DOMAIN read : k \in 1 .. Len(lines) /\ read[k] = lines[k].body
  BY LinesRead
<1>4. \A n \in 1 .. Len(lines) : lines[n].body \in BodyType
  <2>1. \A n \in 1 .. Len(lines) : lines[n] \in LineType
    BY ElementOfSeq
  <2> QED
    BY <2>1 DEF LineType
<1>0. place \in 1 .. Len(checked)
  OBVIOUS
<1> HIDE DEF es, read
<1>5. /\ checked \in Seq(EventType) /\ IsChecked(checked[place])
      /\ \E k \in 1 .. Len(es) : checked[place] = es[k]
  BY <1>0, <1>1, CheckedFrom
<1> HIDE DEF checked
<1>6. PICK k \in 1 .. Len(es) : checked[place] = es[k]
  BY <1>5
<1>7. k \in DOMAIN read /\ es[k] = read[k] /\ read[k] = lines[k].body /\ k \in 1 .. Len(lines)
  <2>1. es[k].etype # "TRACE_ERROR"
    BY <1>5, <1>6 DEF IsChecked
  <2> QED
    BY <1>2, <1>3, <2>1
<1> DEFINE ev == read[k]
<1>8. ev \in BodyType /\ ev.seq # 0 /\ IsChecked(ev)
  BY <1>4, <1>5, <1>6, <1>7
<1>9. ev.etype = "SYSCALL" /\ Replayed(ev) /\ ev.seq \in Nat
  BY <1>8 DEF BodyType, IsChecked, Replayed, PayloadCalls
<1>10. SeqAt(es, place) = ev.seq
  <2>1. place \in DOMAIN checked
    BY <1>0, <1>5, LenProperties
  <2>2. SeqAt(es, place) = checked[place].seq
    BY <2>1 DEF SeqAt, checked
  <2> QED
    BY <1>6, <1>7, <2>2
<1>11. ev \in Window(read, ev.seq)
  <2>1. ev \in EventsOf(read)
    BY <1>7 DEF EventsOf
  <2>2. ev.seq \in ev.seq - Around .. ev.seq + Around
    BY <1>9, AnalyzerAssumption
  <2> QED
    BY <1>8, <2>1, <2>2 DEF Window
<1> QED
  BY <1>9, <1>10, <1>11 DEF es, read

(***************************************************************************)
(* The report.                                                              *)
(***************************************************************************)
\* What the replayer writes into a new directory: numbered, and nothing of the hook's.
OwnKind ==
  \A n \in 1 .. Len(events) :
    /\ events[n].body.seq # 0
    /\ ~Synchronizes(events[n].body) /\ ~OnMutex(events[n].body)

\* The hook's lines are not in the window about a line of the recorder's.
LEMMA HookOutside ==
  ASSUME NEW t, t.lines \in Seq(LineType), HookApart(t),
         NEW here \in Window(AnalyzedEvents(t.lines), SeqAt(LoadEvents(t.lines), mismatch)),
         NEW there \in Window(AnalyzedEvents(t.lines), SeqAt(LoadEvents(t.lines), mismatch)),
         there.etype = "SYSCALL", there.seq = SeqAt(LoadEvents(t.lines), mismatch),
         SeqAt(LoadEvents(t.lines), mismatch) # 0
  PROVE  ~Synchronizes(here) /\ ~OnMutex(here)
<1> DEFINE read == AnalyzedEvents(t.lines)
           n == SeqAt(LoadEvents(t.lines), mismatch)
<1>1. \A k \in DOMAIN read : k \in 1 .. Len(t.lines) /\ read[k] = t.lines[k].body
  BY LinesRead
<1> HIDE DEF read, n
<1>2. PICK i \in DOMAIN read : here = read[i] /\ here.seq \in n - Around .. n + Around
  BY DEF Window, EventsOf, read, n
<1>3. PICK j \in DOMAIN read : there = read[j]
  BY DEF Window, EventsOf, read, n
<1>4. /\ here = t.lines[i].body /\ i \in 1 .. Len(t.lines)
      /\ there = t.lines[j].body /\ j \in 1 .. Len(t.lines)
  BY <1>1, <1>2, <1>3
<1>5. here.seq \in Nat /\ there.seq \in Nat
  <2>1. t.lines[i] \in LineType /\ t.lines[j] \in LineType
    BY <1>4, ElementOfSeq
  <2>2. t.lines[i].body \in BodyType /\ t.lines[j].body \in BodyType
    BY <2>1 DEF LineType
  <2> QED
    BY <1>4, <2>2 DEF BodyType
<1>6. there.seq + Around < SyncSeqBase /\ there.seq = n
  BY <1>4 DEF HookApart, Synchronizes, n
<1>7. here.seq <= n + Around
  BY <1>2, <1>5, <1>6, AnalyzerAssumption
<1>8. ~(here.seq >= SyncSeqBase)
  BY <1>5, <1>6, <1>7, AnalyzerAssumption DEF SyncSeqBase
<1> QED
  BY <1>4, <1>8 DEF HookApart

\* The rules the report names.
LEMMA Ranked ==
  ASSUME trace.lines \in Seq(LineType), events \in Seq(LineType),
         OwnKind, Judged, report \in {"pass", "fail"}, Analyze
  PROVE  /\ analysis' \in Seq(Rules) /\ Len(analysis') \in 1 .. TopK
         /\ analysis' = << "PASS" >> <=> report = "pass"
         /\ LinesNumbered(trace) => (analysis'[1] = "R-IO" <=> mismatch # 0)
         /\ TopK >= 3 /\ Outcome(trace.result).stdout # Outcome(result).stdout =>
              \E i \in 1 .. Len(analysis') : analysis'[i] = "R-OUTPUT"
         /\ LinesNumbered(trace) /\ HookApart(trace) /\ mismatch # 0
              /\ (\E i \in 1 .. Len(analysis') : analysis'[i] \in {"R-SYNC", "R-DEADLOCK"}) =>
                SeqAt(LoadEvents(trace.lines), mismatch) = 0
<1> DEFINE a == LoadEvents(trace.lines)
           b == LoadEvents(events)
           checks == Checks(trace.result, result, a, b)
           wa == Window(AnalyzedEvents(trace.lines), SeqAt(a, mismatch))
           wb == Window(AnalyzedEvents(events), SeqAt(b, mismatch))
           both == wa \cup wb
           all == EventsOf(AnalyzedEvents(trace.lines)) \cup EventsOf(AnalyzedEvents(events))
<1>1. analysis' = IF mismatch # 0 THEN Top(NearMismatch(both, checks), "R-GENERIC")
                  ELSE IF report = "pass" THEN << "PASS" >>
                  ELSE Top(WithoutMismatch(all, checks), "R-HIGHLEVEL")
  BY DEF Analyze, Candidates
<1>2. report = Verdict(checks) /\ mismatch = FirstSequenceMismatch(a, b)
  BY DEF Judged
<1>3. /\ report = "pass" => mismatch = 0 /\ checks.stdout_hash
      /\ checks.stdout_hash <=> Outcome(trace.result).stdout = Outcome(result).stdout
  BY <1>2, VerdictTells
<1>4. CASE mismatch = 0 /\ report = "pass"
  <2>1. analysis' = << "PASS" >> /\ checks.stdout_hash
    BY <1>1, <1>3, <1>4
  <2>2. << "PASS" >> \in Seq(Rules) /\ Len(<< "PASS" >>) = 1 /\ << "PASS" >>[1] = "PASS"
    BY DEF Rules
  <2>3. 1 \in 1 .. TopK
    BY AnalyzerAssumption
  <2> HIDE DEF checks, a, b, wa, wb
  <2> QED
    BY <1>3, <1>4, <2>1, <2>2, <2>3
<1>5. CASE mismatch = 0 /\ report # "pass"
  <2> DEFINE S == {"R-OUTPUT", "R-EXIT", "R-SYNC"}
             T == S \cup {"R-HIGHLEVEL"}
             rules == WithoutMismatch(all, checks)
  <2>1. analysis' = Top(rules, "R-HIGHLEVEL")
    BY <1>1, <1>5
  <2>2. rules \in Seq(S) /\ (~checks.stdout_hash => rules # << >> /\ rules[1] = "R-OUTPUT")
    BY OthersRanked
  <2> HIDE DEF checks, a, b, wa, wb, all, rules
  <2>3. rules \in Seq(T) /\ "R-HIGHLEVEL" \in T
    BY <2>2, SeqDef
  <2>4. /\ analysis' \in Seq(T) /\ Len(analysis') \in 1 .. TopK
        /\ rules # << >> => \A i \in 1 .. Len(analysis') : analysis'[i] = rules[i]
    <3> HIDE DEF T
    <3> QED
      BY <2>1, <2>3, TopKept
  <2>5. 1 \in 1 .. Len(analysis') /\ analysis'[1] \in T
    BY <2>4, AnalyzerAssumption, ElementOfSeq
  <2>6. analysis'[1] # "PASS" /\ analysis'[1] # "R-IO" /\ analysis' # << "PASS" >>
    BY <2>5
  <2>7. analysis' \in Seq(Rules)
    BY <2>4, SeqDef DEF Rules
  <2>8. ~checks.stdout_hash => analysis'[1] = "R-OUTPUT"
    BY <2>2, <2>4, <2>5
  <2> QED
    BY <1>3, <1>5, <2>4, <2>5, <2>6, <2>7, <2>8
<1>6. CASE mismatch # 0
  <2> DEFINE S == NearRules(both, checks)
             T == S \cup {"R-GENERIC"}
             rules == NearMismatch(both, checks)
  <2>1. analysis' = Top(rules, "R-GENERIC")
    BY <1>1, <1>6
  <2>2. /\ rules \in Seq(S)
        /\ (\E ev \in both : Replayed(ev)) => rules # << >> /\ rules[1] = "R-IO"
        /\ ~checks.stdout_hash => \E i \in 1 .. 3 : i <= Len(rules) /\ rules[i] = "R-OUTPUT"
    BY NearRanked
  <2>3. T \subseteq Rules \ {"PASS"}
    BY DEF NearRules, Rules
  <2>4. /\ "R-SYNC" \in T => \E ev \in both : Synchronizes(ev)
        /\ "R-DEADLOCK" \in T => \E ev \in both : OnMutex(ev)
    BY DEF NearRules
  <2>5. \/ mismatch \in 1 .. Len(CheckedEvents(a))
        \/ mismatch \in 1 .. Len(CheckedEvents(b))
    <3>1. CheckedEvents(a) \in Seq(EventType) /\ CheckedEvents(b) \in Seq(EventType)
      BY EventsLoaded, CheckedFrom
    <3>2. mismatch = FirstDifference(CheckedEvents(a), CheckedEvents(b))
      BY <1>2 DEF FirstSequenceMismatch
    <3> HIDE DEF a, b
    <3>3. /\ mismatch \in Nat \ {0}
          /\ mismatch <= Len(CheckedEvents(a)) \/ mismatch <= Len(CheckedEvents(b))
      BY <1>6, <3>1, <3>2, FirstDifferenceFirst
    <3>4. Len(CheckedEvents(a)) \in Nat /\ Len(CheckedEvents(b)) \in Nat
      BY <3>1, LenProperties
    <3> QED
      BY <3>3, <3>4
  <2>6. LinesNumbered(trace) => \E ev \in both : Replayed(ev)
    <3> SUFFICES ASSUME LinesNumbered(trace)
                 PROVE  \E ev \in both : Replayed(ev)
      OBVIOUS
    <3>1. CASE mismatch \in 1 .. Len(CheckedEvents(a))
      <4>1. \E ev \in wa : Replayed(ev)
        BY <3>1, MismatchInWindow DEF LinesNumbered
      <4> QED
        BY <4>1
    <3>2. CASE mismatch \in 1 .. Len(CheckedEvents(b))
      <4>1. \E ev \in wb : Replayed(ev)
        BY <3>2, MismatchInWindow DEF OwnKind
      <4> QED
        BY <4>1
    <3> QED
      BY <2>5, <3>1, <3>2
  <2>7. ASSUME LinesNumbered(trace), HookApart(trace), SeqAt(a, mismatch) # 0
        PROVE  ~\E ev \in both : Synchronizes(ev) \/ OnMutex(ev)
    <3>1. \A ev \in wb : ~Synchronizes(ev) /\ ~OnMutex(ev)
      <4>1. \A k \in DOMAIN AnalyzedEvents(events) :
              k \in 1 .. Len(events) /\ AnalyzedEvents(events)[k] = events[k].body
        BY LinesRead
      <4>2. \A ev \in wb : \E k \in DOMAIN AnalyzedEvents(events) : ev = AnalyzedEvents(events)[k]
        BY DEF Window, EventsOf
      <4> HIDE DEF wb
      <4> QED
        BY <4>1, <4>2 DEF OwnKind
    <3>2. mismatch \in 1 .. Len(CheckedEvents(a))
      <4>1. mismatch \in DOMAIN CheckedEvents(a)
        BY <2>7 DEF SeqAt
      <4> QED
        BY <4>1, EventsLoaded, CheckedFrom, LenProperties
    <3>3. PICK there \in wa : there.etype = "SYSCALL" /\ there.seq = SeqAt(a, mismatch)
      BY <2>7, <3>2, MismatchInWindow DEF LinesNumbered
    <3>4. \A ev \in wa : ~Synchronizes(ev) /\ ~OnMutex(ev)
      BY <2>7, <3>3, HookOutside
    <3> HIDE DEF wa, wb
    <3> QED
      BY <3>1, <3>4
  <2> HIDE DEF checks, a, b, wa, wb, both, S, rules
  <2>8. rules \in Seq(T) /\ "R-GENERIC" \in T
    BY <2>2, SeqDef
  <2>9. /\ analysis' \in Seq(T) /\ Len(analysis') \in 1 .. TopK
        /\ rules # << >> => /\ Len(analysis') = IF Len(rules) <= TopK THEN Len(rules) ELSE TopK
                           /\ \A i \in 1 .. Len(analysis') : analysis'[i] = rules[i]
    BY <2>1, <2>8, TopKept
  <2> HIDE DEF T
  <2>10. 1 \in 1 .. Len(analysis') /\ \A i \in 1 .. Len(analysis') : analysis'[i] \in T
    BY <2>9, AnalyzerAssumption, ElementOfSeq
  <2>11. analysis' # << "PASS" >> /\ analysis' \in Seq(Rules)
    <3>1. analysis'[1] # "PASS"
      BY <2>3, <2>10
    <3>2. analysis' # << "PASS" >>
      BY <3>1
    <3>3. analysis' \in Seq(Rules)
      BY <2>3, <2>9, SeqDef
    <3> QED
      BY <3>2, <3>3
  <2>12. LinesNumbered(trace) => analysis'[1] = "R-IO"
    BY <2>2, <2>6, <2>9, <2>10
  <2>13. TopK >= 3 /\ ~checks.stdout_hash =>
           \E i \in 1 .. Len(analysis') : analysis'[i] = "R-OUTPUT"
    <3> SUFFICES ASSUME TopK >= 3, ~checks.stdout_hash
                 PROVE  \E i \in 1 .. Len(analysis') : analysis'[i] = "R-OUTPUT"
      OBVIOUS
    <3>1. PICK i \in 1 .. 3 : i <= Len(rules) /\ rules[i] = "R-OUTPUT"
      BY <2>2
    <3>2. Len(rules) \in Nat /\ TopK \in Nat
      BY <2>8, LenProperties, AnalyzerAssumption
    <3>3. rules # << >>
      BY <3>1, EmptySeq
    <3>4. i \in 1 .. Len(analysis')
      BY <2>9, <3>1, <3>2, <3>3
    <3> QED
      BY <2>9, <3>1, <3>3, <3>4
  <2>14. LinesNumbered(trace) /\ HookApart(trace)
           /\ (\E i \in 1 .. Len(analysis') : analysis'[i] \in {"R-SYNC", "R-DEADLOCK"}) =>
             SeqAt(a, mismatch) = 0
    BY <2>4, <2>7, <2>10
  <2>15. report # "pass"
    BY <1>3, <1>6
  <2> QED
    BY <1>3, <1>6, <2>9, <2>11, <2>12, <2>13, <2>14, <2>15 DEF a
<1> QED
  BY <1>4, <1>5, <1>6

(***************************************************************************)
(* The loop and its sessions.                                               *)
(***************************************************************************)
\* A line of the replayer's has a number and is not like the hook's.
LEMMA OwnKindStep ==
  ASSUME TypeOK, OwnKind, [Next]_vars
  PROVE  OwnKind'
<1>1. ASSUME NEW body, Emit(body), body.seq # 0, ~Synchronizes(body), ~OnMutex(body)
      PROVE  OwnKind'
  <2> DEFINE l == Line(prev_hash, body)
  <2>1. events \in Seq(LineType \cup {l}) /\ Len(events) \in Nat
    BY LenProperties, SeqDef DEF TypeOK
  <2>2. events' = Append(events, l) /\ l.body = body
    BY <1>1 DEF Emit, Line
  <2> HIDE DEF l
  <2>3. /\ Len(events') = Len(events) + 1 /\ events'[Len(events) + 1] = l
        /\ \A i \in 1 .. Len(events) : events'[i] = events[i]
    BY <2>1, <2>2, AppendProperties
  <2>4. ASSUME NEW n \in 1 .. Len(events')
        PROVE  /\ events'[n].body.seq # 0
               /\ ~Synchronizes(events'[n].body) /\ ~OnMutex(events'[n].body)
    <3>1. CASE n = Len(events) + 1
      BY <1>1, <2>2, <2>3, <3>1
    <3>2. CASE n # Len(events) + 1
      <4>1. n \in 1 .. Len(events)
        BY <2>1, <2>3, <3>2
      <4> QED
        BY <2>3, <4>1 DEF OwnKind
    <3> QED
      BY <3>1, <3>2
  <2> QED
    BY <2>4 DEF OwnKind
<1>2. ASSUME NEW name \in ProcessNames, EmitProcess(name)
      PROVE  OwnKind'
  <2> DEFINE body == ProcessBody(name, seq + 1)
  <2>1. body.seq # 0 /\ ~Synchronizes(body) /\ ~OnMutex(body)
    BY DEF TypeOK, ProcessBody, Body, Synchronizes, OnMutex, ProcessNames
  <2>2. Emit(body)
    BY <1>2 DEF EmitProcess
  <2> HIDE DEF body
  <2> QED
    BY <1>1, <2>1, <2>2
<1>3. CASE Attach
  BY <1>2, <1>3 DEF Attach, ProcessNames
<1>4. CASE WaitDeath
  <2>1. PICK name \in ProcessNames : EmitProcess(name)
    BY <1>4 DEF WaitDeath, ProcessNames
  <2> QED
    BY <1>2, <2>1
<1>5. CASE EmitSyscall
  <2> DEFINE body == SyscallBody(entry, seq + 1, shown, EmittedRef)
  <2>1. entry # "pthread_mutex_lock"
    BY TraceAssumption DEF TypeOK, Calls, PayloadCalls, TimeCalls
  <2>2. body.seq # 0 /\ ~Synchronizes(body) /\ ~OnMutex(body)
    BY <2>1 DEF TypeOK, SyscallBody, Body, Synchronizes, OnMutex
  <2>3. Emit(body)
    BY <1>5 DEF EmitSyscall
  <2> HIDE DEF body
  <2> QED
    BY <1>1, <2>2, <2>3
<1>6. CASE events' = events
  BY <1>6 DEF OwnKind
<1>7. CASE LoadLine \/ Loaded \/ TargetUnknown \/ StartFails \/ PtraceFails \/ Fork
  BY <1>6, <1>7 DEF LoadLine, Loaded, TargetUnknown, StartFails, PtraceFails, Fork, diskVars
<1>8. CASE Resume \/ WaitSignalStop \/ WaitSyscallStop \/ AtEntry \/ AtExit \/ Inject \/ InjectFails
  BY <1>6, <1>8
  DEF Resume, WaitSignalStop, WaitSyscallStop, AtEntry, AtExit, Inject, InjectFails, diskVars
<1>9. CASE WriteResult \/ WriteResultFails \/ Close \/ Crash \/ TargetMoves \/ UNCHANGED vars
  BY <1>6, <1>9 DEF WriteResult, WriteResultFails, Close, Crash, TargetMoves, vars, diskVars
<1> QED
  BY <1>3, <1>4, <1>5, <1>7, <1>8, <1>9 DEF Next, ReplayerStep

\* A recording begins a session of its own in a new directory; no other step of the loop
\* is more to the session than one of its own.
LEMMA BeginsNew == Afresh => (Begins /\ NewDirectory)'
<1> SUFFICES ASSUME Afresh
             PROVE  (Begins /\ NewDirectory)'
  OBVIOUS
<1>1. << >> \in Seq(LineType) /\ << >> \in Seq(Byte)
  BY EmptySeq
<1>2. NoResult \in ResultType
  BY EmptySeq DEF NoResult, ResultType
<1>3. in_syscall' = FALSE
  BY Zenon DEF Afresh
<1> QED
  BY <1>1, <1>2, <1>3 DEF Afresh, Begins, TargetInit, NewDirectory

LEMMA BeginsReplay == Afresh => ReplayInv'
<1>1. Begins /\ NewDirectory => ReplayInv
  BY ReplayInit
<1> QED
  BY <1>1, BeginsNew, PTL

LEMMA OneSession ==
  ASSUME [PipelineNext]_pipelineVars, ~Record
  PROVE  [SessionNext]_sessionVars
BY DEF PipelineNext, RecordFails, Replaying, CmdReplay, CmdVerify, CmdAnalyze, Return,
       SessionNext, pipelineVars

\* What holds of the session at each place of the loop.
Sessions ==
  /\ TypeOK /\ Pending /\ Control /\ trace \in Traces
  /\ Judged /\ SessionTypeOK
  /\ stage \in {"replay", "verify", "analyze"} => OwnKind

LEMMA SessionsInit ==
  ASSUME PipelineInit
  PROVE  Sessions
<1>1. Init /\ report = "none" /\ mismatch = 0 /\ stage = "record"
  BY DEF PipelineInit, SessionInit
<1>2. Inv /\ trace \in Traces
  BY <1>1, InitBegins, InitInv DEF Begins
<1> QED
  BY <1>1, <1>2 DEF Sessions, Inv, Judged, SessionTypeOK

LEMMA SessionsStep ==
  ASSUME Sessions, LoopInv, [PipelineNext]_pipelineVars
  PROVE  Sessions'
<1>1. CASE Record
  <2>1. /\ events' = << >> /\ trace' \in Traces /\ report' = "none" /\ mismatch' = 0
    BY <1>1 DEF Record, Afresh
  <2>2. Inv'
    BY <1>1, BeginsReplay DEF Record, ReplayInv
  <2>3. Len(events') = 0
    BY <2>1, EmptySeq
  <2>4. OwnKind' /\ Judged' /\ SessionTypeOK'
    BY <2>1, <2>3 DEF OwnKind, Judged, SessionTypeOK
  <2> QED
    BY <2>1, <2>2, <2>4 DEF Sessions, Inv
<1>2. CASE ~Record
  <2>1. [SessionNext]_sessionVars /\ [Next]_vars
    BY <1>2, OneSession, SessionStep
  <2>2. TypeOK' /\ Pending' /\ Control' /\ Judged' /\ trace' = trace
    BY <2>1, TypeStep, PendingStep, ControlStep, JudgedStep, HistStep, OnlyLoaded DEF Sessions
  <2>3. stage' \in {"replay", "verify", "analyze"} => stage \in {"replay", "verify", "analyze"}
    BY <1>2
    DEF PipelineNext, RecordFails, Raises, Replaying, CmdReplay, CmdVerify, CmdAnalyze, Return,
        pipelineVars, runVars
  <2>4. stage' \in {"replay", "verify", "analyze"} => OwnKind'
    BY <2>1, <2>3, OwnKindStep DEF Sessions
  <2>5. SessionTypeOK'
    <3>1. CASE Verify
      <4>1. /\ CheckedEvents(LoadEvents(trace.lines)) \in Seq(EventType)
            /\ CheckedEvents(LoadEvents(events)) \in Seq(EventType)
        BY EventsLoaded, CheckedFrom DEF Sessions, TypeOK, DirectoryType
      <4>2. FirstSequenceMismatch(LoadEvents(trace.lines), LoadEvents(events)) \in Nat
        BY <4>1, FirstDifferenceFirst DEF FirstSequenceMismatch
      <4>3. Verdict(Checks(trace.result, result, LoadEvents(trace.lines), LoadEvents(events)))
              \in {"pass", "fail"}
        BY Zenon DEF Verdict
      <4> QED
        BY <3>1, <4>2, <4>3 DEF Verify, SessionTypeOK
    <3>2. CASE UNCHANGED << report, mismatch >>
      BY <3>2 DEF Sessions, SessionTypeOK
    <3> QED
      BY <2>1, <3>1, <3>2 DEF SessionNext, Replay, sessionVars
  <2> QED
    BY <2>2, <2>4, <2>5 DEF Sessions
<1> QED
  BY <1>1, <1>2

(***************************************************************************)
(* The report of the last iteration.                                        *)
(***************************************************************************)
\* While an iteration is under way, it is one of those that were asked for.
Bounded ==
  /\ repeat \in 0 .. MaxRepeat /\ stop_on_fail \in BOOLEAN
  /\ Len(verdicts) <= repeat
  /\ stage \in {"replay", "verify"} => Len(verdicts) < repeat
  /\ analysis \in Seq(Rules) /\ Len(analysis) <= TopK
  /\ code \in 0 .. 1

\* What the report names and the assumptions it rests on.
Reported ==
  /\ ReportOfLast
  /\ (\A t \in Traces : LinesNumbered(t)) => InputNamedFirst
  /\ TopK >= 3 => OutputNamed
  /\ (\A t \in Traces : LinesNumbered(t) /\ HookApart(t)) => SyncNamedAtEnd

\* cmd_analyze's report.
LEMMA AnalyzedNow ==
  ASSUME Sessions, LoopInv, CmdAnalyze
  PROVE  /\ analysis' \in Seq(Rules) /\ Len(analysis') <= TopK
         /\ Reported'
<1>1. /\ stage = "analyze" /\ Analyze
      /\ verdicts' = verdicts /\ trace' = trace /\ events' = events /\ result' = result
      /\ report' = report /\ mismatch' = mismatch
  BY DEF CmdAnalyze, sessionVars, vars, diskVars, loadVars
<1>2. report \in {"pass", "fail"} /\ verdicts[Len(verdicts)] = report
  <2>1. Len(verdicts) \in 1 .. Len(verdicts) /\ verdicts[Len(verdicts)] = report
    BY <1>1, LenProperties DEF LoopInv
  <2> QED
    BY <2>1, ElementOfSeq DEF LoopInv, Statuses
<1>3. trace \in Traces /\ trace.lines \in Seq(LineType) /\ events \in Seq(LineType)
  BY DEF Sessions, TypeOK, DirectoryType
<1>4. OwnKind /\ Judged
  BY <1>1 DEF Sessions
<1>5. /\ analysis' \in Seq(Rules) /\ Len(analysis') \in 1 .. TopK
      /\ analysis' = << "PASS" >> <=> report = "pass"
      /\ LinesNumbered(trace) => (analysis'[1] = "R-IO" <=> mismatch # 0)
      /\ TopK >= 3 /\ Outcome(trace.result).stdout # Outcome(result).stdout =>
           \E i \in 1 .. Len(analysis') : analysis'[i] = "R-OUTPUT"
      /\ LinesNumbered(trace) /\ HookApart(trace) /\ mismatch # 0
           /\ (\E i \in 1 .. Len(analysis') : analysis'[i] \in {"R-SYNC", "R-DEADLOCK"}) =>
             SeqAt(LoadEvents(trace.lines), mismatch) = 0
  BY <1>1, <1>2, <1>3, <1>4, Ranked
<1>6. DOMAIN analysis' = 1 .. Len(analysis') /\ Len(analysis') <= TopK
  BY <1>5, LenProperties, AnalyzerAssumption
<1>7. ReportOfLast'
  BY <1>1, <1>2, <1>5 DEF ReportOfLast
<1>8. (\A t \in Traces : LinesNumbered(t)) => InputNamedFirst'
  BY <1>1, <1>3, <1>5 DEF InputNamedFirst
<1>9. TopK >= 3 => OutputNamed'
  BY <1>1, <1>5, <1>6 DEF OutputNamed, Outcome
<1>10. (\A t \in Traces : LinesNumbered(t) /\ HookApart(t)) => SyncNamedAtEnd'
  BY <1>1, <1>3, <1>5, <1>6 DEF SyncNamedAtEnd
<1> QED
  BY <1>5, <1>6, <1>7, <1>8, <1>9, <1>10 DEF Reported

\* No other step touches the report while it is about the last verdict.
LEMMA ReportedStep ==
  ASSUME Sessions, LoopInv, Reported, [PipelineNext]_pipelineVars
  PROVE  Reported'
<1>1. CASE CmdAnalyze
  BY <1>1, AnalyzedNow
<1>2. ASSUME analysis' = analysis, verdicts' = verdicts, stage # "analyze",
             stage' \in {"replay", "verify", "raised"}
      PROVE  Reported'
  BY <1>2 DEF Reported, ReportOfLast, InputNamedFirst, OutputNamed, SyncNamedAtEnd, Analyzed
<1>3. ASSUME UNCHANGED << analysis, verdicts, trace, events, result, report, mismatch >>,
             stage' = stage \/ stage = "record"
      PROVE  Reported'
  <2>1. Analyzed' => Analyzed
    BY <1>3 DEF Analyzed
  <2>2. ReportOfLast'
    BY <1>3 DEF Reported, ReportOfLast
  <2> QED
    BY <1>3, <2>1, <2>2 DEF Reported, InputNamedFirst, OutputNamed, SyncNamedAtEnd, Outcome
<1>4. CASE Record \/ RecordFails
  BY <1>2, <1>4 DEF Record, RecordFails, MoreToRun, Raises
<1>5. CASE Replaying
  BY <1>2, <1>5 DEF Replaying, runVars
<1>6. CASE CmdReplay
  BY <1>2, <1>6 DEF CmdReplay, Raises
<1>7. CASE CmdVerify
  <2>1. CASE report' = "error"
    BY <1>2, <1>7, <2>1 DEF CmdVerify, Raises
  <2>2. CASE report' # "error"
    <3>1. stage' = "analyze"
      BY <1>7, <2>2 DEF CmdVerify
    <3> QED
      BY <3>1 DEF Reported, ReportOfLast, InputNamedFirst, OutputNamed, SyncNamedAtEnd, Analyzed
  <2> QED
    BY <2>1, <2>2
<1>8. CASE Return
  BY <1>3, <1>8 DEF Return, sessionVars, vars, diskVars, loadVars
<1>9. CASE UNCHANGED pipelineVars
  BY <1>3, <1>9 DEF pipelineVars, sessionVars, runVars, vars, diskVars, loadVars
<1> QED
  BY <1>1, <1>4, <1>5, <1>6, <1>7, <1>8, <1>9 DEF PipelineNext

LEMMA BoundedStep ==
  ASSUME Sessions, LoopInv, Bounded, [PipelineNext]_pipelineVars
  PROVE  Bounded'
<1>0. Len(verdicts) \in Nat /\ repeat \in Nat
  BY LenProperties, PipelineAssumption DEF LoopInv, Bounded
<1>1. CASE Record \/ RecordFails
  BY <1>0, <1>1 DEF Bounded, Record, RecordFails, MoreToRun, Raises, argVars
<1>2. CASE Replaying \/ CmdReplay
  BY <1>2 DEF Bounded, Replaying, CmdReplay, Raises, argVars, runVars
<1>3. CASE CmdVerify
  <2>1. CASE report' = "error"
    BY <1>3, <2>1 DEF Bounded, CmdVerify, Raises, argVars
  <2>2. CASE report' # "error"
    <3>1. /\ verdicts' = Append(verdicts, report') /\ report' \in Statuses
          /\ stage = "verify" /\ stage' = "analyze"
      <4>1. report' \in Statuses
        BY <1>3, <2>2, Zenon DEF CmdVerify, Verify, Verdict, Statuses
      <4> QED
        BY <1>3, <2>2, <4>1 DEF CmdVerify
    <3>2. Len(verdicts') = Len(verdicts) + 1
      BY <3>1, AppendProperties DEF LoopInv
    <3> QED
      BY <1>0, <1>3, <2>2, <3>1, <3>2 DEF Bounded, CmdVerify, argVars
  <2> QED
    BY <2>1, <2>2
<1>4. CASE CmdAnalyze
  BY <1>4, AnalyzedNow DEF Bounded, CmdAnalyze, argVars
<1>5. CASE Return \/ UNCHANGED pipelineVars
  BY <1>5 DEF Bounded, Return, pipelineVars, argVars, runVars
<1> QED
  BY <1>1, <1>2, <1>3, <1>4, <1>5 DEF PipelineNext

\* The inductive invariant of the loop.
LoopInvariant == LoopInv /\ Sessions /\ Reported /\ Bounded

LEMMA LoopInductive == PipelineSpec => []LoopInvariant
<1>1. PipelineInit => LoopInvariant
  <2> SUFFICES ASSUME PipelineInit
               PROVE  LoopInvariant
    OBVIOUS
  <2>1. /\ << >> \in Seq(Statuses) /\ DOMAIN << >> = {} /\ << >> \in Seq(Rules)
        /\ Len(<< >>) = 0 /\ TopK \in Nat
    BY EmptySeq, AnalyzerAssumption
  <2>2. LoopInv
    BY <2>1 DEF PipelineInit, LoopInv, Passes
  <2>3. Reported
    BY DEF PipelineInit, Reported, ReportOfLast, InputNamedFirst, OutputNamed, SyncNamedAtEnd,
           Analyzed
  <2>4. stop_on_fail \in BOOLEAN
    BY Zenon DEF PipelineInit
  <2>5. Bounded
    BY <2>1, <2>4, PipelineAssumption DEF PipelineInit, Bounded
  <2> QED
    BY <2>2, <2>3, <2>5, SessionsInit DEF LoopInvariant
<1>2. LoopInvariant /\ [PipelineNext]_pipelineVars => LoopInvariant'
  BY LoopStep, SessionsStep, ReportedStep, BoundedStep DEF LoopInvariant
<1> QED
  BY <1>1, <1>2, PTL DEF PipelineSpec

(***************************************************************************)
(* The theorems.                                                            *)
(***************************************************************************)
\* The types, and the bounds of the loop: no more verdicts than --repeat asks for, and
\* no more than top_k causes.
THEOREM PipelineTyped == PipelineSpec => []PipelineTypeOK
<1>1. LoopInvariant => PipelineTypeOK
  BY DEF LoopInvariant, LoopInv, Sessions, Bounded, PipelineTypeOK, Statuses
<1> QED
  BY <1>1, LoopInductive, PTL

\* ExitCodeTells: with --stop-on-fail, 0 says that every repetition passed, and
\* nothing runs after a failure; without it, that every repetition got a verdict.
THEOREM PipelineExitCode == PipelineSpec => []ExitCodeTells
<1>1. LoopInvariant => ExitCodeTells
  BY DEF LoopInvariant, LoopInv, ExitCodeTells
<1> QED
  BY <1>1, LoopInductive, PTL

\* The report says PASS just when the verdict before it does (cmd_run, adr.py:148-158),
\* after any number of repetitions and after one that raised.
THEOREM PipelineReportOfLast == PipelineSpec => []ReportOfLast
<1>1. LoopInvariant => ReportOfLast
  BY DEF LoopInvariant, Reported
<1> QED
  BY <1>1, LoopInductive, PTL

\* On traces whose lines are numbered, as every recorder's are, R-IO is the first cause
\* after a mismatch and after nothing else: the event at the mismatch is in the window of
\* its own trace, and it is a result of a replayed syscall.
THEOREM PipelineInputNamedFirst ==
  ASSUME \A t \in Traces : LinesNumbered(t)
  PROVE  PipelineSpec => []InputNamedFirst
<1>1. LoopInvariant => InputNamedFirst
  BY DEF LoopInvariant, Reported
<1> QED
  BY <1>1, LoopInductive, PTL

\* With a top_k of 3 or more, which is what adr gives it, a changed stdout is named.
THEOREM PipelineOutputNamed ==
  ASSUME TopK >= 3
  PROVE  PipelineSpec => []OutputNamed
<1>1. LoopInvariant => OutputNamed
  BY DEF LoopInvariant, Reported
<1> QED
  BY <1>1, LoopInductive, PTL

\* If the recorder has stayed below the hook's numbers, a mismatch that has an event in
\* the original never has a SYNC rule among its causes.
THEOREM PipelineSyncNamedAtEnd ==
  ASSUME \A t \in Traces : LinesNumbered(t) /\ HookApart(t)
  PROVE  PipelineSpec => []SyncNamedAtEnd
<1>1. LoopInvariant => SyncNamedAtEnd
  BY DEF LoopInvariant, Reported
<1> QED
  BY <1>1, LoopInductive, PTL

\* Every mismatch of every iteration is the first one.
THEOREM PipelineMismatchIsFirst == PipelineSpec => []MismatchIsFirst
<1>1. LoopInvariant => MismatchIsFirst
  BY JudgedFirst DEF LoopInvariant, Sessions
<1> QED
  BY <1>1, LoopInductive, PTL

\* From the first recording on, the replayer keeps its invariant.
UnderWay == stage \in {"replay", "verify", "analyze"} \/ report # "none" => ReplayInv

\* A step that records nothing leaves the verdict alone, but in an iteration.
LEMMA VerdictWithin ==
  ASSUME [PipelineNext]_pipelineVars, ~Record, stage \notin {"replay", "verify", "analyze"}
  PROVE  stage' \notin {"replay", "verify", "analyze"} /\ report' = report
BY DEF PipelineNext, RecordFails, Raises, Replaying, CmdReplay, CmdVerify, CmdAnalyze, Return,
       sessionVars, pipelineVars, runVars

LEMMA UnderWayInductive == PipelineSpec => []UnderWay
<1>1. PipelineInit => UnderWay
  BY DEF UnderWay, PipelineInit, SessionInit
<1>2. UnderWay /\ [PipelineNext]_pipelineVars => UnderWay'
  <2> SUFFICES ASSUME UnderWay, [PipelineNext]_pipelineVars
               PROVE  UnderWay'
    OBVIOUS
  <2>1. CASE Record
    BY <2>1, BeginsReplay DEF Record, UnderWay
  <2>2. CASE ~Record
    <3>1. [Next]_vars
      BY <2>2, OneSession, SessionStep
    <3> QED
      BY <2>2, <3>1, VerdictWithin, ReplayStep DEF UnderWay
  <2> QED
    BY <2>1, <2>2
<1> QED
  BY <1>1, <1>2, PTL DEF PipelineSpec

\* An iteration of adr run replays into a new directory, whatever was there before: so
\* its verdict is a pass if the replay has kept to a covered recording and exited, and its
\* injections have reached the program.
THEOREM PipelineVerdictComplete == PipelineSpec => []VerdictComplete
<1>1. PipelineInit => VerdictComplete
  BY DEF PipelineInit, SessionInit, VerdictComplete
<1>2. LoopInvariant /\ UnderWay /\ VerdictComplete /\ [PipelineNext]_pipelineVars
      => VerdictComplete'
  <2> SUFFICES ASSUME LoopInvariant, UnderWay, VerdictComplete, [PipelineNext]_pipelineVars
               PROVE  VerdictComplete'
    OBVIOUS
  <2>1. CASE Record
    BY <2>1 DEF Record, Afresh, VerdictComplete
  <2>2. CASE ~Record /\ ReplayInv
    <3>1. [SessionNext]_sessionVars /\ Judged
      BY <2>2, OneSession DEF LoopInvariant, Sessions
    <3> QED
      BY <2>2, <3>1, CompleteStep
  <2>3. CASE ~Record /\ ~ReplayInv
    <3>1. report = "none" /\ report' = report
      BY <2>3, VerdictWithin DEF UnderWay
    <3> QED
      BY <3>1 DEF VerdictComplete
  <2> QED
    BY <2>1, <2>2, <2>3
<1> QED
  BY <1>1, <1>2, LoopInductive, UnderWayInductive, PTL DEF PipelineSpec

\* A pass of any iteration is sound, as far as its injections reached the program, and
\* needs no assumption on directories.
THEOREM PipelineVerdictSound ==
  ASSUME ~TargetQuoted,
         \A t \in Traces : t.result.stored => Transcribes(t.lines, t.result.observed)
  PROVE  PipelineSpec => []VerdictSound
<1>1. LoopInvariant /\ UnderWay => VerdictSound
  <2>1. LoopInvariant => Judged /\ trace \in Traces
    BY DEF LoopInvariant, Sessions
  <2>2. UnderWay /\ report # "none" => ReplayInv
    BY DEF UnderWay
  <2>3. report = "none" => VerdictSound
    BY DEF VerdictSound
  <2> QED
    BY <2>1, <2>2, <2>3, PassSound DEF Believed
<1> QED
  BY <1>1, LoopInductive, UnderWayInductive, PTL
=============================================================================
