------------------------------- MODULE Analyzer -------------------------------
(***************************************************************************)
(* analyzer/rule_analyzer.py: the causes it ranks after a verification.  It  *)
(* is a function of the two traces and of the verifier's report.             *)
(***************************************************************************)
EXTENDS Verifier

CONSTANTS
  Around,    \* sequence numbers to each side of the mismatch: 10 in the code
  LastLines, \* events taken where the mismatch has no number: 20 in the code
  TopK       \* candidates that are kept: 3 in the code

ASSUME AnalyzerAssumption ==
  /\ Around \in Nat
  /\ LastLines \in Nat \ {0}
  /\ TopK \in Nat \ {0}

(***************************************************************************)
(* load_events, which ends at the first line that is not JSON, and the window. *)
(***************************************************************************)
AnalyzedEvents(lines) ==
  LET read == {n \in DOMAIN lines : \A m \in 1 .. n : Decodable(lines[m])}
  IN  [i \in read |-> lines[i].body]

EventsOf(events) == {events[i] : i \in DOMAIN events}

\* Seeded fault: the event itself is outside its window.
WindowOpen(events, seq) ==
  IF seq = 0 THEN {events[i] : i \in {j \in DOMAIN events : j > Len(events) - LastLines}}
  ELSE {ev \in EventsOf(events) : ev.seq \in (seq - Around .. seq + Around) \ {seq}}

\* seq is 0 for null.
Window(events, seq) ==
  IF seq = 0 THEN {events[i] : i \in {j \in DOMAIN events : j > Len(events) - LastLines}}
  ELSE {ev \in EventsOf(events) : ev.seq \in seq - Around .. seq + Around}

(***************************************************************************)
(* score_candidates.  The candidates are appended in the order of their      *)
(* scores, so that sorting them changes nothing.                            *)
(***************************************************************************)
Replayed(ev) == ev.name \in PayloadCalls
Synchronizes(ev) == ev.etype = "SYNC"
OnMutex(ev) == ev.name = "pthread_mutex_lock"

\* A candidate is there when its condition holds.
Given(rule, holds) == IF holds THEN << rule >> ELSE << >>

\* The rules that hold near a mismatch, 0.95 to 0.65.
NearMismatch(combined, checks) ==
  Given("R-IO", \E ev \in combined : Replayed(ev))
  \o Given("R-SYNC", \E ev \in combined : Synchronizes(ev))
  \o Given("R-OUTPUT", ~checks.stdout_hash)
  \o Given("R-DEADLOCK", (\E ev \in combined : OnMutex(ev)) /\ ~checks.event_sequence)
  \o Given("R-SYSCALL", ~checks.exit_code)

\* The rules for a failure without one, 0.92 to 0.72.
WithoutMismatch(all, checks) ==
  Given("R-OUTPUT", ~checks.stdout_hash)
  \o Given("R-EXIT", ~checks.exit_code)
  \o Given("R-SYNC", \E ev \in all : Synchronizes(ev))

\* Seeded fault: one of the top_k is lost.
TopShort(rules, otherwise) ==
  IF rules = << >> THEN << otherwise >>
  ELSE SubSeq(rules, 1, IF Len(rules) < TopK THEN Len(rules) ELSE TopK - 1)

\* The first top_k of them, or the rule for when there is none.
Top(rules, otherwise) ==
  IF rules = << >> THEN << otherwise >>
  ELSE SubSeq(rules, 1, IF Len(rules) <= TopK THEN Len(rules) ELSE TopK)

\* seqs are first_mismatch's original_seq and replay_seq, place its index from 1,
\* 0 where first_mismatch is null.
Candidates(original_events, replay_events, status, checks, place, seqs) ==
  IF place # 0
  THEN Top(NearMismatch(Window(original_events, seqs[1]) \cup Window(replay_events, seqs[2]),
                        checks), "R-GENERIC")
  ELSE IF status = "pass" THEN << "PASS" >>
  ELSE Top(WithoutMismatch(EventsOf(original_events) \cup EventsOf(replay_events), checks),
           "R-HIGHLEVEL")
=============================================================================
