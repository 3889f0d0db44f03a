-------------------------------- MODULE Journal --------------------------------
(***************************************************************************)
(* What the recorder promises, without its files and its ptrace stops: a     *)
(* write-ahead journal of the results a program observes.  An entry is       *)
(* written, then the program observes that result, then the next entry is    *)
(* written.  Entries are never changed or taken back, until a new recording  *)
(* starts over.  A recording may stop for good between any two steps.        *)
(***************************************************************************)
EXTENDS Integers, Sequences

VARIABLES
  journal,  \* the entries written, each with the place of its result
  seen      \* the results the program has observed, in order

\* An entry e is about the e.k-th result and says what it was; its bytes too, if
\* e.kept.
Tells(e, o) ==
  e.call = o.call /\ e.ret = o.ret /\ (e.kept => e.data = o.data)

Init == journal = {} /\ seen = << >>

StartOver == journal' = {} /\ seen' = << >>

\* One entry for the next result, while none has been written for it.
Write(e) ==
  /\ e.k = Len(seen) + 1
  /\ \A f \in journal : f.k <= Len(seen)
  /\ journal' = journal \cup {e}
  /\ seen' = seen

\* The program observes what the entry for it says.
Observe(o) ==
  /\ \E e \in journal : e.k = Len(seen) + 1 /\ Tells(e, o)
  /\ seen' = Append(seen, o)
  /\ journal' = journal

Next ==
  \/ StartOver
  \/ \E e \in journal' : Write(e)
  \/ Len(seen') > 0 /\ Observe(seen'[Len(seen')])

Spec == Init /\ [][Next]_<< journal, seen >>
=============================================================================
