------------------------------ MODULE MCSyncHook ------------------------------
(***************************************************************************)
(* Small instances of the hook.                                             *)
(***************************************************************************)
EXTENDS SyncHook, TLC

\* The threads but the first are alike, and so are the mutexes.
Symmetry == Permutations(Threads \ {Main}) \cup Permutations(Mutexes)
=============================================================================
