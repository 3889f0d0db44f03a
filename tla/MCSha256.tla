------------------------------- MODULE MCSha256 -------------------------------
(***************************************************************************)
(* Messages of the lengths at which padding changes, cut up by a buffer      *)
(* that is no multiple of a block.                                           *)
(***************************************************************************)
EXTENDS Sha256

MCLengths == {0, 1, 31, 32, 54, 55, 56, 57, 63, 64, 65, 118, 119, 120, 127, 128, 129, 200}

\* No two bytes of a message that are a block apart are the same.
MCMessages == {[i \in 1 .. n |-> 1 + (i % 101)] : n \in MCLengths}

MCGarbage == {[i \in 1 .. 64 |-> 255]}
=============================================================================
