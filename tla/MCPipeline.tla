------------------------------ MODULE MCPipeline ------------------------------
(***************************************************************************)
(* A small instance of adr run: the programs and directories of a session.   *)
(***************************************************************************)
EXTENDS Pipeline, MCSession

\* What the proofs suppose of the directories of a recorder holds of these.
ASSUME MCPipelineAssumption ==
  \A t \in Traces :
    /\ LinesNumbered(t)
    /\ t.result.stored => Transcribes(t.lines, t.result.observed)
=============================================================================
