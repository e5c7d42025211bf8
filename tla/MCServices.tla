----------------------------- MODULE MCServices -----------------------------
(* The services a run uses and the runs' callers do not see: either the      *)
(* decisions are at work or the workspace is read, for they share nothing.   *)
EXTENDS MCDecisions, MCWorkspace

VARIABLE part

\* the part that is not at work
NoDecision == JudgeInit /\ StreamInit /\ topic = "stream" /\ question = <<>> /\ answer = <<>>
NoFiles == WorkspaceInit /\ called = "build" /\ \A f \in Files : disk[f] = "hit"

ServicesInit ==
  \/ part = "decisions" /\ Init /\ NoFiles
  \/ part = "workspace" /\ WorkspaceInit /\ NoDecision

DecisionStep == part = "decisions" /\ Next /\ UNCHANGED <<wsVars, part>>
WorkspaceStep == part = "workspace" /\ WorkspaceNext /\ UNCHANGED <<vars, part>>

ServicesNext == DecisionStep \/ WorkspaceStep

ServicesSpec == ServicesInit /\ [][ServicesNext]_<<vars, wsVars, part>>
=============================================================================
