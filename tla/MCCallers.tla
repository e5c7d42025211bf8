------------------------------ MODULE MCCallers ------------------------------
(* The callers of one runtime: they are free to overlap, to call cancel()    *)
(* and to leave a stream, or they keep to what the prompt of the terminal    *)
(* does.  Which of the two they do is chosen at the start.                   *)
EXTENDS MCAgentRuntime

VARIABLE callers

callersVars == <<vars, callers>>

Prompt == INSTANCE AgentRuntime WITH
  CancelCalls <- FALSE, ExternalSignals <- TRUE, PromptConsumers <- TRUE

CallersInit == Init /\ callers \in {"free", "prompt"}

FreeStep == callers = "free" /\ Next /\ UNCHANGED callers
PromptStep == callers = "prompt" /\ Prompt!Next /\ UNCHANGED callers

CallersNext == FreeStep \/ PromptStep

CallersSpec == CallersInit /\ [][CallersNext]_callersVars

-----------------------------------------------------------------------------
\* At most one run executes at a time, if the callers keep to the prompt: the
\* lock of runStream (agent.runtime.ts) keeps a second one out.
LockHolds == callers = "prompt" => MutualExclusion

\* cancel() would reach every run of theirs that is executing and not aborted.
CancelWorks == callers = "prompt" => CancelReachesRun
=============================================================================
