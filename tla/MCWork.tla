------------------------------- MODULE MCWork -------------------------------
(* What a step of a run waits for: loops on the shared conversation, or a    *)
(* verification with its commands.  They share nothing, so a behaviour is    *)
(* about one of the two, and nothing happens to the other one.               *)
EXTENDS AgentLoop, VerificationRunner

VARIABLE part

workVars == <<vars, verifyVars, part>>

\* a verification that had nothing to check
NothingToVerify ==
  /\ ExecutorInit
  /\ checks = <<>> /\ executed = <<>>
  /\ phase = "returned" /\ verdict = "unable_to_verify"

WorkInit ==
  /\ Init
  /\ \/ part = "loops" /\ NothingToVerify
     \/ part = "checks" /\ RunnerInit

LoopsStep == part = "loops" /\ Next /\ UNCHANGED <<verifyVars, part>>
CheckStep == part = "checks" /\ RunnerNext /\ UNCHANGED <<vars, part>>

WorkNext == LoopsStep \/ CheckStep

\* A loop that is not started, and a verification that has returned, have no
\* step fairness could demand: it is about the part that is at work.
WorkSpec == WorkInit /\ [][WorkNext]_workVars /\ LoopFairness /\ RunnerFairness
=============================================================================
