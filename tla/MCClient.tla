------------------------------ MODULE MCClient ------------------------------
(* Two objects that others call as they like: a plan and its client, or the  *)
(* screen and its user.  They share nothing, so a behaviour is about one of  *)
(* the two, and nothing happens to the other one.                            *)
EXTENDS MCPlanState, Session

VARIABLE part

clientVars == <<plan, vars, part>>

NoCalls == plan = NewPlan(<<a>>, [s \in {a} |-> {}])
NoUser == Init /\ ~mode.hasRuntime /\ ~mode.raw

ClientInit ==
  \/ part = "plan" /\ PlanInit /\ NoUser
  \/ part = "session" /\ Init /\ NoCalls

PlanCall == part = "plan" /\ PlanNext /\ UNCHANGED <<vars, part>>
SessionStep == part = "session" /\ Next /\ UNCHANGED <<plan, part>>

ClientNext == PlanCall \/ SessionStep

\* A screen nobody has used has no step fairness could demand: it is about
\* the part that is at work.
ClientSpec == ClientInit /\ [][ClientNext]_clientVars /\ SessionFairness
=============================================================================
