---------------------------- MODULE LoopContract ----------------------------
(***************************************************************************)
(* What the callers of AgentLoop rely on, loop by loop: tool calls one at  *)
(* a time and within the budget, then exactly one last event, which is     *)
(* agent_cancelled if and only if the loop found its signal aborted.       *)
(* AgentRuntime uses this reduction of the loop; AgentLoop implements it.  *)
(***************************************************************************)
EXTENDS Naturals

CONSTANTS Loops,          \* the AgentLoop objects
          MaxToolCalls    \* config.maxToolCalls

VARIABLES phase,    \* [Loops -> Phases], as the events of the loop tell
          aborted,  \* [Loops -> BOOLEAN], its signal
          calls     \* [Loops -> Nat], the tool calls it has started

Phases == {"idle", "loop", "tool", "completed", "error", "cancelled"}

Init ==
  /\ phase = [l \in Loops |-> "idle"]
  /\ aborted = [l \in Loops |-> FALSE]
  /\ calls = [l \in Loops |-> 0]

Move(l, from, to) ==
  /\ phase[l] \in from
  /\ \E p \in to : phase' = [phase EXCEPT ![l] = p]

\* The signal may have been aborted before.
Begin(l) ==
  /\ Move(l, {"idle"}, {"loop"})
  /\ \E a \in BOOLEAN : aborted' = [aborted EXCEPT ![l] = a]
  /\ UNCHANGED calls

Abort(l) ==
  /\ phase[l] \in {"loop", "tool"}
  /\ aborted' = [aborted EXCEPT ![l] = TRUE]
  /\ UNCHANGED <<phase, calls>>

StartTool(l) ==
  /\ ~aborted[l] /\ calls[l] < MaxToolCalls
  /\ Move(l, {"loop"}, {"tool"})
  /\ calls' = [calls EXCEPT ![l] = @ + 1]
  /\ UNCHANGED aborted

EndTool(l) ==
  /\ ~aborted[l]
  /\ Move(l, {"tool"}, {"loop"})
  /\ UNCHANGED <<aborted, calls>>

Cancelled(l) ==
  /\ aborted[l]
  /\ Move(l, {"loop", "tool"}, {"cancelled"})
  /\ UNCHANGED <<aborted, calls>>

Ended(l) ==
  /\ ~aborted[l]
  /\ Move(l, {"loop"}, {"completed", "error"})
  /\ UNCHANGED <<aborted, calls>>

Next ==
  \E l \in Loops :
    \/ Begin(l) \/ Abort(l) \/ StartTool(l) \/ EndTool(l)
    \/ Cancelled(l) \/ Ended(l)

Spec == Init /\ [][Next]_<<phase, aborted, calls>>
=============================================================================
