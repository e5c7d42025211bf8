--------------------------- MODULE RuntimeContract ---------------------------
(***************************************************************************)
(* AgentRuntime as its callers see it: whether it is busy, which run       *)
(* cancel() reaches, and how each run proceeds, by its events.  A run      *)
(* waits for one tool call or check at a time; once cancelled it starts    *)
(* none, and does not tell the end of a tool call.  Every end of a run     *)
(* leaves the runtime free, even if another run is still open.             *)
(* Session is built on this contract; AgentRuntime implements it.          *)
(***************************************************************************)
CONSTANTS Runs,    \* the calls of runStream
          NoRun,   \* the runtime holds no AbortController
          Names    \* what tool calls and checks are told apart by

VARIABLES busy,    \* getState() is running or waiting_for_tool
          active,  \* the run whose AbortController the runtime holds
          run      \* of each run: pc is new, open, last (its last event was
                   \* emitted) or done; cancelled; doing is the kind and name
                   \* of the tool call or check that is awaited

rcVars == <<busy, active, run>>

Idle == <<"idle", 0>>

Init ==
  /\ busy = FALSE
  /\ active = NoRun
  /\ run = [r \in Runs |-> [pc |-> "new", cancelled |-> FALSE, doing |-> Idle]]

Goes(r) == run[r].pc = "open" /\ run[r].doing = Idle /\ ~run[r].cancelled

\* No tool call or check is awaited that the run would see the end of.
MayEnd(r) == run[r].doing = Idle \/ (run[r].cancelled /\ run[r].doing[1] = "tool")

Becomes(r, p, c, d) ==
  run' = [run EXCEPT ![r] = [pc |-> p, cancelled |-> c, doing |-> d]]

\* The lock; c says that the signal of the caller is aborted already.
Submit(r, c) ==
  /\ ~busy
  /\ run[r].pc = "new"
  /\ busy' = TRUE /\ active' = r
  /\ Becomes(r, "open", c, Idle)

StartTool(r, n) ==
  /\ Goes(r)
  /\ Becomes(r, "open", FALSE, <<"tool", n>>)
  /\ busy' = TRUE
  /\ UNCHANGED active

StartCheck(r, n) ==
  /\ Goes(r)
  /\ Becomes(r, "open", FALSE, <<"check", n>>)
  /\ UNCHANGED <<busy, active>>

\* The loop writes this.state when a tool ends, whoever wrote it before.
EndItem(r) ==
  /\ run[r].pc = "open" /\ run[r].doing # Idle
  /\ run[r].cancelled => run[r].doing[1] = "check"
  /\ Becomes(r, "open", run[r].cancelled, Idle)
  /\ busy' = (busy \/ run[r].doing[1] = "tool")
  /\ UNCHANGED active

\* The last event; that of an unplanned run leaves the runtime not busy.
LastEvent(r) ==
  /\ run[r].pc = "open" /\ MayEnd(r)
  /\ Becomes(r, "last", run[r].cancelled, Idle)
  /\ busy' \in {busy, FALSE}
  /\ UNCHANGED active

\* The finally block.
Free(r) ==
  /\ Becomes(r, "done", run[r].cancelled, Idle)
  /\ busy' = FALSE /\ active' = NoRun

\* The end after the last event, by an exception, or, when the consumer does
\* not suspend in between, the last event and the end in one.
End(r) ==
  /\ run[r].pc \in {"open", "last"} /\ MayEnd(r)
  /\ Free(r)

\* The consumer leaves the stream.
Abandon(r) == run[r].pc \in {"open", "last"} /\ Free(r)

\* cancel(): the run it reaches need not be the only one that is open.
Cancel ==
  /\ busy' = (busy /\ active = NoRun)
  /\ run' = [r \in Runs |-> [run[r] EXCEPT !.cancelled = @ \/ r = active]]
  /\ UNCHANGED active

\* The caller's signal.
Abort(r) ==
  /\ run[r].pc \in {"open", "last"}
  /\ Becomes(r, run[r].pc, TRUE, run[r].doing)
  /\ UNCHANGED <<busy, active>>

Step(r) ==
  \/ \E c \in BOOLEAN : Submit(r, c)
  \/ \E n \in Names : StartTool(r, n) \/ StartCheck(r, n)
  \/ EndItem(r) \/ LastEvent(r) \/ End(r) \/ Abandon(r) \/ Abort(r)

Next == Cancel \/ \E r \in Runs : Step(r)

Spec == Init /\ [][Next]_rcVars
=============================================================================
