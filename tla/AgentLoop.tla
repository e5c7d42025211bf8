----------------------------- MODULE AgentLoop -----------------------------
(***************************************************************************)
(* AgentLoop.run (packages/agent/src/loop/agent-loop.ts) with its          *)
(* ToolCallHandler: the loops that AgentRuntime runs one after another,    *)
(* and after a cancel() also at the same time, on one ConversationManager. *)
(*                                                                         *)
(* Like AgentRuntime, an action is the code between two suspension points: *)
(*                                                                         *)
(*   new        not started                                                *)
(*   head       the top of the while loop                                  *)
(*   iterating  iteration_started is being handled                         *)
(*   stream     the payload is built, the provider is streaming            *)
(*   turn       the head of the tool loop                                  *)
(*   calling    tool_call_started, then await handle                       *)
(*   told       tool_call_completed or tool_call_failed is being handled   *)
(*   completed, error, cancelled   the last event                          *)
(*                                                                         *)
(* The provider is external: it streams some tool calls, then ends or      *)
(* fails.  A message keeps its role, the loop and iteration it is of, and  *)
(* a number: how many calls an assistant message makes, or which of them a *)
(* tool message answers.  ToolExecutor.execute never rejects, so a failed  *)
(* tool differs from a successful one in texts only.  `started` counts the *)
(* tool calls a loop has started and is history.  A consumer that stops    *)
(* iterating, which AgentRuntime has, is left out here: it leaves a turn   *)
(* unfinished like a cancellation, but lets no loop go on.                 *)
(***************************************************************************)
EXTENDS Naturals, Sequences

CONSTANTS Loops,          \* the AgentLoop objects
          MaxIterations,  \* config.maxIterations
          MaxToolCalls,   \* config.maxToolCalls
          MaxBatch        \* bound: most tool calls of one provider turn

ASSUME LoopAssumption ==
  MaxIterations \in Nat /\ MaxToolCalls \in Nat /\ MaxBatch \in Nat

VARIABLES history,   \* conversationManager.messages
          loop       \* the locals of each loop's run()

vars == <<history, loop>>

Over == {"completed", "error", "cancelled"}
ToolPhase == {"turn", "calling", "told"}

Message(role, l, it, n) == [role |-> role, of |-> l, turn |-> it, n |-> n]

Init ==
  /\ history = <<>>
  /\ loop = [l \in Loops |->
       [pc |-> "new", aborted |-> FALSE, iteration |-> 0, total |-> 0,
        calls |-> 0, next |-> 1, started |-> 0]]

Become(l, x) == loop' = [loop EXCEPT ![l] = x]
Goto(l, pc) == Become(l, [loop[l] EXCEPT !.pc = pc])

----------------------------------------------------------------------------
(* The caller *)

\* runStream, or a correction, adds a user message and runs a new loop; the
\* loop of a plan's step comes without one.  The runtime's lock keeps a second
\* loop out unless cancel() has aborted the first.
Start(l) ==
  /\ loop[l].pc = "new"
  /\ \A q \in Loops : loop[q].pc \in {"new"} \cup Over \/ loop[q].aborted
  /\ \E a \in BOOLEAN : Become(l, [loop[l] EXCEPT !.pc = "head", !.aborted = a])
  /\ \/ history' = Append(history, Message("user", l, 0, 0))
     \/ UNCHANGED history

Abort(l) ==
  /\ loop[l].pc \notin {"new"} \cup Over
  /\ Become(l, [loop[l] EXCEPT !.aborted = TRUE])
  /\ UNCHANGED history

----------------------------------------------------------------------------
(* The loop *)

\* Mutation: the iteration limit is tested one iteration late.
MutIterate(l) ==
  /\ loop[l].pc = "head" /\ ~loop[l].aborted
  /\ loop[l].iteration <= MaxIterations
  /\ Become(l, [loop[l] EXCEPT !.pc = "iterating", !.iteration = @ + 1])
  /\ UNCHANGED history

Iterate(l) ==
  /\ loop[l].pc = "head" /\ ~loop[l].aborted
  /\ loop[l].iteration < MaxIterations
  /\ Become(l, [loop[l] EXCEPT !.pc = "iterating", !.iteration = @ + 1])
  /\ UNCHANGED history

IterationLimit(l) ==
  /\ loop[l].pc = "head" /\ ~loop[l].aborted
  /\ loop[l].iteration >= MaxIterations
  /\ Goto(l, "error")
  /\ UNCHANGED history

\* getMessages, then provider.stream; the signal is not looked at.
Request(l) ==
  /\ loop[l].pc = "iterating"
  /\ Become(l, [loop[l] EXCEPT !.pc = "stream", !.calls = 0])
  /\ UNCHANGED history

StreamToolCall(l) ==
  /\ loop[l].pc = "stream" /\ ~loop[l].aborted
  /\ loop[l].calls < MaxBatch
  /\ Become(l, [loop[l] EXCEPT !.calls = @ + 1])
  /\ UNCHANGED history

\* An error event, or an exception of the provider.
StreamFailed(l) ==
  /\ loop[l].pc = "stream" /\ ~loop[l].aborted
  /\ Goto(l, "error")
  /\ UNCHANGED history

\* Mutation: no look at the signal after the stream.
MutFinalText(l) ==
  /\ loop[l].pc = "stream"
  /\ loop[l].calls = 0
  /\ history' = Append(history, Message("final", l, loop[l].iteration, 0))
  /\ Goto(l, "completed")

FinalText(l) ==
  /\ loop[l].pc = "stream" /\ ~loop[l].aborted
  /\ loop[l].calls = 0
  /\ history' = Append(history, Message("final", l, loop[l].iteration, 0))
  /\ Goto(l, "completed")

Exceeds(x) == x.total + x.calls > MaxToolCalls

\* Mutation: the invocation is recorded before its budget is checked.
MutToolBudget(l) ==
  /\ loop[l].pc = "stream" /\ ~loop[l].aborted
  /\ loop[l].calls > 0 /\ Exceeds(loop[l])
  /\ history' = Append(history, Message("calls", l, loop[l].iteration, loop[l].calls))
  /\ Goto(l, "error")

ToolBudget(l) ==
  /\ loop[l].pc = "stream" /\ ~loop[l].aborted
  /\ loop[l].calls > 0 /\ Exceeds(loop[l])
  /\ Goto(l, "error")
  /\ UNCHANGED history

\* Mutation: the budget of the whole loop is checked per turn.
MutRecordCalls(l) ==
  /\ loop[l].pc = "stream" /\ ~loop[l].aborted
  /\ loop[l].calls \in 1 .. MaxToolCalls
  /\ history' = Append(history, Message("calls", l, loop[l].iteration, loop[l].calls))
  /\ Become(l, [loop[l] EXCEPT !.pc = "turn", !.next = 1])

RecordCalls(l) ==
  /\ loop[l].pc = "stream" /\ ~loop[l].aborted
  /\ loop[l].calls > 0 /\ ~Exceeds(loop[l])
  /\ history' = Append(history, Message("calls", l, loop[l].iteration, loop[l].calls))
  /\ Become(l, [loop[l] EXCEPT !.pc = "turn", !.next = 1])

StartTool(l) ==
  /\ loop[l].pc = "turn" /\ ~loop[l].aborted
  /\ Become(l, [loop[l] EXCEPT !.pc = "calling", !.started = @ + 1])
  /\ UNCHANGED history

EndTool(l) ==
  /\ loop[l].pc = "calling" /\ ~loop[l].aborted
  /\ Goto(l, "told")
  /\ UNCHANGED history

\* Mutation: a failed tool call is reported, its error not fed back.
MutRecordResult(l) ==
  LET me == loop[l] IN
    /\ me.pc = "told"
    /\ \/ history' = Append(history, Message("tool", l, me.iteration, me.next))
       \/ UNCHANGED history
    /\ Become(l, [me EXCEPT
         !.total = @ + 1, !.next = @ + 1,
         !.pc = IF me.next = me.calls THEN "head" ELSE "turn"])

\* Mutation: the result is recorded again when the last call of a turn ends.
MutRecordTwice(l) ==
  LET me == loop[l] IN
    /\ me.pc = "told"
    /\ history' = Append(history, Message("tool", l, me.iteration, me.calls))
    /\ Become(l, [me EXCEPT
         !.total = @ + 1, !.next = @ + 1,
         !.pc = IF me.next = me.calls THEN "head" ELSE "turn"])

\* The result is recorded when the consumer comes back from the event, without
\* another look at the signal.
RecordResult(l) ==
  LET me == loop[l] IN
    /\ me.pc = "told"
    /\ history' = Append(history, Message("tool", l, me.iteration, me.next))
    /\ Become(l, [me EXCEPT
         !.total = @ + 1, !.next = @ + 1,
         !.pc = IF me.next = me.calls THEN "head" ELSE "turn"])

\* Mutation: an abort is not noticed while the provider streams.
MutCancelled(l) ==
  /\ loop[l].pc \in {"head", "turn", "calling"}
  /\ loop[l].aborted
  /\ Goto(l, "cancelled")
  /\ UNCHANGED history

\* The points where the signal is tested; the catch block is one for `stream`.
Cancelled(l) ==
  /\ loop[l].pc \in {"head", "stream", "turn", "calling"}
  /\ loop[l].aborted
  /\ Goto(l, "cancelled")
  /\ UNCHANGED history

LoopStep(l) ==
  \/ Iterate(l)        \/ IterationLimit(l) \/ Request(l)
  \/ StreamToolCall(l) \/ StreamFailed(l)   \/ FinalText(l)
  \/ ToolBudget(l)     \/ RecordCalls(l)
  \/ StartTool(l)      \/ EndTool(l)        \/ RecordResult(l)
  \/ Cancelled(l)

Next == \E l \in Loops : Start(l) \/ Abort(l) \/ LoopStep(l)

Spec == Init /\ [][Next]_vars

\* The provider's stream ends, tools return, the consumer keeps pulling.
LoopFairness == \A l \in Loops : WF_vars(LoopStep(l))

FairSpec == Spec /\ LoopFairness

----------------------------------------------------------------------------
(* Correctness *)

PCs == {"new", "head", "iterating", "stream"} \cup ToolPhase \cup Over

Local == [pc : PCs, aborted : BOOLEAN, iteration : 0 .. MaxIterations,
          total : 0 .. MaxToolCalls, calls : 0 .. MaxBatch,
          next : 1 .. MaxBatch + 1, started : 0 .. MaxToolCalls]

Messages == [role : {"user", "final", "calls", "tool"}, of : Loops,
             turn : 0 .. MaxIterations, n : 0 .. MaxBatch]

\* The fields have their types, the limits among them.
TypeOK == history \in Seq(Messages) /\ loop \in [Loops -> Local]

OwnBudget(x) ==
  /\ x.iteration <= MaxIterations /\ x.started <= MaxToolCalls
  /\ x.pc \notin Over =>
       x.started = x.total + IF x.pc \in {"calling", "told"} THEN 1 ELSE 0
  /\ x.pc \in ToolPhase =>
       x.next \in 1 .. x.calls /\ x.total + x.calls < MaxToolCalls + x.next

\* No loop asks the model more often, or starts more calls, than its limits say.
\* The calls started and the results recorded agree, and the calls a turn
\* still owes fit into what is left of the budget: a batch is accepted whole
\* or not at all, so no loop runs out of budget between two calls of a turn.
BudgetKept == \A l \in Loops : OwnBudget(loop[l])

\* The calls of message m that are answered in the history.
Answered(m) ==
  {k \in 1 .. m.n : \E i \in 1 .. Len(history) :
                      history[i] = Message("tool", m.of, m.turn, k)}

\* Every tool message answers one call of an earlier assistant message, no
\* call is answered twice, and the calls of a message are answered in their
\* order: also while a cancelled loop and its successor share the history.
ResultsAnswerCalls ==
  \A j \in 1 .. Len(history) : history[j].role = "tool" =>
    LET t == history[j] IN
      /\ \E i \in 1 .. j - 1 :
           /\ history[i].role = "calls" /\ t.n <= history[i].n
           /\ history[i].of = t.of /\ history[i].turn = t.turn
      /\ t.n > 1 => \E i \in 1 .. j - 1 : history[i] = [t EXCEPT !.n = @ - 1]
      /\ \A i \in 1 .. j - 1 : history[i] # t

\* Nothing but a cancellation leaves a recorded call without its result: not
\* a failed tool, nor an exhausted limit, nor a provider error.
OnlyCancellationLeavesCalls ==
  \A i \in 1 .. Len(history) :
    LET m == history[i] IN
      m.role = "calls" /\ Answered(m) # 1 .. m.n =>
        \/ loop[m.of].pc = "cancelled"
        \/ loop[m.of].pc \in ToolPhase /\ loop[m.of].iteration = m.turn

\* Each assistant message with calls is followed by their results, in order.
WellFormed(h) ==
  \A i \in 1 .. Len(h) : h[i].role = "calls" =>
    /\ i + h[i].n <= Len(h)
    /\ \A k \in 1 .. h[i].n : h[i + k] = Message("tool", h[i].of, h[i].turn, k)

\* As long as nothing was cancelled, each request sends the provider a
\* conversation in which every call is directly followed by its results.
RequestsWellFormed ==
  (\A l \in Loops : ~loop[l].aborted) =>
    \A l \in Loops : loop[l].pc = "stream" => WellFormed(history)

\* The messages of loop l, each at its place in the history.
MessagesOf(h, l) == [i \in {k \in 1 .. Len(h) : h[k].of = l} |-> h[i]]

\* After an abort a loop writes to the conversation only the result of a tool
\* call it had already reported.
SilentAfterAbort ==
  [][\A l \in Loops : loop[l].aborted /\ loop[l].pc # "told" =>
       MessagesOf(history', l) = MessagesOf(history, l)]_vars

\* Every loop that was started emits its last event.
LoopEnds == \A l \in Loops : loop[l].pc # "new" ~> loop[l].pc \in Over

\* The events of a loop as its callers see them.
Phase(x) == CASE x.pc = "new"     -> "idle"
              [] x.pc = "calling" -> "tool"
              [] x.pc \in Over    -> x.pc
              [] OTHER            -> "loop"

phases  == [l \in Loops |-> Phase(loop[l])]
signals == [l \in Loops |-> loop[l].aborted]
starts  == [l \in Loops |-> loop[l].started]

Contract == INSTANCE LoopContract WITH
              phase <- phases, aborted <- signals, calls <- starts

\* Each loop keeps the contract AgentRuntime relies on: tool calls one at a
\* time and within the budget, one last event, agent_cancelled iff aborted.
KeepsContract == Contract!Spec
=============================================================================
