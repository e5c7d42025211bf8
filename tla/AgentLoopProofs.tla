-------------------------- MODULE AgentLoopProofs --------------------------
(***************************************************************************)
(* AgentLoop for every set of loops and all limits: the types and the      *)
(* budget are invariants, every loop implements LoopContract, and the      *)
(* history that the loops share keeps calls and results together.          *)
(***************************************************************************)
EXTENDS AgentLoop, TLAPS

\* TypeOK and BudgetKept are inductive together: the limit on the counters
\* follows from what a turn still owes.
IInv == TypeOK /\ BudgetKept

\* A step of a loop assigns its own locals and adds at most one message.
LEMMA OneLoopSteps ==
  ASSUME IInv,
         NEW l \in Loops, NEW x \in Local, OwnBudget(x),
         loop' = [loop EXCEPT ![l] = x],
         \/ UNCHANGED history
         \/ \E m \in Messages : history' = Append(history, m)
  PROVE  IInv'
<1>1. loop' \in [Loops -> Local]
  BY DEF IInv, TypeOK
<1>2. history' \in Seq(Messages)
  BY DEF IInv, TypeOK
<1>3. ASSUME NEW q \in Loops PROVE OwnBudget(loop'[q])
  BY DEF IInv, TypeOK, BudgetKept
<1> QED
  BY <1>1, <1>2, <1>3 DEF IInv, TypeOK, BudgetKept

LEMMA InvInit == Init => IInv
BY LoopAssumption
   DEF Init, IInv, TypeOK, BudgetKept, OwnBudget, Local, PCs, Over, ToolPhase

LEMMA InvNext == IInv /\ [Next]_vars => IInv'
<1> SUFFICES ASSUME IInv, [Next]_vars PROVE IInv'
  OBVIOUS
<1>1. CASE UNCHANGED vars
  BY <1>1 DEF vars, IInv, TypeOK, BudgetKept
<1>2. ASSUME NEW l \in Loops, Start(l) \/ Abort(l) \/ LoopStep(l) PROVE IInv'
  <2> DEFINE me == loop[l]
             Said(role, n) == Message(role, l, me.iteration, n)
  <2>a. me \in Local /\ OwnBudget(me)
    BY DEF IInv, TypeOK, BudgetKept
  <2>b. \A n \in 0 .. MaxBatch : \A role \in {"user", "final", "calls", "tool"} :
          Said(role, n) \in Messages /\ Message(role, l, 0, 0) \in Messages
    BY <2>a, LoopAssumption DEF Message, Messages, Local
  <2> USE LoopAssumption DEF OwnBudget, Local, PCs, Over, ToolPhase, Goto, Become
  <2>1. CASE Start(l)
    <3>1. PICK a \in BOOLEAN :
                 Become(l, [me EXCEPT !.pc = "head", !.aborted = a])
      BY <2>1 DEF Start
    <3> DEFINE x == [me EXCEPT !.pc = "head", !.aborted = a]
    <3>3. x \in Local /\ OwnBudget(x)
      BY <2>a, <2>1 DEF Start
    <3>4. UNCHANGED history \/ \E m \in Messages : history' = Append(history, m)
      BY <2>1, <2>b DEF Start
    <3> QED
      BY <3>1, <3>3, <3>4, OneLoopSteps DEF Become
  <2>2. CASE Abort(l)
    <3> DEFINE x == [me EXCEPT !.aborted = TRUE]
    <3>1. x \in Local /\ OwnBudget(x)
      BY <2>a
    <3> QED
      BY <2>2, <3>1, OneLoopSteps DEF Abort
  <2>3. CASE LoopStep(l)
    <3> HIDE DEF me
    <3>1. CASE Iterate(l)
      <4> DEFINE x == [me EXCEPT !.pc = "iterating", !.iteration = @ + 1]
      <4>1. me.pc = "head" /\ me.iteration < MaxIterations
        BY <3>1 DEF Iterate, me
      <4>2. me.iteration + 1 \in 0 .. MaxIterations
        BY <2>a, <4>1
      <4>3. x \in Local
        BY <2>a, <4>1, <4>2
      <4>4. OwnBudget(x)
        BY <2>a, <4>1, <4>2
      <4> QED
        BY <3>1, <4>3, <4>4, OneLoopSteps DEF Iterate, me
    <3>2. CASE IterationLimit(l)
      <4> DEFINE x == [me EXCEPT !.pc = "error"]
      <4>1. me.pc = "head"
        BY <3>2 DEF IterationLimit, me
      <4>3. x \in Local
        BY <2>a, <4>1
      <4>4. OwnBudget(x)
        BY <2>a, <4>1
      <4> QED
        BY <3>2, <4>3, <4>4, OneLoopSteps DEF IterationLimit, me
    <3>3. CASE Request(l)
      <4> DEFINE x == [me EXCEPT !.pc = "stream", !.calls = 0]
      <4>1. me.pc = "iterating"
        BY <3>3 DEF Request, me
      <4>2. 0 \in 0 .. MaxBatch
        OBVIOUS
      <4>3. x \in Local
        BY <2>a, <4>1, <4>2
      <4>4. OwnBudget(x)
        BY <2>a, <4>1
      <4> QED
        BY <3>3, <4>3, <4>4, OneLoopSteps DEF Request, me
    <3>4. CASE StreamToolCall(l)
      <4> DEFINE x == [me EXCEPT !.calls = @ + 1]
      <4>1. me.pc = "stream" /\ me.calls < MaxBatch
        BY <3>4 DEF StreamToolCall, me
      <4>2. me.calls + 1 \in 0 .. MaxBatch
        BY <2>a, <4>1
      <4>3. x \in Local
        BY <2>a, <4>1, <4>2
      <4>4. OwnBudget(x)
        BY <2>a, <4>1, <4>2
      <4> QED
        BY <3>4, <4>3, <4>4, OneLoopSteps DEF StreamToolCall, me
    <3>5. CASE StreamFailed(l)
      <4> DEFINE x == [me EXCEPT !.pc = "error"]
      <4>1. me.pc = "stream"
        BY <3>5 DEF StreamFailed, me
      <4>3. x \in Local
        BY <2>a, <4>1
      <4>4. OwnBudget(x)
        BY <2>a, <4>1
      <4> QED
        BY <3>5, <4>3, <4>4, OneLoopSteps DEF StreamFailed, me
    <3>6. CASE FinalText(l)
      <4> DEFINE x == [me EXCEPT !.pc = "completed"]
      <4>1. me.pc = "stream"
        BY <3>6 DEF FinalText, me
      <4>2. 0 \in 0 .. MaxBatch
        BY <2>a, <4>1
      <4>3. x \in Local
        BY <2>a, <4>1, <4>2
      <4>4. OwnBudget(x)
        BY <2>a, <4>1, <4>2
      <4>5. \E m \in Messages : history' = Append(history, m)
        BY <3>6, <4>1, <4>2, <2>a, <2>b DEF FinalText, me
      <4> QED
        BY <3>6, <4>3, <4>4, <4>5, OneLoopSteps DEF FinalText, me
    <3>7. CASE ToolBudget(l)
      <4> DEFINE x == [me EXCEPT !.pc = "error"]
      <4>1. me.pc = "stream"
        BY <3>7 DEF ToolBudget, me
      <4>3. x \in Local
        BY <2>a, <4>1
      <4>4. OwnBudget(x)
        BY <2>a, <4>1
      <4> QED
        BY <3>7, <4>3, <4>4, OneLoopSteps DEF ToolBudget, me
    <3>8. CASE RecordCalls(l)
      <4> DEFINE x == [me EXCEPT !.pc = "turn", !.next = 1]
      <4>1. /\ me.pc = "stream" /\ me.calls > 0
            /\ ~(me.total + me.calls > MaxToolCalls)
        BY <3>8 DEF RecordCalls, me, Exceeds
      <4>2. 1 \in 1 .. MaxBatch + 1 /\ 1 \in 1 .. me.calls
        BY <2>a, <4>1
      <4>3. x \in Local
        BY <2>a, <4>1, <4>2
      <4>4. OwnBudget(x)
        BY <2>a, <4>1, <4>2
      <4>5. \E m \in Messages : history' = Append(history, m)
        BY <3>8, <4>1, <4>2, <2>a, <2>b DEF RecordCalls, me
      <4> QED
        BY <3>8, <4>3, <4>4, <4>5, OneLoopSteps DEF RecordCalls, me
    <3>9. CASE StartTool(l)
      <4> DEFINE x == [me EXCEPT !.pc = "calling", !.started = @ + 1]
      <4>1. me.pc = "turn"
        BY <3>9 DEF StartTool, me
      <4>2. me.started + 1 \in 0 .. MaxToolCalls
        BY <2>a, <4>1
      <4>3. x \in Local
        BY <2>a, <4>1, <4>2
      <4>4. OwnBudget(x)
        BY <2>a, <4>1, <4>2
      <4> QED
        BY <3>9, <4>3, <4>4, OneLoopSteps DEF StartTool, me
    <3>10. CASE EndTool(l)
      <4> DEFINE x == [me EXCEPT !.pc = "told"]
      <4>1. me.pc = "calling"
        BY <3>10 DEF EndTool, me
      <4>3. x \in Local
        BY <2>a, <4>1
      <4>4. OwnBudget(x)
        BY <2>a, <4>1
      <4> QED
        BY <3>10, <4>3, <4>4, OneLoopSteps DEF EndTool, me
    <3>11. CASE RecordResult(l)
      <4> DEFINE x == [me EXCEPT !.total = @ + 1, !.next = @ + 1,
                                  !.pc = IF me.next = me.calls THEN "head" ELSE "turn"]
      <4>1. me.pc = "told"
        BY <3>11 DEF RecordResult, me
      <4>2. /\ me.total + 1 \in 0 .. MaxToolCalls
            /\ me.next + 1 \in 1 .. MaxBatch + 1
            /\ me.next \in 0 .. MaxBatch
        BY <2>a, <4>1
      <4>3. x \in Local
        BY <2>a, <4>1, <4>2
      <4>4. OwnBudget(x)
        BY <2>a, <4>1, <4>2
      <4>5. \E m \in Messages : history' = Append(history, m)
        BY <3>11, <4>1, <4>2, <2>a, <2>b DEF RecordResult, me
      <4> QED
        BY <3>11, <4>3, <4>4, <4>5, OneLoopSteps DEF RecordResult, me
    <3>12. CASE Cancelled(l)
      <4> DEFINE x == [me EXCEPT !.pc = "cancelled"]
      <4>1. me.aborted
        BY <3>12 DEF Cancelled, me
      <4>3. x \in Local
        BY <2>a, <4>1
      <4>4. OwnBudget(x)
        BY <2>a, <4>1
      <4> QED
        BY <3>12, <4>3, <4>4, OneLoopSteps DEF Cancelled, me
    <3> QED
      BY <2>3, <3>1, <3>2, <3>3, <3>4, <3>5, <3>6, <3>7, <3>8, <3>9, <3>10, <3>11, <3>12
         DEF LoopStep
  <2> QED
    BY <1>2, <2>1, <2>2, <2>3
<1> QED
  BY <1>1, <1>2 DEF Next

\* The locals and messages have their types, and no loop ever exceeds its
\* iteration limit or its tool call budget (lines 56-61, 141-146).
THEOREM TypeCorrect == Spec => []TypeOK
<1>1. IInv => TypeOK
  BY DEF IInv
<1> QED
  BY <1>1, InvInit, InvNext, PTL DEF Spec

\* A turn's calls are accepted as a whole and only within what is left of the
\* budget, so a loop never stops for its budget between two calls of a turn.
THEOREM BudgetCorrect == Spec => []BudgetKept
<1>1. IInv => BudgetKept
  BY DEF IInv
<1> QED
  BY <1>1, InvInit, InvNext, PTL DEF Spec

----------------------------------------------------------------------------
(* AgentLoop implements LoopContract *)

C_vars == <<phases, signals, starts>>

LEMMA ContractInit == Init => Contract!Init
BY DEF Init, Contract!Init, phases, signals, starts, Phase, Over

\* A step that turns loop l into x moves the three abstract variables at l.
LEMMA AbstractStep ==
  ASSUME TypeOK, NEW l \in Loops, NEW x, Become(l, x)
  PROVE  /\ phases[l] = Phase(loop[l]) /\ phases' = [phases EXCEPT ![l] = Phase(x)]
         /\ signals[l] = loop[l].aborted /\ signals' = [signals EXCEPT ![l] = x.aborted]
         /\ starts[l] = loop[l].started /\ starts' = [starts EXCEPT ![l] = x.started]
BY DEF TypeOK, Become, phases, signals, starts

\* Of the three, the ones that x has as before do not change at all.
LEMMA Kept ==
  ASSUME TypeOK, NEW l \in Loops, NEW x, Become(l, x)
  PROVE  /\ Phase(x) = Phase(loop[l]) => UNCHANGED phases
         /\ x.aborted = loop[l].aborted => UNCHANGED signals
         /\ x.started = loop[l].started => UNCHANGED starts
<1>1. /\ Phase(x) = Phase(loop[l]) => phases' = [phases EXCEPT ![l] = phases[l]]
      /\ x.aborted = loop[l].aborted => signals' = [signals EXCEPT ![l] = signals[l]]
      /\ x.started = loop[l].started => starts' = [starts EXCEPT ![l] = starts[l]]
  BY AbstractStep
<1>2. /\ phases = [q \in Loops |-> phases[q]]
      /\ signals = [q \in Loops |-> signals[q]]
      /\ starts = [q \in Loops |-> starts[q]]
  BY DEF phases, signals, starts
<1> QED
  BY <1>1, <1>2

\* Every step of a loop is a step of its contract or changes nothing that the
\* contract speaks of.
LEMMA ContractNext == IInv /\ [Next]_vars => [Contract!Next]_C_vars
<1> SUFFICES ASSUME IInv, [Next]_vars PROVE [Contract!Next]_C_vars
  OBVIOUS
<1>1. CASE UNCHANGED vars
  BY <1>1 DEF vars, C_vars, phases, signals, starts
<1>2. ASSUME NEW l \in Loops, Start(l) \/ Abort(l) \/ LoopStep(l)
      PROVE  [Contract!Next]_C_vars
  <2> DEFINE me == loop[l]
  <2>a. me \in Local /\ OwnBudget(me) /\ TypeOK
    BY DEF IInv, TypeOK, BudgetKept
  <2>z. Contract!Next <=> \E k \in Loops :
          \/ Contract!Begin(k) \/ Contract!Abort(k) \/ Contract!StartTool(k)
          \/ Contract!EndTool(k) \/ Contract!Cancelled(k) \/ Contract!Ended(k)
    BY DEF Contract!Next
  <2>1. CASE Start(l)
    <3>1. PICK a \in BOOLEAN :
                 Become(l, [me EXCEPT !.pc = "head", !.aborted = a])
      BY <2>1 DEF Start
    <3> DEFINE x == [me EXCEPT !.pc = "head", !.aborted = a]
    <3>2. Phase(me) = "idle" /\ Phase(x) = "loop"
      BY <2>a, <2>1 DEF Start, Phase, Over, Local
    <3>3. x.aborted = a /\ x.started = me.started
      BY <2>a DEF Local
    <3>b. Become(l, x)
      BY <3>1
    <3> HIDE DEF x
    <3>4. /\ phases[l] = "idle" /\ phases' = [phases EXCEPT ![l] = "loop"]
          /\ signals' = [signals EXCEPT ![l] = a] /\ UNCHANGED starts
      BY <2>a, <3>b, <3>2, <3>3, AbstractStep, Kept
    <3>5. Contract!Begin(l)
      BY <3>4 DEF Contract!Begin, Contract!Move
    <3> QED
      BY <3>5, <2>z
  <2>2. CASE Abort(l)
    <3> DEFINE x == [me EXCEPT !.aborted = TRUE]
    <3>1. Phase(me) \in {"loop", "tool"} /\ Phase(x) = Phase(me)
      BY <2>a, <2>2 DEF Abort, Phase, Over, Local
    <3>2. x.aborted = TRUE /\ x.started = me.started
      BY <2>a DEF Local
    <3>3. /\ phases[l] \in {"loop", "tool"} /\ UNCHANGED <<phases, starts>>
          /\ signals' = [signals EXCEPT ![l] = TRUE]
      BY <2>a, <2>2, <3>1, <3>2, AbstractStep, Kept DEF Abort
    <3>4. Contract!Abort(l)
      BY <3>3 DEF Contract!Abort
    <3> QED
      BY <3>4, <2>z
  <2>3. CASE LoopStep(l)
    <3>1. CASE Iterate(l)
      <4> DEFINE x == [me EXCEPT !.pc = "iterating", !.iteration = @ + 1]
      <4>1. Phase(x) = Phase(me)
        BY <2>a, <3>1 DEF Iterate, Phase, Over, Local
      <4>2. x.aborted = me.aborted /\ x.started = me.started
        BY <2>a DEF Local
      <4> QED
        BY <2>a, <3>1, <4>1, <4>2, Kept DEF Iterate, C_vars
    <3>2. CASE IterationLimit(l)
      <4> DEFINE x == [me EXCEPT !.pc = "error"]
      <4>1. Phase(me) = "loop" /\ Phase(x) = "error" /\ ~me.aborted
        BY <2>a, <3>2 DEF IterationLimit, Phase, Over, Local
      <4>2. x.aborted = me.aborted /\ x.started = me.started
        BY <2>a DEF Local
      <4>b. Become(l, x)
        BY <3>2 DEF IterationLimit, Goto
      <4> HIDE DEF x
      <4>3. /\ phases[l] = "loop" /\ phases' = [phases EXCEPT ![l] = "error"]
            /\ ~signals[l] /\ UNCHANGED signals /\ UNCHANGED starts
        BY <2>a, <4>b, <4>1, <4>2, AbstractStep, Kept
      <4>4. Contract!Ended(l)
        BY <4>3 DEF Contract!Ended, Contract!Move
      <4> QED
        BY <4>4, <2>z
    <3>3. CASE Request(l)
      <4> DEFINE x == [me EXCEPT !.pc = "stream", !.calls = 0]
      <4>1. Phase(x) = Phase(me)
        BY <2>a, <3>3 DEF Request, Phase, Over, Local
      <4>2. x.aborted = me.aborted /\ x.started = me.started
        BY <2>a DEF Local
      <4> QED
        BY <2>a, <3>3, <4>1, <4>2, Kept DEF Request, C_vars
    <3>4. CASE StreamToolCall(l)
      <4> DEFINE x == [me EXCEPT !.calls = @ + 1]
      <4>1. Phase(x) = Phase(me)
        BY <2>a, <3>4 DEF StreamToolCall, Phase, Over, Local
      <4>2. x.aborted = me.aborted /\ x.started = me.started
        BY <2>a DEF Local
      <4> QED
        BY <2>a, <3>4, <4>1, <4>2, Kept DEF StreamToolCall, C_vars
    <3>5. CASE StreamFailed(l)
      <4> DEFINE x == [me EXCEPT !.pc = "error"]
      <4>1. Phase(me) = "loop" /\ Phase(x) = "error" /\ ~me.aborted
        BY <2>a, <3>5 DEF StreamFailed, Phase, Over, Local
      <4>2. x.aborted = me.aborted /\ x.started = me.started
        BY <2>a DEF Local
      <4>b. Become(l, x)
        BY <3>5 DEF StreamFailed, Goto
      <4> HIDE DEF x
      <4>3. /\ phases[l] = "loop" /\ phases' = [phases EXCEPT ![l] = "error"]
            /\ ~signals[l] /\ UNCHANGED signals /\ UNCHANGED starts
        BY <2>a, <4>b, <4>1, <4>2, AbstractStep, Kept
      <4>4. Contract!Ended(l)
        BY <4>3 DEF Contract!Ended, Contract!Move
      <4> QED
        BY <4>4, <2>z
    <3>6. CASE FinalText(l)
      <4> DEFINE x == [me EXCEPT !.pc = "completed"]
      <4>1. Phase(me) = "loop" /\ Phase(x) = "completed" /\ ~me.aborted
        BY <2>a, <3>6 DEF FinalText, Phase, Over, Local
      <4>2. x.aborted = me.aborted /\ x.started = me.started
        BY <2>a DEF Local
      <4>b. Become(l, x)
        BY <3>6 DEF FinalText, Goto
      <4> HIDE DEF x
      <4>3. /\ phases[l] = "loop" /\ phases' = [phases EXCEPT ![l] = "completed"]
            /\ ~signals[l] /\ UNCHANGED signals /\ UNCHANGED starts
        BY <2>a, <4>b, <4>1, <4>2, AbstractStep, Kept
      <4>4. Contract!Ended(l)
        BY <4>3 DEF Contract!Ended, Contract!Move
      <4> QED
        BY <4>4, <2>z
    <3>7. CASE ToolBudget(l)
      <4> DEFINE x == [me EXCEPT !.pc = "error"]
      <4>1. Phase(me) = "loop" /\ Phase(x) = "error" /\ ~me.aborted
        BY <2>a, <3>7 DEF ToolBudget, Phase, Over, Local
      <4>2. x.aborted = me.aborted /\ x.started = me.started
        BY <2>a DEF Local
      <4>b. Become(l, x)
        BY <3>7 DEF ToolBudget, Goto
      <4> HIDE DEF x
      <4>3. /\ phases[l] = "loop" /\ phases' = [phases EXCEPT ![l] = "error"]
            /\ ~signals[l] /\ UNCHANGED signals /\ UNCHANGED starts
        BY <2>a, <4>b, <4>1, <4>2, AbstractStep, Kept
      <4>4. Contract!Ended(l)
        BY <4>3 DEF Contract!Ended, Contract!Move
      <4> QED
        BY <4>4, <2>z
    <3>8. CASE RecordCalls(l)
      <4> DEFINE x == [me EXCEPT !.pc = "turn", !.next = 1]
      <4>1. Phase(x) = Phase(me)
        BY <2>a, <3>8 DEF RecordCalls, Phase, Over, Local
      <4>2. x.aborted = me.aborted /\ x.started = me.started
        BY <2>a DEF Local
      <4> QED
        BY <2>a, <3>8, <4>1, <4>2, Kept DEF RecordCalls, C_vars
    <3>9. CASE StartTool(l)
      <4> DEFINE x == [me EXCEPT !.pc = "calling", !.started = @ + 1]
      <4>1. Phase(me) = "loop" /\ Phase(x) = "tool" /\ ~me.aborted
        BY <2>a, <3>9 DEF StartTool, Phase, Over, Local
      <4>2. x.aborted = me.aborted /\ x.started = me.started + 1
        BY <2>a DEF Local
      <4>b. Become(l, x)
        BY <3>9 DEF StartTool
      <4> HIDE DEF x
      <4>3. /\ phases[l] = "loop" /\ phases' = [phases EXCEPT ![l] = "tool"]
            /\ ~signals[l] /\ UNCHANGED signals /\ starts' = [starts EXCEPT ![l] = starts[l] + 1]
        BY <2>a, <4>b, <4>1, <4>2, AbstractStep, Kept
      <4>4. starts[l] < MaxToolCalls
        BY <2>a, <3>9, AbstractStep, LoopAssumption
           DEF StartTool, OwnBudget, Local, Over, ToolPhase
      <4>5. Contract!StartTool(l)
        BY <4>3, <4>4 DEF Contract!StartTool, Contract!Move
      <4> QED
        BY <4>5, <2>z
    <3>10. CASE EndTool(l)
      <4> DEFINE x == [me EXCEPT !.pc = "told"]
      <4>1. Phase(me) = "tool" /\ Phase(x) = "loop" /\ ~me.aborted
        BY <2>a, <3>10 DEF EndTool, Phase, Over, Local
      <4>2. x.aborted = me.aborted /\ x.started = me.started
        BY <2>a DEF Local
      <4>b. Become(l, x)
        BY <3>10 DEF EndTool, Goto
      <4> HIDE DEF x
      <4>3. /\ phases[l] = "tool" /\ phases' = [phases EXCEPT ![l] = "loop"]
            /\ ~signals[l] /\ UNCHANGED signals /\ UNCHANGED starts
        BY <2>a, <4>b, <4>1, <4>2, AbstractStep, Kept
      <4>4. Contract!EndTool(l)
        BY <4>3 DEF Contract!EndTool, Contract!Move
      <4> QED
        BY <4>4, <2>z
    <3>11. CASE RecordResult(l)
      <4> DEFINE x == [me EXCEPT !.total = @ + 1, !.next = @ + 1,
                                  !.pc = IF me.next = me.calls THEN "head" ELSE "turn"]
      <4>1. Phase(x) = Phase(me)
        BY <2>a, <3>11 DEF RecordResult, Phase, Over, Local
      <4>2. x.aborted = me.aborted /\ x.started = me.started
        BY <2>a DEF Local
      <4> QED
        BY <2>a, <3>11, <4>1, <4>2, Kept DEF RecordResult, C_vars
    <3>12. CASE Cancelled(l)
      <4> DEFINE x == [me EXCEPT !.pc = "cancelled"]
      <4>0. me.aborted /\ Phase(me) \in {"loop", "tool"}
        BY <2>a, <3>12 DEF Cancelled, Phase, Over, Local
      <4>1. Phase(x) = "cancelled"
        BY <2>a DEF Phase, Over, Local
      <4>2. x.aborted = me.aborted /\ x.started = me.started
        BY <2>a DEF Local
      <4>b. Become(l, x)
        BY <3>12 DEF Cancelled, Goto
      <4> HIDE DEF x
      <4>3. phases[l] = Phase(me) /\ signals[l] = me.aborted
        BY <2>a, <4>b, AbstractStep
      <4>4. /\ phases' = [phases EXCEPT ![l] = "cancelled"]
            /\ UNCHANGED signals /\ UNCHANGED starts
        BY <2>a, <4>b, <4>1, <4>2, AbstractStep, Kept
      <4>5. Contract!Cancelled(l)
        BY <4>0, <4>3, <4>4 DEF Contract!Cancelled, Contract!Move
      <4> QED
        BY <4>5, <2>z
    <3> QED
      BY <2>3, <3>1, <3>2, <3>3, <3>4, <3>5, <3>6, <3>7, <3>8, <3>9, <3>10, <3>11, <3>12
         DEF LoopStep
  <2> QED
    BY <1>2, <2>1, <2>2, <2>3
<1> QED
  BY <1>1, <1>2 DEF Next

\* Every behaviour of the loops, seen through the events they emit, is one of
\* LoopContract: AgentRuntime may treat a loop as tool calls within the budget
\* followed by one last event, cancelled iff the signal was found aborted.
THEOREM ImplementsContract == Spec => KeepsContract
<1>1. Init => Contract!Init
  BY ContractInit
<1>2. IInv /\ [Next]_vars => [Contract!Next]_<<phases, signals, starts>>
  BY ContractNext DEF C_vars
<1> QED
  BY <1>1, <1>2, InvInit, InvNext, PTL DEF Spec, KeepsContract, Contract!Spec

----------------------------------------------------------------------------
(* The shared history *)

Said(h, m) == \E i \in 1 .. Len(h) : h[i] = m

\* A loop with the locals x is in the tool phase of its turn t.
During(x, t) == x.pc \in ToolPhase /\ x.iteration = t

\* What the history h holds of loop l, whose locals are x.
TurnsKept(h, l, x) ==
  /\ x.pc = "new" => ~x.aborted
  /\ \A i \in 1 .. Len(h) : h[i].of = l /\ h[i].role \in {"calls", "tool"} =>
       /\ h[i].turn <= x.iteration
       /\ h[i].turn = x.iteration => x.pc \notin {"iterating", "stream"}
       /\ During(x, h[i].turn) =>
            /\ h[i].role = "calls" => h[i].n = x.calls
            /\ h[i].role = "tool" => h[i].n < x.next
  /\ x.pc \in ToolPhase =>
       /\ Said(h, Message("calls", l, x.iteration, x.calls))
       /\ \A k \in 1 .. x.next - 1 : Said(h, Message("tool", l, x.iteration, k))
  /\ x.pc # "cancelled" =>
       \A i \in 1 .. Len(h) :
         h[i].of = l /\ h[i].role = "calls" /\ ~During(x, h[i].turn) =>
           \A k \in 1 .. h[i].n : Said(h, Message("tool", l, h[i].turn, k))

Active(x) == x.pc \notin {"new"} \cup Over

\* The calls at place i of h have their first r results right after them.
Followed(h, i, r) ==
  /\ i + r <= Len(h)
  /\ \A k \in 1 .. r : h[i + k] = Message("tool", h[i].of, h[i].turn, k)

InTurn ==
  (\A l \in Loops : ~loop[l].aborted) =>
    /\ \A p, q \in Loops : Active(loop[p]) /\ Active(loop[q]) => p = q
    /\ \A i \in 1 .. Len(history) : history[i].role = "calls" =>
         LET x == loop[history[i].of] IN
           IF During(x, history[i].turn)
             THEN Followed(history, i, x.next - 1) /\ Len(history) = i + x.next - 1
             ELSE Followed(history, i, history[i].n)


LEMMA AppendFacts ==
  ASSUME NEW h \in Seq(Messages), NEW m
  PROVE  /\ Len(h) \in Nat /\ Len(Append(h, m)) = Len(h) + 1
         /\ \A i \in 1 .. Len(h) : Append(h, m)[i] = h[i] /\ h[i] \in Messages
         /\ Append(h, m)[Len(h) + 1] = m
OBVIOUS

LEMMA SaidStays ==
  ASSUME NEW h \in Seq(Messages), NEW m
  PROVE  Said(Append(h, m), m) /\ \A y : Said(h, y) => Said(Append(h, m), y)
<1>1. Len(h) + 1 \in 1 .. Len(Append(h, m))
  BY AppendFacts
<1>2. \A i \in 1 .. Len(h) : i \in 1 .. Len(Append(h, m))
  BY AppendFacts
<1> QED
  BY <1>1, <1>2, AppendFacts DEF Said

LEMMA MessageFields ==
  \A role, l, t, n :
    LET m == Message(role, l, t, n) IN
      m.role = role /\ m.of = l /\ m.turn = t /\ m.n = n
BY DEF Message

\* A message of another loop, a user message or a final text does not touch
\* what is said of the turns of loop l.
LEMMA OtherMessage ==
  ASSUME NEW h \in Seq(Messages), NEW m, NEW l, NEW x, TurnsKept(h, l, x),
         m.of # l \/ m.role \notin {"calls", "tool"}
  PROVE  TurnsKept(Append(h, m), l, x)
<1> DEFINE g == Append(h, m)
<1>1. /\ \A y : Said(h, y) => Said(g, y)
      /\ \A i \in 1 .. Len(g) : (i \in 1 .. Len(h) /\ g[i] = h[i]) \/ g[i] = m
  BY AppendFacts, SaidStays
<1> HIDE DEF g
<1>2. x.pc = "new" => ~x.aborted
  BY DEF TurnsKept
<1>3. ASSUME NEW i \in 1 .. Len(g), g[i].of = l, g[i].role \in {"calls", "tool"}
      PROVE  /\ g[i].turn <= x.iteration
             /\ g[i].turn = x.iteration => x.pc \notin {"iterating", "stream"}
             /\ During(x, g[i].turn) =>
                  /\ g[i].role = "calls" => g[i].n = x.calls
                  /\ g[i].role = "tool" => g[i].n < x.next
  BY <1>1, <1>3 DEF TurnsKept
<1>4. x.pc \in ToolPhase =>
       /\ Said(g, Message("calls", l, x.iteration, x.calls))
       /\ \A k \in 1 .. x.next - 1 : Said(g, Message("tool", l, x.iteration, k))
  BY <1>1 DEF TurnsKept
<1>5. ASSUME x.pc # "cancelled", NEW i \in 1 .. Len(g),
             g[i].of = l, g[i].role = "calls", ~During(x, g[i].turn),
             NEW k \in 1 .. g[i].n
      PROVE  Said(g, Message("tool", l, g[i].turn, k))
  <2>1. i \in 1 .. Len(h) /\ g[i] = h[i]
    BY <1>1, <1>5
  <2>2. Said(h, Message("tool", l, h[i].turn, k))
    BY <1>5, <2>1 DEF TurnsKept
  <2> QED
    BY <1>1, <2>1, <2>2
<1>6. TurnsKept(g, l, x)
  BY <1>2, <1>3, <1>4, <1>5 DEF TurnsKept
<1> QED
  BY <1>6 DEF g

\* Steps that neither enter the tool phase nor finish it.
LEMMA OtherLocals ==
  ASSUME NEW h \in Seq(Messages), NEW l, NEW x \in Local, NEW y \in Local,
         TurnsKept(h, l, x), y.pc # "new",
         \/ /\ y.iteration = x.iteration
            /\ y.pc \in {"iterating", "stream"} => x.pc \in {"iterating", "stream"}
         \/ y.iteration = x.iteration + 1,
         y.pc \in ToolPhase =>
           /\ x.pc \in ToolPhase /\ y.iteration = x.iteration
           /\ y.calls = x.calls /\ y.next = x.next,
         \/ y.pc = "cancelled"
         \/ x.pc # "cancelled" /\ (x.pc \in ToolPhase => y.pc \in ToolPhase)
  PROVE  TurnsKept(h, l, y)
<1>0. x.iteration \in Nat /\ y.iteration \in Nat
  BY LoopAssumption DEF Local
<1>1. \A t : During(y, t) => During(x, t) /\ y.calls = x.calls /\ y.next = x.next
  BY DEF During
<1>2. y.pc # "cancelled" => \A t : During(x, t) => During(y, t)
  BY DEF During
<1>3. ASSUME NEW i \in 1 .. Len(h), h[i].of = l, h[i].role \in {"calls", "tool"}
      PROVE  /\ h[i].turn <= y.iteration
             /\ h[i].turn = y.iteration => y.pc \notin {"iterating", "stream"}
             /\ During(y, h[i].turn) =>
                  /\ h[i].role = "calls" => h[i].n = y.calls
                  /\ h[i].role = "tool" => h[i].n < y.next
  <2>0. h[i] \in Messages
    OBVIOUS
  <2>1. h[i].turn \in Nat
    BY <2>0, LoopAssumption DEF Messages
  <2>2. /\ h[i].turn <= x.iteration
        /\ h[i].turn = x.iteration => x.pc \notin {"iterating", "stream"}
        /\ During(x, h[i].turn) =>
             /\ h[i].role = "calls" => h[i].n = x.calls
             /\ h[i].role = "tool" => h[i].n < x.next
    BY <1>3 DEF TurnsKept
  <2> QED
    BY <1>0, <1>1, <2>1, <2>2
<1>4. y.pc \in ToolPhase =>
       /\ Said(h, Message("calls", l, y.iteration, y.calls))
       /\ \A k \in 1 .. y.next - 1 : Said(h, Message("tool", l, y.iteration, k))
  BY DEF TurnsKept
<1>5. y.pc # "cancelled" =>
       \A i \in 1 .. Len(h) :
         h[i].of = l /\ h[i].role = "calls" /\ ~During(y, h[i].turn) =>
           \A k \in 1 .. h[i].n : Said(h, Message("tool", l, h[i].turn, k))
  <2> SUFFICES ASSUME y.pc # "cancelled" PROVE
       \A i \in 1 .. Len(h) :
         h[i].of = l /\ h[i].role = "calls" /\ ~During(y, h[i].turn) =>
           \A k \in 1 .. h[i].n : Said(h, Message("tool", l, h[i].turn, k))
    OBVIOUS
  <2>1. x.pc # "cancelled"
    OBVIOUS
  <2>2. \A t : ~During(y, t) => ~During(x, t)
    BY <1>2
  <2> QED
    BY <2>1, <2>2 DEF TurnsKept
<1> QED
  BY <1>3, <1>4, <1>5 DEF TurnsKept

\* The assistant message opens its turn: no message of this turn was there.
LEMMA CallsMessage ==
  ASSUME NEW h \in Seq(Messages), NEW l \in Loops, NEW x \in Local, NEW y \in Local,
         TurnsKept(h, l, x), x.pc = "stream",
         y.pc = "turn", y.iteration = x.iteration, y.calls = x.calls, y.next = 1
  PROVE  TurnsKept(Append(h, Message("calls", l, x.iteration, x.calls)), l, y)
<1> DEFINE m == Message("calls", l, x.iteration, x.calls)
           g == Append(h, m)
<1>1. /\ \A z : Said(h, z) => Said(g, z)
      /\ Said(g, m)
      /\ \A i \in 1 .. Len(g) : (i \in 1 .. Len(h) /\ g[i] = h[i]) \/ g[i] = m
  BY AppendFacts, SaidStays
<1>2. m.role = "calls" /\ m.of = l /\ m.turn = x.iteration /\ m.n = x.calls
  BY MessageFields
<1>3. x.iteration \in Nat
  BY LoopAssumption DEF Local
<1> HIDE DEF g
<1>4. \A t : During(y, t) <=> t = x.iteration
  BY DEF During, ToolPhase
<1>5. \A i \in 1 .. Len(h) : h[i].of = l /\ h[i].role \in {"calls", "tool"} =>
        h[i].turn <= x.iteration /\ h[i].turn # x.iteration
  BY DEF TurnsKept
<1>6. ASSUME NEW i \in 1 .. Len(g), g[i].of = l, g[i].role \in {"calls", "tool"}
      PROVE  /\ g[i].turn <= y.iteration
             /\ g[i].turn = y.iteration => y.pc \notin {"iterating", "stream"}
             /\ During(y, g[i].turn) =>
                  /\ g[i].role = "calls" => g[i].n = y.calls
                  /\ g[i].role = "tool" => g[i].n < y.next
  <2>1. CASE i \in 1 .. Len(h) /\ g[i] = h[i]
    BY <1>4, <1>5, <1>6, <2>1
  <2>2. CASE g[i] = m
    <3> HIDE DEF m
    <3> QED
      BY <1>2, <1>3, <2>2
  <2> QED
    BY <1>1, <2>1, <2>2
<1>7. /\ Said(g, Message("calls", l, y.iteration, y.calls))
      /\ \A k \in 1 .. y.next - 1 : Said(g, Message("tool", l, y.iteration, k))
  BY <1>1
<1>8. ASSUME NEW i \in 1 .. Len(g), g[i].of = l, g[i].role = "calls",
             ~During(y, g[i].turn), NEW k \in 1 .. g[i].n
      PROVE  Said(g, Message("tool", l, g[i].turn, k))
  <2>1. i \in 1 .. Len(h) /\ g[i] = h[i]
    <3> HIDE DEF m
    <3> QED
      BY <1>1, <1>2, <1>4, <1>8
  <2>2. ~During(x, h[i].turn)
    BY DEF During, ToolPhase
  <2>3. Said(h, Message("tool", l, h[i].turn, k))
    BY <1>8, <2>1, <2>2 DEF TurnsKept
  <2> QED
    BY <1>1, <2>1, <2>3
<1>9. TurnsKept(g, l, y)
  BY <1>6, <1>7, <1>8 DEF TurnsKept
<1> QED
  BY <1>9 DEF g

\* A result answers the next call of the turn; with the last one the turn has
\* all its results and the loop goes on.
LEMMA ResultMessage ==
  ASSUME NEW h \in Seq(Messages), NEW l \in Loops, NEW x \in Local, NEW y \in Local,
         TurnsKept(h, l, x), x.pc = "told", x.next \in 1 .. x.calls,
         y.pc = IF x.next = x.calls THEN "head" ELSE "turn",
         y.iteration = x.iteration, y.calls = x.calls, y.next = x.next + 1
  PROVE  TurnsKept(Append(h, Message("tool", l, x.iteration, x.next)), l, y)
<1> DEFINE m == Message("tool", l, x.iteration, x.next)
           g == Append(h, m)
<1>1. /\ \A z : Said(h, z) => Said(g, z)
      /\ Said(g, m)
      /\ \A i \in 1 .. Len(g) : (i \in 1 .. Len(h) /\ g[i] = h[i]) \/ g[i] = m
  BY AppendFacts, SaidStays
<1>2. m.role = "tool" /\ m.of = l /\ m.turn = x.iteration /\ m.n = x.next
  BY MessageFields
<1>3. x.iteration \in Nat /\ x.next \in Nat /\ x.calls \in Nat
  BY LoopAssumption DEF Local
<1> HIDE DEF g
<1>4. /\ \A t : During(x, t) <=> t = x.iteration
      /\ x.next # x.calls => \A t : During(y, t) <=> t = x.iteration
      /\ x.next = x.calls => \A t : ~During(y, t)
  BY DEF During, ToolPhase
<1>6. ASSUME NEW i \in 1 .. Len(g), g[i].of = l, g[i].role \in {"calls", "tool"}
      PROVE  /\ g[i].turn <= y.iteration
             /\ g[i].turn = y.iteration => y.pc \notin {"iterating", "stream"}
             /\ During(y, g[i].turn) =>
                  /\ g[i].role = "calls" => g[i].n = y.calls
                  /\ g[i].role = "tool" => g[i].n < y.next
  <2>1. CASE i \in 1 .. Len(h) /\ g[i] = h[i]
    <3>1. h[i] \in Messages
      BY <2>1
    <3>2. h[i].n \in Nat
      BY <3>1, LoopAssumption DEF Messages
    <3>3. /\ h[i].turn <= x.iteration
          /\ During(x, h[i].turn) =>
               /\ h[i].role = "calls" => h[i].n = x.calls
               /\ h[i].role = "tool" => h[i].n < x.next
      BY <1>6, <2>1 DEF TurnsKept
    <3> QED
      BY <1>3, <1>4, <2>1, <3>2, <3>3
  <2>2. CASE g[i] = m
    <3> HIDE DEF m
    <3> QED
      BY <1>2, <1>3, <2>2
  <2> QED
    BY <1>1, <2>1, <2>2
<1>7. /\ Said(g, Message("calls", l, y.iteration, y.calls))
      /\ \A k \in 1 .. x.next : Said(g, Message("tool", l, y.iteration, k))
  <2>1. /\ Said(h, Message("calls", l, x.iteration, x.calls))
        /\ \A k \in 1 .. x.next - 1 : Said(h, Message("tool", l, x.iteration, k))
    BY DEF TurnsKept, ToolPhase
  <2>2. ASSUME NEW k \in 1 .. x.next PROVE k \in 1 .. x.next - 1 \/ k = x.next
    BY <1>3
  <2> QED
    BY <1>1, <2>1, <2>2
<1>8. ASSUME NEW i \in 1 .. Len(g), g[i].of = l, g[i].role = "calls",
             ~During(y, g[i].turn), NEW k \in 1 .. g[i].n
      PROVE  Said(g, Message("tool", l, g[i].turn, k))
  <2>1. i \in 1 .. Len(h) /\ g[i] = h[i]
    <3> HIDE DEF m
    <3> QED
      BY <1>1, <1>2, <1>8
  <2>2. CASE During(x, h[i].turn)
    <3>1. h[i].turn = x.iteration /\ x.next = x.calls
      BY <1>4, <1>8, <2>1, <2>2
    <3>2. h[i].n = x.calls
      BY <1>8, <2>1, <2>2 DEF TurnsKept
    <3> QED
      BY <1>7, <2>1, <3>1, <3>2
  <2>3. CASE ~During(x, h[i].turn)
    <3>1. Said(h, Message("tool", l, h[i].turn, k))
      BY <1>8, <2>1, <2>3 DEF TurnsKept
    <3> QED
      BY <1>1, <2>1, <3>1
  <2> QED
    BY <2>2, <2>3
<1>9. TurnsKept(g, l, y)
  <2>1. y.pc # "new" /\ y.pc \in {"head", "turn"}
    OBVIOUS
  <2>2. y.next - 1 = x.next
    BY <1>3
  <2> HIDE DEF m
  <2> QED
    BY <1>6, <1>7, <1>8, <2>1, <2>2 DEF TurnsKept
<1> QED
  BY <1>9 DEF g

\* A step of a loop from locals x to y that neither opens nor moves on a turn.
Quiet(x, y) ==
  /\ y.pc # "new" /\ x.pc \notin Over /\ (x.aborted /\ x.pc # "new" => y.aborted)
  /\ \/ /\ y.iteration = x.iteration
        /\ y.pc \in {"iterating", "stream"} => x.pc \in {"iterating", "stream"}
     \/ y.iteration = x.iteration + 1
  /\ y.pc \in ToolPhase =>
       /\ x.pc \in ToolPhase /\ y.iteration = x.iteration
       /\ y.calls = x.calls /\ y.next = x.next
  /\ \/ y.pc = "cancelled" /\ x.aborted
     \/ x.pc \in ToolPhase => y.pc \in ToolPhase

\* The step that records the calls of a turn, and one that records a result.
Opens(x, y) ==
  /\ x.pc = "stream" /\ y.pc = "turn" /\ y.aborted = x.aborted
  /\ y.iteration = x.iteration /\ y.calls = x.calls /\ y.next = 1

Answers(x, y) ==
  /\ x.pc = "told" /\ x.next \in 1 .. x.calls
  /\ y.pc = IF x.next = x.calls THEN "head" ELSE "turn"
  /\ y.aborted = x.aborted /\ y.iteration = x.iteration
  /\ y.calls = x.calls /\ y.next = x.next + 1

\* What a step does to the history, by its kind.
Writes(l, x, y) ==
  \/ Quiet(x, y) /\ UNCHANGED history
  \/ /\ Quiet(x, y) /\ x.pc \in {"new", "stream"}
     /\ \E m \in Messages : /\ history' = Append(history, m)
                            /\ m.of = l /\ m.role \notin {"calls", "tool"}
  \/ /\ Opens(x, y)
     /\ Message("calls", l, x.iteration, x.calls) \in Messages
     /\ history' = Append(history, Message("calls", l, x.iteration, x.calls))
  \/ /\ Answers(x, y)
     /\ Message("tool", l, x.iteration, x.next) \in Messages
     /\ history' = Append(history, Message("tool", l, x.iteration, x.next))

\* Every step is of one of these kinds.
LEMMA StepKinds ==
  ASSUME IInv, NEW l \in Loops, Start(l) \/ Abort(l) \/ LoopStep(l), IInv'
  PROVE  \E y \in Local : Become(l, y) /\ Writes(l, loop[l], y)
<1> DEFINE x == loop[l]
           y == loop'[l]
<1>a. x \in Local /\ OwnBudget(x) /\ y \in Local
  BY DEF IInv, TypeOK, BudgetKept
<1>b. \A n \in 0 .. MaxBatch : \A role \in {"user", "final", "calls", "tool"} :
        /\ Message(role, l, x.iteration, n) \in Messages
        /\ Message(role, l, 0, 0) \in Messages
  BY <1>a, LoopAssumption DEF Message, Messages, Local
<1>c. ASSUME NEW z, Become(l, z) PROVE y = z
  BY <1>c DEF Become, IInv, TypeOK
<1> SUFFICES Become(l, y) /\ Writes(l, x, y)
  BY <1>a
<1>1. CASE Start(l)
  <2>1. PICK a \in BOOLEAN : Become(l, [x EXCEPT !.pc = "head", !.aborted = a])
    BY <1>1 DEF Start
  <2>2. y = [x EXCEPT !.pc = "head", !.aborted = a] /\ x.pc = "new"
    BY <1>1, <1>c, <2>1 DEF Start
  <2>3. Quiet(x, y)
    BY <1>a, <2>2 DEF Quiet, Local, Over, ToolPhase
  <2>4. \/ UNCHANGED history
        \/ history' = Append(history, Message("user", l, 0, 0))
    BY <1>1 DEF Start
  <2>5. /\ Message("user", l, 0, 0) \in Messages
        /\ Message("user", l, 0, 0).of = l
        /\ Message("user", l, 0, 0).role \notin {"calls", "tool"}
    BY <1>b, LoopAssumption, MessageFields
  <2>6. Writes(l, x, y)
    BY <2>2, <2>3, <2>4, <2>5 DEF Writes
  <2> QED
    BY <2>1, <2>2, <2>6
<1>2. CASE Abort(l)
  <2>1. Become(l, [x EXCEPT !.aborted = TRUE]) /\ UNCHANGED history
    BY <1>2 DEF Abort
  <2>2. y = [x EXCEPT !.aborted = TRUE] /\ x.pc \notin {"new"} \cup Over
    BY <1>2, <1>c, <2>1 DEF Abort
  <2>3. Quiet(x, y)
    BY <1>a, <2>2 DEF Quiet, Local, Over, ToolPhase
  <2> QED
    BY <2>1, <2>2, <2>3 DEF Writes
<1>3. CASE LoopStep(l)
  <2>1. CASE Iterate(l) \/ IterationLimit(l) \/ Request(l) \/ StreamToolCall(l)
    <3>1. /\ UNCHANGED history
          /\ \/ Become(l, [x EXCEPT !.pc = "iterating", !.iteration = @ + 1])
             \/ Become(l, [x EXCEPT !.pc = "error"])
             \/ Become(l, [x EXCEPT !.pc = "stream", !.calls = 0])
                /\ x.pc = "iterating"
             \/ Become(l, [x EXCEPT !.calls = @ + 1]) /\ x.pc = "stream"
          /\ x.pc \in {"head", "iterating", "stream"}
      BY <2>1 DEF Iterate, IterationLimit, Request, StreamToolCall, Goto
    <3>2. /\ Become(l, y)
          /\ \/ y = [x EXCEPT !.pc = "iterating", !.iteration = @ + 1]
             \/ y = [x EXCEPT !.pc = "error"]
             \/ y = [x EXCEPT !.pc = "stream", !.calls = 0] /\ x.pc = "iterating"
             \/ y = [x EXCEPT !.calls = @ + 1] /\ x.pc = "stream"
      BY <1>c, <3>1
    <3>3. Quiet(x, y)
      BY <1>a, <3>1, <3>2 DEF Quiet, Local, Over, ToolPhase
    <3> QED
      BY <3>1, <3>2, <3>3 DEF Writes
  <2>2. CASE StreamFailed(l) \/ ToolBudget(l) \/ StartTool(l) \/ EndTool(l)
    <3>1. /\ UNCHANGED history
          /\ \/ Become(l, [x EXCEPT !.pc = "error"]) /\ x.pc = "stream"
             \/ Become(l, [x EXCEPT !.pc = "calling", !.started = @ + 1])
                /\ x.pc = "turn"
             \/ Become(l, [x EXCEPT !.pc = "told"]) /\ x.pc = "calling"
      BY <2>2 DEF StreamFailed, ToolBudget, StartTool, EndTool, Goto
    <3>2. /\ Become(l, y)
          /\ \/ y = [x EXCEPT !.pc = "error"] /\ x.pc = "stream"
             \/ y = [x EXCEPT !.pc = "calling", !.started = @ + 1] /\ x.pc = "turn"
             \/ y = [x EXCEPT !.pc = "told"] /\ x.pc = "calling"
      BY <1>c, <3>1
    <3>3. Quiet(x, y)
      BY <1>a, <3>2 DEF Quiet, Local, Over, ToolPhase
    <3> QED
      BY <3>1, <3>2, <3>3 DEF Writes
  <2>3. CASE FinalText(l)
    <3>1. /\ Become(l, [x EXCEPT !.pc = "completed"]) /\ x.pc = "stream"
          /\ history' = Append(history, Message("final", l, x.iteration, 0))
      BY <2>3 DEF FinalText, Goto
    <3>2. y = [x EXCEPT !.pc = "completed"]
      BY <1>c, <3>1
    <3>3. Quiet(x, y)
      BY <1>a, <3>1, <3>2 DEF Quiet, Local, Over, ToolPhase
    <3>4. /\ Message("final", l, x.iteration, 0) \in Messages
          /\ Message("final", l, x.iteration, 0).of = l
          /\ Message("final", l, x.iteration, 0).role \notin {"calls", "tool"}
      BY <1>b, LoopAssumption, MessageFields
    <3>5. Writes(l, x, y)
      BY <3>1, <3>3, <3>4 DEF Writes
    <3> QED
      BY <3>1, <3>2, <3>5
  <2>4. CASE RecordCalls(l)
    <3>1. /\ Become(l, [x EXCEPT !.pc = "turn", !.next = 1]) /\ x.pc = "stream"
          /\ history' = Append(history, Message("calls", l, x.iteration, x.calls))
      BY <2>4 DEF RecordCalls
    <3>2. y = [x EXCEPT !.pc = "turn", !.next = 1]
      BY <1>c, <3>1
    <3>3. Opens(x, y)
      BY <1>a, <3>1, <3>2 DEF Opens, Local
    <3>4. Message("calls", l, x.iteration, x.calls) \in Messages
      BY <1>a, <1>b DEF Local
    <3>5. Writes(l, x, y)
      BY <3>1, <3>3, <3>4 DEF Writes
    <3> QED
      BY <3>1, <3>2, <3>5
  <2>5. CASE RecordResult(l)
    <3> DEFINE z == [x EXCEPT !.total = @ + 1, !.next = @ + 1,
                              !.pc = IF x.next = x.calls THEN "head" ELSE "turn"]
    <3>1. /\ Become(l, z) /\ x.pc = "told"
          /\ history' = Append(history, Message("tool", l, x.iteration, x.next))
      BY <2>5 DEF RecordResult
    <3>2. y = z
      BY <1>c, <3>1
    <3>3. x.next \in 1 .. x.calls /\ x.next \in 0 .. MaxBatch
      <4>1. x.pc \in ToolPhase /\ x.calls \in 0 .. MaxBatch /\ OwnBudget(x)
        BY <1>a, <3>1 DEF Local, ToolPhase
      <4> HIDE DEF x
      <4>2. x.next \in 1 .. x.calls
        BY <4>1 DEF OwnBudget
      <4> QED
        BY <4>1, <4>2, LoopAssumption
    <3>4. Answers(x, y)
      BY <1>a, <3>1, <3>2, <3>3 DEF Answers, Local
    <3>5. Message("tool", l, x.iteration, x.next) \in Messages
      BY <1>b, <3>3
    <3>6. Writes(l, x, y)
      BY <3>1, <3>4, <3>5 DEF Writes
    <3> QED
      BY <3>1, <3>2, <3>6
  <2>6. CASE Cancelled(l)
    <3>1. /\ Become(l, [x EXCEPT !.pc = "cancelled"]) /\ UNCHANGED history
          /\ x.aborted /\ x.pc \in {"head", "stream", "turn", "calling"}
      BY <2>6 DEF Cancelled, Goto
    <3>2. y = [x EXCEPT !.pc = "cancelled"]
      BY <1>c, <3>1
    <3>3. Quiet(x, y)
      BY <1>a, <3>1, <3>2 DEF Quiet, Local, Over, ToolPhase
    <3> QED
      BY <3>1, <3>2, <3>3 DEF Writes
  <2> QED
    BY <1>3, <2>1, <2>2, <2>3, <2>4, <2>5, <2>6 DEF LoopStep
<1> QED
  BY <1>1, <1>2, <1>3

\* The turns are kept by every step, whichever loop takes it.
LEMMA TurnsNext ==
  ASSUME IInv, \A q \in Loops : TurnsKept(history, q, loop[q]),
         NEW l \in Loops, NEW y \in Local, Become(l, y), Writes(l, loop[l], y)
  PROVE  \A q \in Loops : TurnsKept(history', q, loop'[q])
<1> DEFINE x == loop[l]
<1>1. /\ history \in Seq(Messages) /\ x \in Local /\ TurnsKept(history, l, x)
      /\ loop'[l] = y /\ \A q \in Loops : q # l => loop'[q] = loop[q]
  BY DEF IInv, TypeOK, Become
<1> HIDE DEF x
<1>2. ASSUME Quiet(x, y) PROVE TurnsKept(history, l, y)
  BY <1>1, <1>2, OtherLocals DEF Quiet, Over
<1>3. CASE Quiet(x, y) /\ UNCHANGED history
  BY <1>1, <1>2, <1>3
<1>4. ASSUME NEW m \in Messages, history' = Append(history, m), m.of = l
      PROVE  \A q \in Loops : q # l => TurnsKept(history', q, loop'[q])
  BY <1>1, <1>4, OtherMessage
<1>5. CASE /\ Quiet(x, y)
           /\ \E m \in Messages : /\ history' = Append(history, m)
                                  /\ m.of = l /\ m.role \notin {"calls", "tool"}
  <2>1. PICK m \in Messages : /\ history' = Append(history, m)
                              /\ m.of = l /\ m.role \notin {"calls", "tool"}
    BY <1>5
  <2>2. TurnsKept(history', l, y)
    BY <1>1, <1>2, <1>5, <2>1, OtherMessage
  <2> QED
    BY <1>1, <1>4, <2>1, <2>2
<1>6. CASE /\ Opens(x, y)
           /\ Message("calls", l, x.iteration, x.calls) \in Messages
           /\ history' = Append(history, Message("calls", l, x.iteration, x.calls))
  <2>1. TurnsKept(history', l, y)
    BY <1>1, <1>6, CallsMessage DEF Opens
  <2> QED
    BY <1>1, <1>4, <1>6, <2>1, MessageFields
<1>7. CASE /\ Answers(x, y)
           /\ Message("tool", l, x.iteration, x.next) \in Messages
           /\ history' = Append(history, Message("tool", l, x.iteration, x.next))
  <2>1. TurnsKept(history', l, y)
    BY <1>1, <1>7, ResultMessage DEF Answers
  <2> QED
    BY <1>1, <1>4, <1>7, <2>1, MessageFields
<1> QED
  BY <1>3, <1>5, <1>6, <1>7 DEF Writes, x

\* What ResultsAnswerCalls says of the place j of the history h.
Answering(h, j) ==
  LET t == h[j] IN
    /\ \E i \in 1 .. j - 1 :
         /\ h[i].role = "calls" /\ t.n <= h[i].n
         /\ h[i].of = t.of /\ h[i].turn = t.turn
    /\ t.n > 1 => \E i \in 1 .. j - 1 : h[i] = [t EXCEPT !.n = @ - 1]
    /\ \A i \in 1 .. j - 1 : h[i] # t

LEMMA AnsweringStays ==
  ASSUME NEW h \in Seq(Messages), NEW m, NEW j \in 1 .. Len(h), Answering(h, j)
  PROVE  Answering(Append(h, m), j)
<1>1. /\ Append(h, m)[j] = h[j]
      /\ \A i \in 1 .. j - 1 : Append(h, m)[i] = h[i]
  BY AppendFacts
<1> QED
  BY <1>1 DEF Answering

\* A result that a loop records answers the next call of its turn.
LEMMA AnswersNext ==
  ASSUME IInv, ResultsAnswerCalls, \A q \in Loops : TurnsKept(history, q, loop[q]),
         NEW l \in Loops, NEW y \in Local, Become(l, y), Writes(l, loop[l], y)
  PROVE  ResultsAnswerCalls'
<1> DEFINE x == loop[l]
<1>1. /\ history \in Seq(Messages) /\ x \in Local /\ TurnsKept(history, l, x)
      /\ Len(history) \in Nat
  BY DEF IInv, TypeOK
<1>2. \A j \in 1 .. Len(history) : history[j].role = "tool" => Answering(history, j)
  BY DEF ResultsAnswerCalls, Answering
<1>3. SUFFICES ASSUME NEW j \in 1 .. Len(history'), history'[j].role = "tool"
               PROVE  Answering(history', j)
  BY DEF ResultsAnswerCalls, Answering
<1> HIDE DEF x
<1>4. CASE UNCHANGED history
  BY <1>2, <1>3, <1>4
<1>5. ASSUME NEW m \in Messages, history' = Append(history, m), m.role # "tool"
      PROVE  Answering(history', j)
  BY <1>1, <1>2, <1>3, <1>5, AppendFacts, AnsweringStays
<1>6. CASE /\ Answers(x, y)
           /\ Message("tool", l, x.iteration, x.next) \in Messages
           /\ history' = Append(history, Message("tool", l, x.iteration, x.next))
  <2> DEFINE m == Message("tool", l, x.iteration, x.next)
  <2>1. CASE j \in 1 .. Len(history)
    BY <1>1, <1>2, <1>3, <1>6, <2>1, AppendFacts, AnsweringStays
  <2>2. CASE j = Len(history) + 1
    <3>0. /\ history'[j] = m
          /\ \A i \in 1 .. j - 1 : i \in 1 .. Len(history) /\ history'[i] = history[i]
      BY <1>1, <1>6, <2>2, AppendFacts
    <3>1. x.pc \in ToolPhase /\ x.next \in 1 .. x.calls /\ x.next \in Nat
      BY <1>1, <1>6, LoopAssumption DEF Answers, ToolPhase, Local
    <3>2. /\ Said(history, Message("calls", l, x.iteration, x.calls))
          /\ \A k \in 1 .. x.next - 1 : Said(history, Message("tool", l, x.iteration, k))
      BY <1>1, <3>1 DEF TurnsKept
    <3>3. PICK i \in 1 .. Len(history) :
                 history[i] = Message("calls", l, x.iteration, x.calls)
      BY <3>2 DEF Said
    <3>4. \E k \in 1 .. j - 1 :
            /\ history'[k].role = "calls" /\ m.n <= history'[k].n
            /\ history'[k].of = m.of /\ history'[k].turn = m.turn
      <4>1. i \in 1 .. j - 1
        BY <1>1, <2>2
      <4>2. history'[i] = Message("calls", l, x.iteration, x.calls)
        BY <3>0, <3>3, <4>1
      <4>3. m.n <= history'[i].n
        BY <3>1, <4>2, MessageFields
      <4> QED
        BY <4>1, <4>2, <4>3, MessageFields
    <3>5. ASSUME m.n > 1
          PROVE  \E k \in 1 .. j - 1 : history'[k] = [m EXCEPT !.n = @ - 1]
      <4>1. x.next - 1 \in 1 .. x.next - 1
        BY <3>1, <3>5, MessageFields
      <4>2. PICK k \in 1 .. Len(history) :
                   history[k] = Message("tool", l, x.iteration, x.next - 1)
        BY <3>2, <4>1 DEF Said
      <4>3. [m EXCEPT !.n = @ - 1] = Message("tool", l, x.iteration, x.next - 1)
        BY DEF Message
      <4>4. k \in 1 .. j - 1
        BY <1>1, <2>2
      <4> HIDE DEF m
      <4> QED
        BY <3>0, <4>2, <4>3, <4>4
    <3>6. ASSUME NEW k \in 1 .. j - 1 PROVE history'[k] # m
      <4>1. k \in 1 .. Len(history) /\ history'[k] = history[k]
        BY <3>0
      <4>2. m.role = "tool" /\ m.of = l /\ m.turn = x.iteration /\ m.n = x.next
        BY MessageFields
      <4>3. During(x, x.iteration)
        BY <3>1 DEF During
      <4> HIDE DEF m
      <4>4. history[k] = m => m.n < x.next
        BY <1>1, <4>1, <4>2, <4>3 DEF TurnsKept
      <4> QED
        BY <3>1, <4>1, <4>2, <4>4
    <3> HIDE DEF m
    <3> QED
      BY <3>0, <3>4, <3>5, <3>6 DEF Answering
  <2> QED
    BY <1>1, <1>3, <1>6, <2>1, <2>2, AppendFacts
<1>7. CASE /\ Opens(x, y)
           /\ Message("calls", l, x.iteration, x.calls) \in Messages
           /\ history' = Append(history, Message("calls", l, x.iteration, x.calls))
  BY <1>5, <1>7, MessageFields
<1> QED
  BY <1>4, <1>5, <1>6, <1>7 DEF Writes, x

LEMMA FollowedStays ==
  ASSUME NEW h \in Seq(Messages), NEW m, NEW i \in 1 .. Len(h), NEW r \in Nat,
         Followed(h, i, r)
  PROVE  Followed(Append(h, m), i, r)
<1>1. /\ Append(h, m)[i] = h[i] /\ Len(Append(h, m)) = Len(h) + 1
      /\ \A k \in 1 .. r : i + k \in 1 .. Len(h) /\ Append(h, m)[i + k] = h[i + k]
  BY AppendFacts DEF Followed
<1> QED
  BY <1>1, AppendFacts DEF Followed

\* The calls at place i are followed by the results that their turn has.
InPlace(h, i, x) ==
  IF During(x, h[i].turn)
    THEN Followed(h, i, x.next - 1) /\ Len(h) = i + x.next - 1
    ELSE Followed(h, i, h[i].n)

\* As long as no loop is aborted, the only active loop writes at the end of
\* the history, right after the calls it is answering.
LEMMA InTurnNext ==
  ASSUME IInv, InTurn, \A q \in Loops : TurnsKept(history, q, loop[q]),
         NEW l \in Loops, NEW y \in Local, Become(l, y), Writes(l, loop[l], y),
         loop[l].pc = "new" =>
           \A q \in Loops : loop[q].pc \in {"new"} \cup Over \/ loop[q].aborted
  PROVE  InTurn'
<1> DEFINE x == loop[l]
<1>1. /\ history \in Seq(Messages) /\ x \in Local /\ TurnsKept(history, l, x)
      /\ loop'[l] = y /\ \A q \in Loops : q # l => loop'[q] = loop[q]
      /\ Len(history) \in Nat /\ loop \in [Loops -> Local]
  BY DEF IInv, TypeOK, Become
<1>2. SUFFICES ASSUME \A q \in Loops : ~loop'[q].aborted
               PROVE  /\ \A p, q \in Loops : Active(loop'[p]) /\ Active(loop'[q]) => p = q
                      /\ \A i \in 1 .. Len(history') : history'[i].role = "calls" =>
                           InPlace(history', i, loop'[history'[i].of])
  BY DEF InTurn, InPlace
<1>x. /\ Writes(l, x, y)
      /\ x.pc = "new" =>
           \A q \in Loops : loop[q].pc \in {"new"} \cup Over \/ loop[q].aborted
  OBVIOUS
<1>3. ~x.aborted /\ ~y.aborted
  <2> HIDE DEF x
  <2> QED
    BY <1>1, <1>2, <1>x DEF Writes, Quiet, Opens, Answers, TurnsKept
<1>4. /\ \A q \in Loops : ~loop[q].aborted
      /\ \A p, q \in Loops : Active(loop[p]) /\ Active(loop[q]) => p = q
      /\ \A i \in 1 .. Len(history) : history[i].role = "calls" =>
           InPlace(history, i, loop[history[i].of])
  <2>1. \A q \in Loops : ~loop[q].aborted
    BY <1>1, <1>2, <1>3
  <2> QED
    BY <2>1 DEF InTurn, InPlace
<1>5. \A q \in Loops : q # l => ~Active(loop[q])
  <2>1. x.pc \notin Over
    <3> HIDE DEF x
    <3> QED
      BY <1>x DEF Writes, Quiet, Opens, Answers, Over
  <2>2. CASE x.pc = "new"
    BY <1>4, <2>2 DEF Active
  <2>3. CASE x.pc # "new"
    BY <1>4, <2>1, <2>3 DEF Active
  <2> QED
    BY <2>2, <2>3
<1>6. \A q \in Loops : q # l => \A t : ~During(loop[q], t) /\ ~During(loop'[q], t)
  BY <1>1, <1>5 DEF Active, During, ToolPhase, Over
<1>7. \A p, q \in Loops : Active(loop'[p]) /\ Active(loop'[q]) => p = q
  BY <1>1, <1>5
<1>8. ASSUME NEW i \in 1 .. Len(history), history[i].role = "calls",
             NEW m, history' = Append(history, m),
             ~During(loop[history[i].of], history[i].turn),
             ~During(loop'[history[i].of], history[i].turn)
      PROVE  InPlace(history', i, loop'[history'[i].of])
  <2>0. history[i] \in Messages
    BY <1>1
  <2>1. history[i].n \in Nat
    BY <2>0, LoopAssumption DEF Messages
  <2>2. history'[i] = history[i] /\ i \in 1 .. Len(history')
    BY <1>1, <1>8, AppendFacts
  <2>3. Followed(history, i, history[i].n)
    BY <1>4, <1>8 DEF InPlace
  <2>4. Followed(history', i, history[i].n)
    BY <1>1, <1>8, <2>1, <2>3, FollowedStays
  <2> QED
    BY <1>8, <2>2, <2>4 DEF InPlace
<1> HIDE DEF x
<1>9. ASSUME NEW i \in 1 .. Len(history'), history'[i].role = "calls"
      PROVE  InPlace(history', i, loop'[history'[i].of])
  <2>1. ASSUME Quiet(x, y)
        PROVE  /\ \A q \in Loops : \A t : During(loop'[q], t) <=> During(loop[q], t)
               /\ x.pc \in ToolPhase => y.next = x.next
    BY <1>1, <1>3, <1>6, <2>1 DEF Quiet, During, x
  <2>2. CASE Quiet(x, y) /\ UNCHANGED history
    <3>1. history[i] \in Messages
      BY <1>1, <1>9, <2>2
    <3>2. history[i].of \in Loops /\ InPlace(history, i, loop[history[i].of])
      BY <1>4, <1>9, <2>2, <3>1 DEF Messages
    <3>3. CASE history[i].of = l
      BY <1>1, <2>1, <2>2, <3>2, <3>3 DEF InPlace, x, During
    <3>4. CASE history[i].of # l
      BY <1>1, <2>2, <3>2, <3>4
    <3> QED
      BY <3>3, <3>4
  <2>3. CASE /\ Quiet(x, y) /\ x.pc \in {"new", "stream"}
             /\ \E m \in Messages : /\ history' = Append(history, m)
                                    /\ m.of = l /\ m.role \notin {"calls", "tool"}
    <3>1. PICK m \in Messages : /\ history' = Append(history, m)
                                /\ m.role \notin {"calls", "tool"}
      BY <2>3
    <3>2. i \in 1 .. Len(history) /\ history'[i] = history[i] /\ history[i] \in Messages
      BY <1>1, <1>9, <3>1, AppendFacts
    <3>3. \A q \in Loops : \A t : ~During(loop[q], t)
      BY <1>1, <1>6, <2>3 DEF During, ToolPhase, x
    <3>4. history[i].of \in Loops
      BY <3>2 DEF Messages
    <3> QED
      BY <1>8, <1>9, <2>1, <2>3, <3>1, <3>2, <3>3, <3>4
  <2>4. CASE /\ Opens(x, y)
             /\ Message("calls", l, x.iteration, x.calls) \in Messages
             /\ history' = Append(history, Message("calls", l, x.iteration, x.calls))
    <3>1. CASE i \in 1 .. Len(history)
      <4>1. history'[i] = history[i] /\ history[i] \in Messages
        BY <1>1, <2>4, <3>1, AppendFacts
      <4>2. history[i].of \in Loops
        BY <4>1 DEF Messages
      <4>3. ~During(x, history[i].turn)
        BY <2>4 DEF Opens, During, ToolPhase
      <4>4. history[i].of = l => ~During(y, history[i].turn)
        BY <1>1, <1>9, <2>4, <3>1, <4>1 DEF TurnsKept, Opens, During
      <4> QED
        BY <1>1, <1>6, <1>8, <1>9, <2>4, <3>1, <4>1, <4>2, <4>3, <4>4 DEF x
    <3>2. CASE i = Len(history) + 1
      <4> DEFINE m == Message("calls", l, x.iteration, x.calls)
      <4>1. history'[i] = m /\ Len(history') = i
        BY <1>1, <2>4, <3>2, AppendFacts
      <4>2. m.of = l /\ m.turn = x.iteration
        BY MessageFields
      <4>3. During(y, m.turn) /\ y.next - 1 = 0
        BY <2>4, <4>2 DEF Opens, During, ToolPhase
      <4> HIDE DEF m
      <4>4. Followed(history', i, 0)
        BY <1>1, <3>2, <4>1 DEF Followed
      <4>5. Len(history') = i + y.next - 1
        BY <1>1, <3>2, <4>1, <2>4 DEF Opens
      <4> QED
        BY <1>1, <4>1, <4>2, <4>3, <4>4, <4>5 DEF InPlace
    <3> QED
      BY <1>1, <1>9, <2>4, <3>1, <3>2, AppendFacts
  <2>5. CASE /\ Answers(x, y)
             /\ Message("tool", l, x.iteration, x.next) \in Messages
             /\ history' = Append(history, Message("tool", l, x.iteration, x.next))
    <3> DEFINE m == Message("tool", l, x.iteration, x.next)
    <3>1. i \in 1 .. Len(history) /\ history'[i] = history[i] /\ history[i] \in Messages
      BY <1>1, <1>9, <2>5, AppendFacts, MessageFields
    <3>2. history[i].of \in Loops
      BY <3>1 DEF Messages
    <3>3. \A t : During(x, t) <=> t = x.iteration
      BY <2>5 DEF Answers, During, ToolPhase
    <3>4. /\ x.next # x.calls => \A t : During(y, t) <=> t = x.iteration
          /\ x.next = x.calls => \A t : ~During(y, t)
      BY <2>5 DEF Answers, During, ToolPhase
    <3>5. CASE history[i].of # l \/ history[i].turn # x.iteration
      <4>1. /\ ~During(loop[history[i].of], history[i].turn)
            /\ ~During(loop'[history[i].of], history[i].turn)
        BY <1>1, <1>6, <3>2, <3>3, <3>4, <3>5 DEF x
      <4> QED
        BY <1>8, <1>9, <2>5, <3>1, <4>1
    <3>6. CASE history[i].of = l /\ history[i].turn = x.iteration
      <4>0. x.next \in Nat /\ x.next - 1 \in Nat /\ y.next = x.next + 1
        BY <1>1, <2>5 DEF Answers
      <4>1. Followed(history, i, x.next - 1) /\ Len(history) = i + x.next - 1
        BY <1>4, <1>9, <3>1, <3>3, <3>6 DEF InPlace, x
      <4>2. Followed(history', i, x.next - 1)
        BY <1>1, <2>5, <3>1, <4>0, <4>1, FollowedStays
      <4>3. Len(history') = i + x.next /\ history'[i + x.next] = m
        <5>1. Len(history) + 1 = i + x.next
          BY <1>1, <4>0, <4>1
        <5>2. Len(history') = Len(history) + 1 /\ history'[Len(history) + 1] = m
          BY <1>1, <2>5, AppendFacts
        <5> QED
          BY <5>1, <5>2
      <4>4. m = Message("tool", history'[i].of, history'[i].turn, x.next)
        BY <3>1, <3>6
      <4> HIDE DEF m
      <4>5. Followed(history', i, x.next)
        <5>1. \A k \in 1 .. x.next : k \in 1 .. x.next - 1 \/ k = x.next
          BY <4>0
        <5>2. ASSUME NEW k \in 1 .. x.next
              PROVE  history'[i + k] = Message("tool", history'[i].of, history'[i].turn, k)
          <6>1. CASE k \in 1 .. x.next - 1
            BY <4>2, <6>1 DEF Followed
          <6>2. CASE k = x.next
            BY <4>3, <4>4, <6>2
          <6> QED
            BY <5>1, <6>1, <6>2
        <5>3. i + x.next <= Len(history')
          BY <4>0, <4>3
        <5> QED
          BY <5>2, <5>3 DEF Followed
      <4>6. CASE x.next # x.calls
        <5>1. During(y, history'[i].turn)
          BY <3>1, <3>4, <3>6, <4>6
        <5>2. y.next - 1 = x.next /\ Len(history') = i + y.next - 1
          BY <4>0, <4>3
        <5> QED
          BY <1>1, <3>1, <3>6, <4>5, <5>1, <5>2 DEF InPlace
      <4>7. CASE x.next = x.calls
        <5>1. ~During(y, history'[i].turn)
          BY <3>4, <4>7
        <5>2. history'[i].n = x.next
          BY <1>1, <1>9, <3>1, <3>3, <3>6, <4>7 DEF TurnsKept
        <5> QED
          BY <1>1, <3>1, <3>6, <4>5, <5>1, <5>2 DEF InPlace
      <4> QED
        BY <4>6, <4>7
    <3> QED
      BY <3>5, <3>6
  <2> QED
    BY <1>x, <2>2, <2>3, <2>4, <2>5 DEF Writes
<1> QED
  BY <1>7, <1>9

\* The inductive invariant of the shared history.
HInv ==
  /\ IInv
  /\ \A l \in Loops : TurnsKept(history, l, loop[l])
  /\ ResultsAnswerCalls
  /\ InTurn

LEMMA HInvInit == Init => HInv
<1> SUFFICES ASSUME Init PROVE HInv
  OBVIOUS
<1>1. IInv
  BY InvInit
<1>2. history = <<>> /\ Len(history) = 0
  BY DEF Init
<1>3. \A l \in Loops : loop[l].pc = "new" /\ ~loop[l].aborted
  BY DEF Init
<1>4. ASSUME NEW l \in Loops PROVE TurnsKept(history, l, loop[l])
  <2>1. loop[l].pc \notin ToolPhase /\ \A i \in 1 .. Len(history) : FALSE
    BY <1>2, <1>3 DEF ToolPhase
  <2> QED
    BY <1>3, <2>1 DEF TurnsKept
<1>5. ResultsAnswerCalls
  BY <1>2 DEF ResultsAnswerCalls
<1>6. InTurn
  BY <1>2, <1>3 DEF InTurn, Active
<1> QED
  BY <1>1, <1>4, <1>5, <1>6 DEF HInv

LEMMA HInvNext == HInv /\ [Next]_vars => HInv'
<1> SUFFICES ASSUME HInv, [Next]_vars PROVE HInv'
  OBVIOUS
<1>1. IInv'
  BY InvNext DEF HInv
<1>2. CASE UNCHANGED vars
  <2>1. history' = history /\ loop' = loop
    BY <1>2 DEF vars
  <2>2. /\ \A l \in Loops : TurnsKept(history', l, loop'[l])
        /\ ResultsAnswerCalls' /\ InTurn'
    BY <2>1 DEF HInv, ResultsAnswerCalls, InTurn
  <2> QED
    BY <1>1, <2>2 DEF HInv
<1>3. ASSUME NEW l \in Loops, Start(l) \/ Abort(l) \/ LoopStep(l) PROVE HInv'
  <2>1. PICK y \in Local : Become(l, y) /\ Writes(l, loop[l], y)
    BY <1>1, <1>3, StepKinds DEF HInv
  <2>2. loop[l].pc = "new" =>
          \A q \in Loops : loop[q].pc \in {"new"} \cup Over \/ loop[q].aborted
    BY <1>3 DEF Start, Abort, LoopStep, Iterate, IterationLimit, Request,
                StreamToolCall, StreamFailed, FinalText, ToolBudget, RecordCalls,
                StartTool, EndTool, RecordResult, Cancelled
  <2>3. \A q \in Loops : TurnsKept(history', q, loop'[q])
    BY <2>1, TurnsNext DEF HInv
  <2>4. ResultsAnswerCalls'
    BY <2>1, AnswersNext DEF HInv
  <2>5. InTurn'
    BY <2>1, <2>2, InTurnNext DEF HInv
  <2> QED
    BY <1>1, <2>3, <2>4, <2>5 DEF HInv
<1> QED
  BY <1>2, <1>3 DEF Next

\* However the loops of a runtime follow and overtake each other, every tool
\* message answers one call of an earlier assistant message of its own loop,
\* each call at most once and in order (tool-call.handler.ts, addToolResult).
THEOREM ResultsCorrect == Spec => []ResultsAnswerCalls
<1>1. HInv => ResultsAnswerCalls
  BY DEF HInv
<1> QED
  BY <1>1, HInvInit, HInvNext, PTL DEF Spec

\* A recorded call stays unanswered only in the turn its loop is in, or
\* because the loop was cancelled there.
THEOREM CallsAnsweredCorrect == Spec => []OnlyCancellationLeavesCalls
<1>1. HInv => OnlyCancellationLeavesCalls
  <2> SUFFICES ASSUME HInv, NEW i \in 1 .. Len(history), history[i].role = "calls",
                      Answered(history[i]) # 1 .. history[i].n,
                      loop[history[i].of].pc # "cancelled"
               PROVE  During(loop[history[i].of], history[i].turn)
    BY DEF OnlyCancellationLeavesCalls, During
  <2>1. history[i] \in Messages
    BY DEF HInv, IInv, TypeOK
  <2>2. history[i].of \in Loops
    BY <2>1 DEF Messages
  <2>3. SUFFICES ASSUME ~During(loop[history[i].of], history[i].turn) PROVE FALSE
    OBVIOUS
  <2>4. \A k \in 1 .. history[i].n :
          Said(history, Message("tool", history[i].of, history[i].turn, k))
    BY <2>2, <2>3 DEF HInv, TurnsKept
  <2> QED
    BY <2>4 DEF Answered, Said
<1> QED
  BY <1>1, HInvInit, HInvNext, PTL DEF Spec

\* Until the first abort the provider is never sent a conversation in which an
\* assistant message with calls is not directly followed by all their results.
THEOREM RequestsCorrect == Spec => []RequestsWellFormed
<1>1. HInv => RequestsWellFormed
  <2> SUFFICES ASSUME HInv, \A l \in Loops : ~loop[l].aborted,
                      NEW l \in Loops, loop[l].pc = "stream",
                      NEW i \in 1 .. Len(history), history[i].role = "calls"
               PROVE  Followed(history, i, history[i].n)
    BY DEF RequestsWellFormed, WellFormed, Followed
  <2>1. history[i] \in Messages
    BY DEF HInv, IInv, TypeOK
  <2>2. history[i].of \in Loops
    BY <2>1 DEF Messages
  <2>3. \A q \in Loops : Active(loop[q]) => q = l
    BY DEF HInv, InTurn, Active, Over
  <2>4. ~During(loop[history[i].of], history[i].turn)
    BY <2>2, <2>3 DEF During, Active, ToolPhase, Over
  <2> QED
    BY <2>4 DEF HInv, InTurn
<1> QED
  BY <1>1, HInvInit, HInvNext, PTL DEF Spec

\* After an abort a loop adds nothing but the result of the call it has
\* already reported, and no step of another loop adds anything in its name.
THEOREM SilenceCorrect == Spec => SilentAfterAbort
<1> DEFINE Silent == \A l \in Loops : loop[l].aborted /\ loop[l].pc # "told" =>
                        MessagesOf(history', l) = MessagesOf(history, l)
<1>1. HInv /\ [Next]_vars => [Silent]_vars
  <2> SUFFICES ASSUME HInv, Next, HInv', NEW q \in Loops,
                      loop[q].aborted, loop[q].pc # "told"
               PROVE  MessagesOf(history', q) = MessagesOf(history, q)
    BY HInvNext
  <2>1. PICK l \in Loops : Start(l) \/ Abort(l) \/ LoopStep(l)
    BY DEF Next
  <2>2. PICK y \in Local : Become(l, y) /\ Writes(l, loop[l], y)
    BY <2>1, StepKinds DEF HInv
  <2>3. history \in Seq(Messages) /\ TurnsKept(history, q, loop[q])
    BY DEF HInv, IInv, TypeOK
  <2>4. CASE UNCHANGED history
    BY <2>4
  <2>5. ASSUME NEW m, history' = Append(history, m), m.of # q
        PROVE  MessagesOf(history', q) = MessagesOf(history, q)
    BY <2>3, <2>5, AppendFacts DEF MessagesOf
  <2>6. CASE l = q /\ ~UNCHANGED history
    <3>1. loop[l].pc # "new"
      BY <2>3, <2>6 DEF TurnsKept
    <3> QED
      BY <2>1, <2>6, <3>1
         DEF Start, Abort, LoopStep, Iterate, IterationLimit, Request, StreamToolCall,
             StreamFailed, FinalText, ToolBudget, RecordCalls, StartTool, EndTool,
             RecordResult, Cancelled
  <2>7. CASE l # q /\ ~UNCHANGED history
    BY <2>2, <2>5, <2>7, MessageFields DEF Writes
  <2> QED
    BY <2>4, <2>6, <2>7
<1> QED
  BY <1>1, HInvInit, HInvNext, PTL DEF Spec, SilentAfterAbort
=============================================================================
