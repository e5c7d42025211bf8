---------------------------- MODULE SessionProofs ----------------------------
(***************************************************************************)
(* Session for every set of requests and checks: the prompt follows the    *)
(* streams, what is shown as running is, and the conversation of a manager *)
(* without runtime keeps each answer with its question.                    *)
(***************************************************************************)
EXTENDS Session, FiniteSetTheorems, TLAPS

USE DEF Idle

Doings == {Idle} \cup ({"tool"} \X Nat) \cup ({"check"} \X Checks)

Runs == [pc : {"new", "open", "last", "done"}, cancelled : BOOLEAN, doing : Doings]

Row(p, c, d) == [pc |-> p, cancelled |-> c, doing |-> d]

Sends == [pc : {"unsent", "opened", "streaming", "failing", "answered", "done"},
          text : BOOLEAN, completed : BOOLEAN]

Entries == [kind : {"assistant", "tool", "check"},
            id : Requests \cup (Requests \X Nat) \cup Checks,
            mark : {"plain", "running", "ended"}]

Screens == [ui : {"input", "processing", "exiting", "gone"}, thinking : BOOLEAN,
            streaming : Requests \cup {None}, entries : SUBSET Entries]

Talk == [role : {"user", "assistant"}, of : Requests]

TypeOK ==
  /\ mode \in Modes /\ disturbed \in BOOLEAN
  /\ messages \in Seq(Talk)
  /\ send \in [Requests -> Sends] /\ run \in [Requests -> Runs]
  /\ screen \in Screens

ToolsOK == tools \in [Requests -> Nat]

\* Only one of the two kinds of streams is ever opened.
OneSource ==
  IF mode.hasRuntime THEN \A q \in Requests : send[q].pc = "unsent"
                     ELSE \A q \in Requests : run[q].pc = "new"

\* A run that was not submitted awaits nothing, and cancel() does not reach it.
NewRuns ==
  \A q \in Requests : run[q].pc = "new" =>
    q # active /\ ~run[q].cancelled /\ run[q].doing = Idle

\* Until a clear finds a send under way, at most one is, and the message that
\* it is to answer is the last one.
OneSend ==
  ~disturbed =>
    /\ \A p, q \in Requests : Active(p) /\ Active(q) => p = q
    /\ \A q \in Generating :
         /\ status = "generating"
         /\ Len(messages) > 0
         /\ messages[Len(messages)] = [role |-> "user", of |-> q]
    /\ \A i \in 1 .. Len(messages) : messages[i].role = "assistant" =>
         i > 1 /\ messages[i - 1] = [role |-> "user", of |-> messages[i].of]

\* On a terminal a send holds the prompt until its finally block.
PromptHeld ==
  mode.raw /\ ~mode.hasRuntime =>
    /\ ~disturbed
    /\ screen.ui = "input" => \A q \in Requests : ~Active(q)

SInv ==
  /\ TypeOK /\ ToolsOK /\ OneSource /\ NewRuns /\ OneSend /\ PromptHeld
  /\ ScreenFollowsStreams /\ RunningIsRunning

----------------------------------------------------------------------------
(* What the handlers make of a screen *)

LEMMA Handlers ==
  ASSUME NEW s \in Screens
  PROVE  /\ Still(s) \in Screens /\ Still(s).ui = s.ui /\ Still(s).entries = s.entries
         /\ ~Still(s).thinking /\ Still(s).streaming = None
         /\ Thinking(s) \in Screens /\ Thinking(s).ui = s.ui
         /\ Thinking(s).entries = s.entries
         /\ Processing(s) \in Screens /\ Processing(s).entries = s.entries
         /\ Ended(s) \in Screens /\ Ended(s).ui \in {"input", "gone"}
         /\ Ended(s).entries = s.entries
         /\ ~Ended(s).thinking /\ Ended(s).streaming = None
BY DEF Screens, Still, Thinking, Processing, Ended, ToInput

LEMMA Adding ==
  ASSUME NEW s \in Screens, NEW e \in Entries
  PROVE  /\ Add(s, e) \in Screens /\ Add(s, e).ui = s.ui
         /\ Add(s, e).entries = s.entries \cup {e}
BY DEF Screens, Add

LEMMA Marking ==
  ASSUME NEW s \in Screens, NEW kind, NEW id
  PROVE  LET m == Marked(s, kind, id, "ended")
         IN  /\ m \in Screens /\ m.ui = s.ui
             /\ \A e \in m.entries : e.mark = "running" =>
                  e \in s.entries /\ ~(e.kind = kind /\ e.id = id)
<1> DEFINE E == (s.entries \ Shown(s, kind, id))
                  \cup {[e EXCEPT !.mark = "ended"] : e \in Shown(s, kind, id)}
<1>1. E \subseteq Entries
  BY DEF Screens, Shown, Entries
<1>2. \A e \in E : e.mark = "running" => e \in s.entries /\ ~(e.kind = kind /\ e.id = id)
  BY DEF Screens, Shown, Entries
<1>3. Marked(s, kind, id, "ended") = [s EXCEPT !.entries = E]
  BY DEF Marked
<1> HIDE DEF E
<1> QED
  BY <1>1, <1>2, <1>3 DEF Screens

LEMMA Texting ==
  ASSUME NEW s \in Screens, NEW q \in Requests, NEW t \in {Texted(s, q), Answered(s, q)}
  PROVE  /\ t \in Screens /\ t.ui = s.ui
         /\ \A e \in t.entries : e.mark = "running" => e \in s.entries
<1> DEFINE e == Entry("assistant", q, "plain")
           r == [s EXCEPT !.thinking = FALSE, !.streaming = q]
<1>1. e \in Entries /\ e.mark = "plain"
  BY DEF Entry, Entries
<1>2. r \in Screens /\ r.ui = s.ui /\ r.entries = s.entries
  BY DEF Screens
<1>3. /\ Texted(s, q) = IF created[q] THEN s ELSE Add(r, e)
      /\ Answered(s, q) = IF Shown(s, "assistant", q) # {} THEN Still(s) ELSE Add(Still(s), e)
  BY DEF Texted, Answered
<1>4. /\ Add(r, e) \in Screens /\ Add(r, e).ui = s.ui
      /\ Add(r, e).entries = s.entries \cup {e}
  BY <1>1, <1>2, Adding
<1>5. /\ Still(s) \in Screens /\ Still(s).ui = s.ui /\ Still(s).entries = s.entries
      /\ Add(Still(s), e) \in Screens /\ Add(Still(s), e).ui = s.ui
      /\ Add(Still(s), e).entries = s.entries \cup {e}
  BY <1>1, Handlers, Adding
<1> HIDE DEF e, r
<1> QED
  BY <1>1, <1>3, <1>4, <1>5

----------------------------------------------------------------------------
(* The types *)

LEMMA TypeInit == Init => TypeOK
<1> SUFFICES ASSUME Init PROVE TypeOK
  OBVIOUS
<1>1. mode \in Modes /\ disturbed \in BOOLEAN
  BY DEF Init, ConvInit, Runtime!Init
<1>6. messages \in Seq(Talk)
  BY DEF Init, ConvInit, Runtime!Init
<1>2. send \in [Requests -> Sends]
  BY DEF Init, ConvInit, Unsent, Sends, Runtime!Init
<1>3. Idle \in Doings
  BY DEF Doings
<1>4. run \in [Requests -> Runs]
  BY <1>3 DEF Init, Runtime!Init, Runs
<1>5. screen \in Screens
  BY DEF Init, Screens, Runtime!Init
<1> QED
  BY <1>1, <1>2, <1>4, <1>5, <1>6 DEF TypeOK

LEMMA Reached ==
  ASSUME NEW x \in Runs, NEW b PROVE [x EXCEPT !.cancelled = @ \/ b] \in Runs
<1>1. (x.cancelled \/ b) \in BOOLEAN
  OBVIOUS
<1>2. \A c \in BOOLEAN : [x EXCEPT !.cancelled = c] \in Runs
  BY DEF Runs
<1> QED
  BY <1>1, <1>2

LEMMA Running ==
  \A q \in Requests, n \in Nat : Entry("tool", <<q, n>>, "running") \in Entries
BY DEF Entry, Entries

LEMMA ToolsNext == ToolsOK /\ [Next]_vars => ToolsOK'
<1> SUFFICES ASSUME ToolsOK, [Next]_vars PROVE ToolsOK'
  OBVIOUS
<1>1. \/ tools' = tools
      \/ \E q \in Requests : tools' = [tools EXCEPT ![q] = tools[q] + 1]
  BY DEF Next, vars, runtimeVars, User, TypeExit, TypeClear, InkExits, Interrupt,
         InterruptIdle, SubmitToRuntime, SubmitToManager, Exit, RunStep, Works, Text,
         Output, StartTool, StartCheck, EndItem, EndRun, SendStep, SendOpens, SendTexts,
         SendCompletes, SendFails, SendAnswers, SendEnds
<1>2. \A q \in Requests : tools[q] + 1 \in Nat
  BY DEF ToolsOK
<1> QED
  BY <1>1, <1>2 DEF ToolsOK

LEMMA TypeNext == TypeOK /\ ToolsOK /\ [Next]_vars => TypeOK'
<1> SUFFICES ASSUME TypeOK, ToolsOK, [Next]_vars PROVE TypeOK'
  OBVIOUS
<1> USE DEF TypeOK
<1>1. CASE UNCHANGED vars
  BY <1>1 DEF vars, convVars
<1>2. CASE User \/ Exit
  <2>1. mode' = mode
    BY <1>2 DEF User, TypeExit, TypeClear, InkExits, Interrupt, InterruptIdle,
                SubmitToRuntime, SubmitToManager, Exit, Runtime!Cancel, Runtime!Submit
  <2>2. CASE TypeExit \/ InkExits \/ InterruptIdle \/ Exit
    BY <2>1, <2>2 DEF TypeExit, InkExits, InterruptIdle, Exit, convVars, runtimeVars, Screens
  <2>3. CASE TypeClear
    BY <2>1, <2>3 DEF TypeClear, Clear, runtimeVars, Screens
  <2>4. CASE Interrupt
    <3>1. run' \in [Requests -> Runs]
      BY <2>4, Reached DEF Interrupt, Runtime!Cancel
    <3>2. screen' \in Screens
      <4>1. Still(screen) \in Screens
        BY Handlers
      <4> QED
        BY <2>4, <4>1 DEF Interrupt, Screens, Runtime!Cancel
    <3> QED
      BY <2>1, <2>4, <3>1, <3>2 DEF Interrupt, convVars, Runtime!Cancel
  <2>5. CASE \E q \in Requests : SubmitToRuntime(q)
    <3>1. run' \in [Requests -> Runs]
      <4>1. PICK q \in Requests : run' = [run EXCEPT ![q] = Row("open", FALSE, Idle)]
        BY <2>5 DEF SubmitToRuntime, Runtime!Submit, Runtime!Becomes, Row, Idle
      <4>2. Row("open", FALSE, Idle) \in Runs
        BY DEF Row, Runs, Doings
      <4> QED
        BY <4>1, <4>2
    <3>2. screen' \in Screens
      BY <2>5, Handlers DEF SubmitToRuntime, Runtime!Submit
    <3> QED
      BY <2>1, <2>5, <3>1, <3>2 DEF SubmitToRuntime, convVars, Runtime!Submit
  <2>6. CASE \E q \in Requests : SubmitToManager(q)
    <3>1. screen' \in Screens /\ run' = run
      BY <2>6, Handlers DEF SubmitToManager, runtimeVars
    <3>2. send' \in [Requests -> Sends] /\ messages' \in Seq(Talk) /\ disturbed' = disturbed
      BY <2>6 DEF SubmitToManager, Send, AddMessage, Move, Sends, Talk
    <3> QED
      BY <2>1, <3>1, <3>2
  <2> QED
    BY <1>2, <2>2, <2>3, <2>4, <2>5, <2>6 DEF User
<1>3. ASSUME NEW q \in Requests, RunStep(q) PROVE TypeOK'
  <2>1. mode' = mode /\ messages' = messages /\ send' = send /\ disturbed' = disturbed
    BY <1>3 DEF RunStep, Works, Text, Output, StartTool, StartCheck, EndItem, EndRun, convVars,
                Runtime!StartTool, Runtime!StartCheck, Runtime!EndItem, Runtime!End,
                Runtime!Free, Runtime!MayEnd
  <2>2. run' \in [Requests -> Runs]
    <3>1. CASE Works(q) \/ Text(q) \/ Output(q)
      BY <3>1 DEF Works, Text, Output, runtimeVars
    <3>2. CASE StartTool(q)
      <4> DEFINE n == tools[q] + 1
      <4>1. run[q] \in Runs /\ n \in Nat
        BY DEF ToolsOK
      <4>2. <<"tool", n>> \in Doings
        BY <4>1 DEF Doings
      <4>3. run' = [run EXCEPT ![q] = Row("open", FALSE, <<"tool", n>>)]
        BY <3>2 DEF StartTool, Runtime!StartTool, Runtime!Becomes, Row
      <4>4. Row("open", FALSE, <<"tool", n>>) \in Runs
        BY <4>2 DEF Row, Runs
      <4> QED
        BY <4>3, <4>4
    <3>3. CASE StartCheck(q)
      <4>1. \A c \in Checks : <<"check", c>> \in Doings
        BY DEF Doings
      <4>2. PICK c \in Checks : run' = [run EXCEPT ![q] = Row("open", FALSE, <<"check", c>>)]
        BY <3>3 DEF StartCheck, Runtime!StartCheck, Runtime!Becomes, Row
      <4>3. Row("open", FALSE, <<"check", c>>) \in Runs
        BY <4>1 DEF Row, Runs
      <4> QED
        BY <4>2, <4>3
    <3>4. CASE EndItem(q) \/ EndRun(q)
      <4>1. Idle \in Doings
        BY DEF Doings
      <4>2. PICK p \in {"open", "done"} : run' = [run EXCEPT ![q] = Row(p, run[q].cancelled, Idle)]
        BY <3>4 DEF EndItem, EndRun, Runtime!EndItem, Runtime!End, Runtime!Free, Runtime!Becomes,
                    Row, Idle
      <4>3. Row(p, run[q].cancelled, Idle) \in Runs
        BY <4>1 DEF Row, Runs
      <4> QED
        BY <4>2, <4>3
    <3> QED
      BY <1>3, <3>1, <3>2, <3>3, <3>4 DEF RunStep
  <2>3. screen' \in Screens
    <3>1. CASE Works(q)
      BY <3>1, Handlers DEF Works
    <3>2. CASE Text(q)
      BY <3>2, Texting DEF Text
    <3>3. CASE Output(q)
      BY <3>3, Texting, Handlers DEF Output
    <3>4. CASE StartTool(q)
      <4>1. tools[q] + 1 \in Nat
        BY DEF ToolsOK
      <4>2. screen' = Add(Still(screen), Entry("tool", <<q, tools[q] + 1>>, "running"))
        BY <3>4 DEF StartTool, Runtime!StartTool
      <4>3. Entry("tool", <<q, tools[q] + 1>>, "running") \in Entries
        BY <4>1, Running
      <4> QED
        BY <4>2, <4>3, Adding, Handlers
    <3>5. CASE StartCheck(q)
      <4>1. PICK c \in Checks : screen' = Add(Thinking(screen), Entry("check", c, "running"))
        BY <3>5 DEF StartCheck, Runtime!StartCheck
      <4>2. Entry("check", c, "running") \in Entries
        BY DEF Entry, Entries
      <4> QED
        BY <4>1, <4>2, Adding, Handlers
    <3>6. CASE EndItem(q)
      BY <3>6, Marking, Handlers DEF EndItem, Runtime!EndItem
    <3>7. CASE EndRun(q)
      BY <3>7, Handlers DEF EndRun, Runtime!End, Runtime!Free, Runtime!MayEnd
    <3> QED
      BY <1>3, <3>1, <3>2, <3>3, <3>4, <3>5, <3>6, <3>7 DEF RunStep
  <2> QED
    BY <2>1, <2>2, <2>3
<1>4. ASSUME NEW q \in Requests, SendStep(q) PROVE TypeOK'
  <2>1. mode' = mode /\ run' = run /\ disturbed' = disturbed
    BY <1>4 DEF SendStep, SendOpens, SendTexts, SendCompletes, SendFails, SendAnswers, SendEnds,
                OpenStream, TextDelta, StreamCompleted, StreamFails, StreamEnds, Finish,
                runtimeVars
  <2>2. send' \in [Requests -> Sends]
    <3>1. \/ \E pc \in {"streaming", "failing", "answered", "done"} : Move(q, pc)
          \/ send' = [send EXCEPT ![q].text = TRUE]
          \/ send' = [send EXCEPT ![q].completed = TRUE]
      BY <1>4 DEF SendStep, SendOpens, SendTexts, SendCompletes, SendFails, SendAnswers,
                  SendEnds, OpenStream, TextDelta, StreamCompleted, StreamFails, StreamEnds,
                  Finish
    <3> QED
      BY <3>1 DEF Move, Sends
  <2>3. messages' \in Seq(Talk)
    <3>1. messages' = messages \/ messages' = Append(messages, [role |-> "assistant", of |-> q])
      BY <1>4 DEF SendStep, SendOpens, SendTexts, SendCompletes, SendFails, SendAnswers,
                  SendEnds, OpenStream, TextDelta, StreamCompleted, StreamFails, StreamEnds,
                  Finish, AddMessage
    <3>2. [role |-> "assistant", of |-> q] \in Talk
      BY DEF Talk
    <3> QED
      BY <3>1, <3>2
  <2>4. screen' \in Screens
    <3>1. CASE SendOpens(q) \/ SendAnswers(q) \/ SendEnds(q) \/ SendCompletes(q)
      BY <3>1, Handlers DEF SendOpens, SendAnswers, SendEnds, SendCompletes
    <3>2. CASE SendTexts(q)
      BY <3>2, Texting DEF SendTexts
    <3>3. CASE SendFails(q)
      <4>1. Still(screen) \in Screens /\ Still(screen).entries = screen.entries
        BY Handlers
      <4> QED
        BY <3>3, <4>1 DEF SendFails, Screens
    <3> QED
      BY <1>4, <3>1, <3>2, <3>3 DEF SendStep
  <2> QED
    BY <2>1, <2>2, <2>3, <2>4
<1> QED
  BY <1>1, <1>2, <1>3, <1>4 DEF Next

----------------------------------------------------------------------------
(* The screen and the streams *)

LEMMA SourceNext == TypeOK /\ OneSource /\ [Next]_vars => OneSource'
<1> SUFFICES ASSUME TypeOK, OneSource, [Next]_vars PROVE OneSource'
  OBVIOUS
<1>1. CASE mode.hasRuntime
  <2>1. \A q \in Requests : send[q].pc = "unsent"
    BY <1>1 DEF OneSource
  <2>2. mode' = mode /\ send' = send
    BY <1>1, <2>1
       DEF Next, vars, convVars, User, TypeExit, TypeClear, Clear, InkExits, Interrupt,
           InterruptIdle, SubmitToRuntime, SubmitToManager, Exit, RunStep, Works, Text,
           Output, StartTool, StartCheck, EndItem, EndRun, SendStep, SendOpens, SendTexts,
           SendCompletes, SendFails, SendAnswers, SendEnds, OpenStream, TextDelta,
           StreamCompleted, StreamFails, StreamEnds, Finish, Runtime!Cancel, Runtime!Submit,
           Runtime!StartTool, Runtime!StartCheck, Runtime!EndItem, Runtime!End, Runtime!Free,
           Runtime!MayEnd
  <2> QED
    BY <1>1, <2>1, <2>2 DEF OneSource
<1>2. CASE ~mode.hasRuntime
  <2>1. \A q \in Requests : run[q].pc = "new"
    BY <1>2 DEF OneSource
  <2>2. mode' = mode /\ run' = run
    BY <1>2, <2>1
       DEF Next, vars, runtimeVars, User, TypeExit, TypeClear, InkExits, Interrupt,
           InterruptIdle, SubmitToRuntime, SubmitToManager, Exit, RunStep, Works, Text,
           Output, StartTool, StartCheck, EndItem, EndRun, Runtime!Goes, SendStep, SendOpens,
           SendTexts, SendCompletes, SendFails, SendAnswers, SendEnds, Runtime!Cancel,
           Runtime!Submit, Runtime!StartTool, Runtime!StartCheck, Runtime!EndItem, Runtime!End,
           Runtime!Free, Runtime!MayEnd
  <2> QED
    BY <1>2, <2>1, <2>2 DEF OneSource
<1> QED
  BY <1>1, <1>2

LEMMA NewNext ==
  ASSUME TypeOK, NewRuns, [Next]_vars
  PROVE  NewRuns'
<1>1. run \in [Requests -> Runs]
  BY DEF TypeOK
<1>2. CASE run' = run /\ active' = active
  BY <1>2 DEF NewRuns
<1>3. CASE Interrupt
  <2>1. active' = active
    BY <1>3 DEF Interrupt, Runtime!Cancel
  <2>2. \A q \in Requests : q # active => run'[q] = [run[q] EXCEPT !.cancelled = @ \/ FALSE]
    BY <1>3 DEF Interrupt, Runtime!Cancel
  <2>3. \A q \in Requests : run'[q].pc = run[q].pc
    BY <1>1, <1>3 DEF Interrupt, Runtime!Cancel, Runs
  <2>4. \A q \in Requests : q # active =>
          run'[q].doing = run[q].doing /\ (run'[q].cancelled <=> run[q].cancelled)
    BY <1>1, <2>2 DEF Runs
  <2> QED
    BY <2>1, <2>3, <2>4 DEF NewRuns
<1>4. ASSUME NEW q \in Requests, SubmitToRuntime(q) PROVE NewRuns'
  <2>1. active' = q /\ run' = [run EXCEPT ![q] = Row("open", FALSE, Idle)]
    BY <1>4 DEF SubmitToRuntime, Runtime!Submit, Runtime!Becomes, Row, Idle
  <2> QED
    BY <1>1, <2>1 DEF NewRuns, Row
<1>5. ASSUME NEW q \in Requests, RunStep(q) PROVE NewRuns'
  <2>1. /\ active' \in {active, None}
        /\ \/ run' = run
           \/ \E c, d : \E p \in {"open", "done"} : run' = [run EXCEPT ![q] = Row(p, c, d)]
    BY <1>5 DEF RunStep, Works, Text, Output, StartTool, StartCheck, EndItem, EndRun,
                runtimeVars, Runtime!StartTool, Runtime!StartCheck, Runtime!EndItem,
                Runtime!End, Runtime!Free, Runtime!MayEnd, Runtime!Becomes, Row
  <2> QED
    BY <1>1, <2>1, SessionAssumption DEF NewRuns, Row
<1>6. CASE UNCHANGED vars \/ TypeExit \/ TypeClear \/ InkExits \/ InterruptIdle \/ Exit
           \/ \E q \in Requests : SubmitToManager(q) \/ SendStep(q)
  BY <1>2, <1>6 DEF vars, runtimeVars, TypeExit, TypeClear, InkExits, InterruptIdle, Exit,
                    SubmitToManager, SendStep, SendOpens, SendTexts, SendCompletes,
                    SendFails, SendAnswers, SendEnds
<1> QED
  BY <1>3, <1>4, <1>5, <1>6 DEF Next, User

\* While a stream is open anything goes; the step that closes one hands the
\* prompt back, whichever streams are left.
LEMMA ScreenNext ==
  ASSUME TypeOK, OneSource, ScreenFollowsStreams, [Next]_vars
  PROVE  ScreenFollowsStreams'
<1>1. ASSUME NEW q \in Requests, Open(q)' PROVE ScreenFollowsStreams'
  BY <1>1 DEF ScreenFollowsStreams
<1>2. ASSUME screen'.ui # "processing", ~screen'.thinking, screen'.streaming = None
      PROVE  ScreenFollowsStreams'
  BY <1>2 DEF ScreenFollowsStreams
<1>3. ASSUME mode' = mode, run' = run, send' = send,
             screen'.ui # "processing" \/ screen'.ui = screen.ui,
             screen'.thinking = screen.thinking, screen'.streaming = screen.streaming
      PROVE  ScreenFollowsStreams'
  BY <1>3 DEF ScreenFollowsStreams, Open, Active
<1>s. screen \in Screens
  BY DEF TypeOK
<1>4. CASE UNCHANGED vars
  BY <1>3, <1>4 DEF vars, convVars
<1>5. CASE TypeExit \/ TypeClear \/ InkExits \/ InterruptIdle \/ Exit
  <2>1. mode' = mode /\ run' = run /\ send' = send
    BY <1>5 DEF TypeExit, TypeClear, Clear, InkExits, InterruptIdle, Exit, convVars, runtimeVars
  <2>2. \/ \E u \in {"exiting", "gone"} : screen' = [screen EXCEPT !.ui = u]
        \/ screen' = [screen EXCEPT !.entries = {}]
    BY <1>5 DEF TypeExit, TypeClear, InkExits, InterruptIdle, Exit
  <2>3. /\ screen'.ui # "processing" \/ screen'.ui = screen.ui
        /\ screen'.thinking = screen.thinking /\ screen'.streaming = screen.streaming
    BY <1>s, <2>2 DEF Screens
  <2> QED
    BY <1>3, <2>1, <2>3
<1>6. CASE Interrupt
  <2>1. screen' = [Still(screen) EXCEPT !.ui = "input"]
    BY <1>6 DEF Interrupt, Runtime!Cancel
  <2>2. screen'.ui = "input" /\ ~screen'.thinking /\ screen'.streaming = None
    BY <1>s, <2>1 DEF Still, Screens
  <2> QED
    BY <1>2, <2>2
<1>7. ASSUME NEW q \in Requests, SubmitToRuntime(q) \/ SubmitToManager(q)
      PROVE  ScreenFollowsStreams'
  <2>1. CASE SubmitToRuntime(q)
    <3>1. /\ mode.hasRuntime /\ mode' = mode
          /\ run' = [run EXCEPT ![q] = Row("open", FALSE, Idle)]
      BY <2>1 DEF SubmitToRuntime, Runtime!Submit, Runtime!Becomes, Row, Idle
    <3>2. run'[q].pc = "open"
      BY <3>1 DEF TypeOK, Row
    <3> QED
      BY <1>1, <3>1, <3>2 DEF Open
  <2>2. CASE SubmitToManager(q)
    <3>1. ~mode.hasRuntime /\ mode' = mode /\ send' = [send EXCEPT ![q] = [@ EXCEPT !.pc = "opened"]]
      BY <2>2 DEF SubmitToManager, Send, Move
    <3>2. send'[q].pc = "opened"
      BY <3>1 DEF TypeOK, Sends
    <3> QED
      BY <1>1, <3>1, <3>2 DEF Open, Active
  <2> QED
    BY <1>7, <2>1, <2>2
<1>8. ASSUME NEW q \in Requests, RunStep(q) PROVE ScreenFollowsStreams'
  <2>1. CASE EndRun(q)
    <3>1. screen' = Ended(screen)
      BY <2>1 DEF EndRun, Runtime!End, Runtime!Free, Runtime!MayEnd
    <3>2. screen'.ui # "processing" /\ ~screen'.thinking /\ screen'.streaming = None
      BY <1>s, <3>1, Handlers
    <3> QED
      BY <1>2, <3>2
  <2>2. CASE ~EndRun(q)
    <3>1. /\ run[q].pc = "open" /\ mode' = mode
          /\ \/ run' = run
             \/ \E c, d : run' = [run EXCEPT ![q] = Row("open", c, d)]
      BY <1>8, <2>2
         DEF RunStep, Works, Text, Output, StartTool, StartCheck, EndItem, Runtime!Goes,
             runtimeVars, Runtime!StartTool, Runtime!StartCheck, Runtime!EndItem,
             Runtime!Becomes, Row
    <3>2. mode.hasRuntime
      BY <3>1 DEF OneSource
    <3>3. run'[q].pc = "open"
      BY <3>1 DEF TypeOK, Row
    <3> QED
      BY <1>1, <3>1, <3>2, <3>3 DEF Open
  <2> QED
    BY <2>1, <2>2
<1>9. ASSUME NEW q \in Requests, SendStep(q) PROVE ScreenFollowsStreams'
  <2>1. CASE SendEnds(q)
    <3>1. screen' = Ended(screen)
      BY <2>1 DEF SendEnds
    <3>2. screen'.ui # "processing" /\ ~screen'.thinking /\ screen'.streaming = None
      BY <1>s, <3>1, Handlers
    <3> QED
      BY <1>2, <3>2
  <2>2. CASE ~SendEnds(q)
    <3>1. /\ send[q].pc # "unsent" /\ mode' = mode
          /\ \/ \E pc \in {"streaming", "failing", "answered"} : Move(q, pc)
             \/ send[q].pc = "streaming" /\ send' = [send EXCEPT ![q].text = TRUE]
             \/ send[q].pc = "streaming" /\ send' = [send EXCEPT ![q].completed = TRUE]
      BY <1>9, <2>2 DEF SendStep, SendOpens, SendTexts, SendCompletes, SendFails,
                        SendAnswers, OpenStream, TextDelta, StreamCompleted, StreamFails,
                        StreamEnds
    <3>2. ~mode.hasRuntime
      BY <3>1 DEF OneSource
    <3>3. send'[q].pc \in {"streaming", "failing", "answered"}
      BY <3>1 DEF TypeOK, Sends, Move
    <3> QED
      BY <1>1, <3>1, <3>2, <3>3 DEF Open, Active
  <2> QED
    BY <2>1, <2>2
<1> QED
  BY <1>4, <1>5, <1>6, <1>7, <1>8, <1>9 DEF Next, User

----------------------------------------------------------------------------
(* What is shown as running *)

\* The entry e is of what a run does, or of a tool a cancelled run has left.
Accounted(e, r, q) ==
  \/ r[q].doing # Idle /\ e.kind = r[q].doing[1] /\ e.id = IdOf(e.kind, q, r[q].doing[2])
  \/ r[q].cancelled /\ e.kind = "tool" /\ e.id[1] = q

LEMMA RunningNext ==
  ASSUME TypeOK, ToolsOK, NewRuns, RunningIsRunning, [Next]_vars
  PROVE  RunningIsRunning'
<1>1. \A e \in screen.entries : e.mark = "running" =>
        \E q \in Requests : Accounted(e, run, q)
  BY DEF RunningIsRunning, Accounted
<1>2. SUFFICES \A e \in screen'.entries : e.mark = "running" =>
                 \E q \in Requests : Accounted(e, run', q)
  BY DEF RunningIsRunning, Accounted
<1>s. screen \in Screens /\ Still(screen) \in Screens /\ Thinking(screen) \in Screens
  BY Handlers DEF TypeOK
<1>3. ASSUME \A q \in Requests : run'[q].doing = run[q].doing
                                 /\ (run[q].cancelled => run'[q].cancelled),
             \A e \in screen'.entries : e.mark = "running" => e \in screen.entries
      PROVE  \A e \in screen'.entries : e.mark = "running" =>
               \E q \in Requests : Accounted(e, run', q)
  <2>1. \A e, q : q \in Requests /\ Accounted(e, run, q) => Accounted(e, run', q)
    BY <1>3 DEF Accounted
  <2> QED
    BY <1>1, <1>3, <2>1
<1>4. CASE UNCHANGED vars
  BY <1>3, <1>4 DEF vars
<1>5. CASE TypeExit \/ TypeClear \/ InkExits \/ InterruptIdle \/ Exit
  <2>1. run' = run
    BY <1>5 DEF TypeExit, TypeClear, InkExits, InterruptIdle, Exit, runtimeVars
  <2>2. \/ \E u \in {"exiting", "gone"} : screen' = [screen EXCEPT !.ui = u]
        \/ screen' = [screen EXCEPT !.entries = {}]
    BY <1>5 DEF TypeExit, TypeClear, InkExits, InterruptIdle, Exit
  <2>3. screen'.entries \subseteq screen.entries
    BY <1>s, <2>2 DEF Screens
  <2> QED
    BY <1>3, <2>1, <2>3
<1>6. CASE Interrupt
  <2>1. screen' = [Still(screen) EXCEPT !.ui = "input"]
    BY <1>6 DEF Interrupt, Runtime!Cancel
  <2>2. screen'.entries = screen.entries
    BY <1>s, <2>1 DEF Still, Screens
  <2>3. \A q \in Requests : run'[q].doing = run[q].doing
                            /\ (run[q].cancelled => run'[q].cancelled)
    BY <1>6 DEF Interrupt, TypeOK, Runs, Runtime!Cancel
  <2> QED
    BY <1>3, <2>2, <2>3
<1>7. ASSUME NEW q \in Requests, SubmitToRuntime(q) \/ SubmitToManager(q)
      PROVE  \A e \in screen'.entries : e.mark = "running" =>
               \E p \in Requests : Accounted(e, run', p)
  <2>1. screen' = Processing(screen)
    BY <1>7 DEF SubmitToRuntime, SubmitToManager, Runtime!Submit
  <2>2. screen'.entries = screen.entries
    BY <1>s, <2>1, Handlers
  <2>3. \A p \in Requests : run'[p].doing = run[p].doing
                            /\ (run[p].cancelled => run'[p].cancelled)
    <3>1. CASE SubmitToRuntime(q)
      <4>1. run' = [run EXCEPT ![q] = Row("open", FALSE, Idle)] /\ run[q].pc = "new"
        BY <3>1 DEF SubmitToRuntime, Runtime!Submit, Runtime!Becomes, Row, Idle
      <4>2. run[q].doing = Idle /\ ~run[q].cancelled
        BY <4>1 DEF NewRuns
      <4> QED
        BY <4>1, <4>2 DEF TypeOK, Runs, Row
    <3>2. CASE SubmitToManager(q)
      BY <3>2 DEF SubmitToManager, runtimeVars
    <3> QED
      BY <1>7, <3>1, <3>2
  <2> QED
    BY <1>3, <2>2, <2>3
<1>8. ASSUME NEW q \in Requests, RunStep(q)
      PROVE  \A e \in screen'.entries : e.mark = "running" =>
               \E p \in Requests : Accounted(e, run', p)
  <2>1. CASE Works(q) \/ Text(q) \/ Output(q)
    <3>1. run' = run /\ screen' \in {Thinking(screen), Texted(screen, q),
                                     Answered(screen, q), Still(screen)}
      BY <2>1 DEF Works, Text, Output, runtimeVars
    <3>2. \A e \in screen'.entries : e.mark = "running" => e \in screen.entries
      BY <1>s, <3>1, Handlers, Texting
    <3> QED
      BY <1>3, <3>1, <3>2
  <2>2. ASSUME run[q].doing = Idle, NEW d, NEW e \in Entries,
               \A p \in Requests : p # q => run'[p] = run[p],
               run'[q].doing = d, run'[q].cancelled = run[q].cancelled,
               d # Idle, e.kind = d[1], e.id = IdOf(e.kind, q, d[2]),
               screen'.entries = screen.entries \cup {e}
        PROVE  \A f \in screen'.entries : f.mark = "running" =>
                 \E p \in Requests : Accounted(f, run', p)
    <3>1. Accounted(e, run', q)
      BY <2>2 DEF Accounted
    <3>2. \A f, p : p \in Requests /\ Accounted(f, run, p) => Accounted(f, run', p)
      BY <2>2 DEF Accounted
    <3> QED
      BY <1>1, <2>2, <3>1, <3>2
  <2>3. CASE StartTool(q)
    <3> DEFINE n == tools[q] + 1
               d == <<"tool", n>>
               e == Entry("tool", <<q, n>>, "running")
    <3>1. /\ run[q].doing = Idle
          /\ run' = [run EXCEPT ![q] = Row("open", FALSE, d)] /\ ~run[q].cancelled
          /\ screen' = Add(Still(screen), e)
      BY <2>3 DEF StartTool, Runtime!Goes, Runtime!StartTool, Runtime!Becomes, Row, Idle
    <3>2. n \in Nat /\ e \in Entries
      BY Running DEF ToolsOK
    <3>3. screen'.entries = screen.entries \cup {e}
      BY <1>s, <3>1, <3>2, Adding, Handlers
    <3>4. /\ run'[q].doing = d /\ run'[q].cancelled = run[q].cancelled
          /\ \A p \in Requests : p # q => run'[p] = run[p]
      BY <3>1 DEF TypeOK, Runs, Row
    <3>5. d # Idle /\ e.kind = d[1] /\ e.id = IdOf(e.kind, q, d[2])
      BY DEF Idle, Entry, IdOf, Runtime!Idle
    <3> HIDE DEF n, d, e
    <3> QED
      BY <2>2, <3>1, <3>2, <3>3, <3>4, <3>5
  <2>4. CASE StartCheck(q)
    <3>1. PICK c \in Checks :
               /\ run' = [run EXCEPT ![q] = Row("open", FALSE, <<"check", c>>)]
               /\ screen' = Add(Thinking(screen), Entry("check", c, "running"))
      BY <2>4 DEF StartCheck, Runtime!StartCheck, Runtime!Becomes, Row
    <3> DEFINE d == <<"check", c>>
               e == Entry("check", c, "running")
    <3>2. run[q].doing = Idle /\ ~run[q].cancelled
      BY <2>4 DEF StartCheck, Runtime!Goes, Runtime!StartCheck, Idle
    <3>3. e \in Entries
      BY DEF Entry, Entries
    <3>4. screen'.entries = screen.entries \cup {e}
      BY <1>s, <3>1, <3>3, Adding, Handlers
    <3>5. /\ run'[q].doing = d /\ run'[q].cancelled = run[q].cancelled
          /\ \A p \in Requests : p # q => run'[p] = run[p]
      BY <3>1, <3>2 DEF TypeOK, Runs, Row
    <3>6. d # Idle /\ e.kind = d[1] /\ e.id = IdOf(e.kind, q, d[2])
      BY DEF Idle, Entry, IdOf, Runtime!Idle
    <3> HIDE DEF d, e
    <3> QED
      BY <2>2, <3>2, <3>3, <3>4, <3>5, <3>6
  <2>5. CASE EndItem(q)
    <3> DEFINE kind == run[q].doing[1]
               id == IdOf(kind, q, run[q].doing[2])
               m == Marked(screen, kind, id, "ended")
    <3>1. /\ run' = [run EXCEPT ![q] = Row("open", run[q].cancelled, Idle)]
          /\ screen' = Thinking(m)
      BY <2>5 DEF EndItem, Runtime!EndItem, Runtime!Becomes, Row, Idle
    <3>2. /\ m \in Screens
          /\ \A e \in m.entries : e.mark = "running" =>
               e \in screen.entries /\ ~(e.kind = kind /\ e.id = id)
      BY <1>s, Marking
    <3>3. screen'.entries = m.entries
      <4> HIDE DEF m
      <4> QED
        BY <3>1, <3>2, Handlers
    <3>4. /\ run'[q].cancelled = run[q].cancelled
          /\ \A p \in Requests : p # q => run'[p] = run[p]
      BY <3>1 DEF TypeOK, Runs, Row
    <3>5. \A e, p : p \in Requests /\ Accounted(e, run, p) /\ ~(e.kind = kind /\ e.id = id)
                    => Accounted(e, run', p)
      BY <3>4 DEF Accounted
    <3> HIDE DEF m, kind, id
    <3> QED
      BY <1>1, <3>2, <3>3, <3>5
  <2>6. CASE EndRun(q)
    <3>1. /\ run' = [run EXCEPT ![q] = Row("done", run[q].cancelled, Idle)]
          /\ screen' = Ended(screen)
          /\ run[q].doing = Idle \/ (run[q].cancelled /\ run[q].doing[1] = "tool")
      BY <2>6 DEF EndRun, Runtime!End, Runtime!Becomes, Runtime!Free, Runtime!MayEnd, Row, Idle
    <3>2. screen'.entries = screen.entries
      BY <1>s, <3>1, Handlers
    <3>3. /\ run'[q].cancelled = run[q].cancelled
          /\ \A p \in Requests : p # q => run'[p] = run[p]
      BY <3>1 DEF TypeOK, Runs, Row
    <3>4. \A e : Accounted(e, run, q) => Accounted(e, run', q)
      BY <3>1, <3>3 DEF Accounted, IdOf
    <3>5. \A e, p : p \in Requests /\ Accounted(e, run, p) => Accounted(e, run', p)
      BY <3>3, <3>4 DEF Accounted
    <3> QED
      BY <1>1, <3>2, <3>5
  <2> QED
    BY <1>8, <2>1, <2>3, <2>4, <2>5, <2>6 DEF RunStep
<1>9. ASSUME NEW q \in Requests, SendStep(q)
      PROVE  \A e \in screen'.entries : e.mark = "running" =>
               \E p \in Requests : Accounted(e, run', p)
  <2>1. run' = run
    BY <1>9 DEF SendStep, SendOpens, SendTexts, SendCompletes, SendFails, SendAnswers,
                SendEnds, runtimeVars
  <2>2. \/ screen' \in {Thinking(screen), Texted(screen, q), screen, Still(screen),
                        Ended(screen)}
        \/ screen' = [Still(screen) EXCEPT !.entries = @ \ Shown(screen, "assistant", q)]
    BY <1>9 DEF SendStep, SendOpens, SendTexts, SendCompletes, SendFails, SendAnswers, SendEnds
  <2>3. \A e \in screen'.entries : e.mark = "running" => e \in screen.entries
    <3>1. CASE screen' \in {Thinking(screen), Texted(screen, q), screen, Still(screen),
                            Ended(screen)}
      BY <1>s, <3>1, Handlers, Texting
    <3>2. CASE screen' = [Still(screen) EXCEPT !.entries = @ \ Shown(screen, "assistant", q)]
      <4>1. Still(screen).entries = screen.entries
        BY <1>s, Handlers
      <4> QED
        BY <1>s, <3>2, <4>1 DEF Screens
    <3> QED
      BY <2>2, <3>1, <3>2
  <2> QED
    BY <1>3, <2>1, <2>3
<1> QED
  BY <1>4, <1>5, <1>6, <1>7, <1>8, <1>9 DEF Next, User

----------------------------------------------------------------------------
(* The conversation without a runtime *)

\* A new message is refused while a send is under way, so it finds none.
LEMMA SendAlone ==
  ASSUME TypeOK, OneSend, ~disturbed, Quiet, status # "generating", NEW q \in Requests
  PROVE  ~Active(q)
<1>1. send[q] \in Sends
  BY DEF TypeOK
<1>2. Active(q) => q \in Generating
  BY <1>1 DEF Active, Generating, Quiet, Sends
<1> QED
  BY <1>2 DEF OneSend

LEMMA SendNext ==
  ASSUME TypeOK, OneSend, [Next]_vars
  PROVE  OneSend'
<1>t. messages \in Seq(Talk) /\ Len(messages) \in Nat /\ send \in [Requests -> Sends]
  BY DEF TypeOK
<1>1. CASE UNCHANGED convVars
  BY <1>1 DEF convVars, OneSend, Active, Generating
<1>2. CASE TypeClear
  <2>1. /\ messages' = <<>> /\ send' = send
        /\ disturbed' = (disturbed \/ \E q \in Requests : Active(q))
    BY <1>2 DEF TypeClear, Clear
  <2>2. ASSUME ~disturbed' PROVE \A q \in Requests : ~Active(q)'
    BY <2>1, <2>2 DEF Active
  <2>3. Len(messages') = 0
    BY <2>1
  <2> QED
    BY <2>2, <2>3 DEF OneSend, Active, Generating
<1>3. ASSUME NEW q \in Requests, SubmitToManager(q) PROVE OneSend'
  <2>1. SUFFICES ASSUME ~disturbed' PROVE OneSend'
    BY DEF OneSend
  <2> DEFINE m == [role |-> "user", of |-> q]
  <2>2. /\ Quiet /\ status # "generating" /\ status' = "generating"
        /\ messages' = Append(messages, m) /\ disturbed' = disturbed
        /\ send' = [send EXCEPT ![q] = [@ EXCEPT !.pc = "opened"]]
    BY <1>3 DEF SubmitToManager, MayType, Send, AddMessage, Move
  <2>3. \A p \in Requests : ~Active(p)
    BY <2>1, <2>2, SendAlone
  <2>4. /\ send'[q].pc = "opened"
        /\ \A p \in Requests : p # q => send'[p] = send[p]
    BY <1>t, <2>2 DEF Sends
  <2>5. \A p \in Requests : Active(p)' => p = q
    BY <2>3, <2>4 DEF Active
  <2>6. Len(messages') = Len(messages) + 1 /\ messages'[Len(messages')] = m
    BY <1>t, <2>2
  <2>7. ASSUME NEW i \in 1 .. Len(messages'), messages'[i].role = "assistant"
        PROVE  i > 1 /\ messages'[i - 1] = [role |-> "user", of |-> messages'[i].of]
    <3>1. i \in 1 .. Len(messages) /\ messages'[i] = messages[i]
      BY <1>t, <2>2, <2>6, <2>7
    <3>2. i > 1 /\ messages[i - 1] = [role |-> "user", of |-> messages[i].of]
      BY <2>1, <2>2, <2>7, <3>1 DEF OneSend
    <3>3. messages'[i - 1] = messages[i - 1]
      BY <1>t, <2>2, <3>1, <3>2
    <3> QED
      BY <3>1, <3>2, <3>3
  <2>8. \A p \in Generating' : p = q
    BY <2>5 DEF Generating, Active
  <2>9. Len(messages') > 0
    BY <1>t, <2>6
  <2> QED
    BY <2>2, <2>5, <2>6, <2>7, <2>8, <2>9 DEF OneSend
<1>4. ASSUME NEW q \in Requests, SendStep(q) PROVE OneSend'
  <2>1. SUFFICES ASSUME ~disturbed' PROVE OneSend'
    BY DEF OneSend
  <2>2. Active(q) /\ disturbed' = disturbed
    BY <1>4 DEF SendStep, SendOpens, SendTexts, SendCompletes, SendFails, SendAnswers,
                SendEnds, OpenStream, TextDelta, StreamCompleted, StreamFails, StreamEnds,
                Finish, Active
  <2>3. /\ \A p \in Requests : Active(p) => p = q
        /\ q \in Generating => /\ status = "generating" /\ Len(messages) > 0
                               /\ messages[Len(messages)] = [role |-> "user", of |-> q]
        /\ \A i \in 1 .. Len(messages) : messages[i].role = "assistant" =>
             i > 1 /\ messages[i - 1] = [role |-> "user", of |-> messages[i].of]
    BY <2>1, <2>2 DEF OneSend
  <2>4. \A p \in Requests : p # q => send'[p] = send[p]
    BY <1>t, <1>4 DEF SendStep, SendOpens, SendTexts, SendCompletes, SendFails, SendAnswers,
                SendEnds, OpenStream, TextDelta, StreamCompleted, StreamFails, StreamEnds,
                Finish, Move
  <2>5. \A p \in Requests : Active(p)' => p = q
    BY <2>3, <2>4 DEF Active
  <2>6. CASE SendAnswers(q)
    <3> DEFINE m == [role |-> "assistant", of |-> q]
    <3>1. /\ send[q].pc = "streaming"
          /\ send' = [send EXCEPT ![q] = [@ EXCEPT !.pc = "answered"]]
          /\ messages' = messages \/ messages' = Append(messages, m)
      BY <2>6 DEF SendAnswers, StreamEnds, Move, AddMessage
    <3>2. q \in Generating
      BY <3>1 DEF Generating
    <3>3. send'[q].pc = "answered"
      BY <1>t, <3>1 DEF Sends
    <3>4. Generating' = {}
      BY <2>5, <3>3 DEF Generating, Active
    <3>5. ASSUME NEW i \in 1 .. Len(messages'), messages'[i].role = "assistant"
          PROVE  i > 1 /\ messages'[i - 1] = [role |-> "user", of |-> messages'[i].of]
      <4>1. CASE messages' = messages
        BY <2>3, <3>5, <4>1
      <4>2. CASE messages' = Append(messages, m)
        <5>1. CASE i \in 1 .. Len(messages)
          <6>1. messages'[i] = messages[i]
            BY <1>t, <4>2, <5>1
          <6>2. i > 1 /\ messages[i - 1] = [role |-> "user", of |-> messages[i].of]
            BY <2>3, <3>5, <5>1, <6>1
          <6>3. messages'[i - 1] = messages[i - 1]
            BY <1>t, <4>2, <5>1, <6>2
          <6> QED
            BY <6>1, <6>2, <6>3
        <5>2. CASE i = Len(messages) + 1
          <6>1. messages'[i] = m /\ messages'[i - 1] = messages[Len(messages)] /\ i > 1
            BY <1>t, <2>3, <3>2, <4>2, <5>2
          <6> QED
            BY <2>3, <3>2, <6>1
        <5> QED
          BY <1>t, <3>5, <4>2, <5>1, <5>2
      <4> QED
        BY <3>1, <4>1, <4>2
    <3> QED
      BY <2>5, <3>4, <3>5 DEF OneSend
  <2>7. CASE SendFails(q) \/ SendEnds(q)
    <3>1. /\ messages' = messages
          /\ \E pc \in {"failing", "done"} : send' = [send EXCEPT ![q] = [@ EXCEPT !.pc = pc]]
      BY <2>7 DEF SendFails, SendEnds, StreamFails, Finish, Move
    <3>2. send'[q].pc \in {"failing", "done"}
      BY <1>t, <3>1 DEF Sends
    <3>3. Generating' = {}
      BY <2>5, <3>2 DEF Generating, Active
    <3> QED
      BY <2>3, <2>5, <3>1, <3>3 DEF OneSend
  <2>8. CASE SendOpens(q) \/ SendTexts(q) \/ SendCompletes(q)
    <3>1. /\ messages' = messages /\ status' = status
          /\ send[q].pc \in {"opened", "streaming"}
      BY <2>8 DEF SendOpens, SendTexts, SendCompletes, OpenStream, TextDelta, StreamCompleted
    <3>2. q \in Generating
      BY <3>1 DEF Generating
    <3>3. \A p \in Generating' : p = q
      BY <2>5 DEF Generating, Active
    <3> QED
      BY <2>3, <2>5, <3>1, <3>2, <3>3 DEF OneSend
  <2> QED
    BY <1>4, <2>6, <2>7, <2>8 DEF SendStep
<1>5. CASE TypeExit \/ InkExits \/ Interrupt \/ InterruptIdle \/ Exit
  BY <1>1, <1>5 DEF TypeExit, InkExits, Interrupt, InterruptIdle, Exit, Runtime!Cancel
<1>6. ASSUME NEW q \in Requests, SubmitToRuntime(q) \/ RunStep(q) PROVE OneSend'
  BY <1>1, <1>6 DEF SubmitToRuntime, RunStep, Works, Text, Output, StartTool, StartCheck,
                    EndItem, EndRun, Runtime!Submit, Runtime!StartTool, Runtime!StartCheck,
                    Runtime!EndItem, Runtime!End, Runtime!Free, Runtime!MayEnd
<1>7. CASE UNCHANGED vars
  BY <1>1, <1>7 DEF vars
<1> QED
  BY <1>2, <1>3, <1>4, <1>5, <1>6, <1>7 DEF Next, User

LEMMA PromptNext ==
  ASSUME TypeOK, OneSource, OneSend, PromptHeld, [Next]_vars
  PROVE  PromptHeld'
<1>s. screen \in Screens /\ send \in [Requests -> Sends]
  BY DEF TypeOK
<1>m. mode' = mode
  BY DEF Next, vars, User, TypeExit, TypeClear, InkExits, Interrupt, InterruptIdle,
         SubmitToRuntime, SubmitToManager, Exit, RunStep, Works, Text, Output, StartTool,
         StartCheck, EndItem, EndRun, SendStep, SendOpens, SendTexts, SendCompletes,
         SendFails, SendAnswers, SendEnds, Runtime!Cancel, Runtime!Submit, Runtime!StartTool,
         Runtime!StartCheck, Runtime!EndItem, Runtime!End, Runtime!Free, Runtime!MayEnd
<1>1. SUFFICES ASSUME mode.raw, ~mode.hasRuntime
               PROVE  /\ ~disturbed'
                      /\ screen'.ui = "input" => \A q \in Requests : ~Active(q)'
  BY <1>m DEF PromptHeld
<1>2. ~disturbed /\ (screen.ui = "input" => \A q \in Requests : ~Active(q))
  BY <1>1 DEF PromptHeld
<1>3. CASE UNCHANGED vars
  BY <1>2, <1>3 DEF vars, convVars, Active
<1>4. CASE TypeExit \/ InkExits \/ InterruptIdle \/ Exit
  <2>1. \E u \in {"exiting", "gone"} : screen' = [screen EXCEPT !.ui = u]
    BY <1>4 DEF TypeExit, InkExits, InterruptIdle, Exit
  <2>2. screen'.ui # "input"
    BY <1>s, <2>1 DEF Screens
  <2> QED
    BY <1>2, <1>4, <2>2 DEF TypeExit, InkExits, InterruptIdle, Exit, convVars
<1>5. CASE TypeClear
  <2>1. /\ screen.ui = "input" /\ send' = send
        /\ disturbed' = (disturbed \/ \E q \in Requests : Active(q))
    BY <1>1, <1>5 DEF TypeClear, MayType, Clear
  <2> QED
    BY <1>2, <2>1 DEF Active
<1>6. ASSUME NEW q \in Requests, SubmitToManager(q)
      PROVE  ~disturbed' /\ screen'.ui # "input"
  <2>1. screen' = Processing(screen) /\ disturbed' = disturbed
    BY <1>6 DEF SubmitToManager, Send
  <2> QED
    BY <1>2, <1>s, <2>1 DEF Processing, Thinking, Screens
<1>7. CASE Interrupt \/ \E q \in Requests : SubmitToRuntime(q) \/ RunStep(q)
  BY <1>1, <1>7 DEF OneSource, SubmitToRuntime, Interrupt, RunStep, Works, Text, Output,
                    StartTool, StartCheck, EndItem, EndRun, Runtime!Goes, Runtime!Cancel,
                    Runtime!Submit, Runtime!StartTool, Runtime!StartCheck, Runtime!EndItem,
                    Runtime!End, Runtime!Free, Runtime!MayEnd
<1>8. ASSUME NEW q \in Requests, SendStep(q)
      PROVE  /\ ~disturbed'
             /\ screen'.ui = "input" => \A p \in Requests : ~Active(p)'
  <2>1. Active(q) /\ disturbed' = disturbed
    BY <1>8 DEF SendStep, SendOpens, SendTexts, SendCompletes, SendFails, SendAnswers,
                SendEnds, OpenStream, TextDelta, StreamCompleted, StreamFails, StreamEnds,
                Finish, Active
  <2>2. screen.ui # "input"
    BY <1>2, <2>1
  <2>3. CASE SendEnds(q)
    <3>1. send' = [send EXCEPT ![q] = [@ EXCEPT !.pc = "done"]]
      BY <2>3 DEF SendEnds, Finish, Move
    <3>2. send'[q].pc = "done" /\ \A p \in Requests : p # q => send'[p] = send[p]
      BY <1>s, <3>1 DEF Sends
    <3>3. \A p \in Requests : ~Active(p)'
      BY <1>2, <2>1, <3>2 DEF OneSend, Active
    <3> QED
      BY <1>2, <2>1, <3>3
  <2>4. CASE ~SendEnds(q)
    <3>1. \/ screen' \in {Thinking(screen), Texted(screen, q), screen, Still(screen)}
          \/ screen' = [Still(screen) EXCEPT !.entries = @ \ Shown(screen, "assistant", q)]
      BY <1>8, <2>4 DEF SendStep, SendOpens, SendTexts, SendCompletes, SendFails, SendAnswers
    <3>2. Still(screen) \in Screens /\ Still(screen).ui = screen.ui
      BY <1>s, Handlers
    <3>3. screen'.ui = screen.ui
      <4>1. CASE screen' \in {Thinking(screen), Texted(screen, q), screen, Still(screen)}
        BY <1>s, <4>1, Handlers, Texting
      <4>2. CASE screen' = [Still(screen) EXCEPT !.entries = @ \ Shown(screen, "assistant", q)]
        BY <3>2, <4>2 DEF Screens
      <4> QED
        BY <3>1, <4>1, <4>2
    <3> QED
      BY <1>2, <2>1, <2>2, <3>3
  <2> QED
    BY <2>3, <2>4
<1> QED
  BY <1>3, <1>4, <1>5, <1>6, <1>7, <1>8 DEF Next, User

----------------------------------------------------------------------------
(* The invariants of every session *)

LEMMA SInvInit == Init => SInv
<1> SUFFICES ASSUME Init PROVE SInv
  OBVIOUS
<1>1. \A q \in Requests : send[q].pc = "unsent" /\ run[q].pc = "new"
  BY DEF Init, ConvInit, Unsent, Runtime!Init
<1>2. OneSource
  BY <1>1 DEF OneSource
<1>3. \A q \in Requests : ~Active(q)
  BY <1>1 DEF Active
<1>4. messages = <<>> /\ Len(messages) = 0 /\ ~disturbed
  BY DEF Init, ConvInit, Runtime!Init
<1>5. OneSend
  BY <1>3, <1>4 DEF OneSend, Generating, Active
<1>6. PromptHeld
  BY <1>3, <1>4 DEF PromptHeld
<1>7. ScreenFollowsStreams /\ RunningIsRunning
  BY DEF Init, ScreenFollowsStreams, RunningIsRunning, Runtime!Init
<1>8. ToolsOK
  BY DEF Init, ToolsOK
<1>9. NewRuns
  BY SessionAssumption DEF Init, NewRuns, Idle, Runtime!Init
<1> QED
  BY <1>2, <1>5, <1>6, <1>7, <1>8, <1>9, TypeInit DEF SInv

LEMMA SInvNext == SInv /\ [Next]_vars => SInv'
BY TypeNext, ToolsNext, SourceNext, NewNext, ScreenNext, RunningNext, SendNext, PromptNext
   DEF SInv

\* However streams, keys and timers interleave, a screen is processing only
\* while a stream is open that will hand the prompt back, and it stops thinking
\* and streaming with the last of them (InteractiveScreen, handleSubmit's finally).
THEOREM ScreenCorrect == Spec => []ScreenFollowsStreams
<1>1. SInv => ScreenFollowsStreams
  BY DEF SInv
<1> QED
  BY <1>1, SInvInit, SInvNext, PTL DEF Spec

\* What the screen shows as running is running, or was left by a cancelled run,
\* also when runs overlap after a Ctrl+C and share the ids of their checks.
THEOREM RunningCorrect == Spec => []RunningIsRunning
<1>1. SInv => RunningIsRunning
  BY DEF SInv
<1> QED
  BY <1>1, SInvInit, SInvNext, PTL DEF Spec

\* Without a runtime a terminal's user cannot clear the conversation under a
\* send, and until someone does every answer directly follows its question.
THEOREM ConversationCorrect == Spec => []ConversationIntact
<1>1. SInv => ConversationIntact
  <2> SUFFICES ASSUME SInv, ~mode.hasRuntime PROVE ConversationIntact
    BY DEF ConversationIntact
  <2>1. mode.raw => ~disturbed
    BY DEF SInv, PromptHeld
  <2>2. ASSUME ~disturbed PROVE Cardinality(Generating) <= 1
    <3>1. CASE Generating = {}
      BY <3>1, FS_EmptySet
    <3>2. CASE Generating # {}
      <4>1. PICK q \in Generating : TRUE
        BY <3>2
      <4>2. Generating = {q}
        BY <2>2, <4>1 DEF SInv, OneSend, Generating, Active
      <4> QED
        BY <4>2, FS_Singleton
    <3> QED
      BY <3>1, <3>2
  <2>3. ASSUME ~disturbed
        PROVE  \A i \in DOMAIN messages : messages[i].role = "assistant" =>
                 i > 1 /\ messages[i - 1] = [role |-> "user", of |-> messages[i].of]
    <3>1. DOMAIN messages = 1 .. Len(messages)
      BY DEF SInv, TypeOK
    <3> QED
      BY <2>3, <3>1 DEF SInv, OneSend
  <2> QED
    BY <2>1, <2>2, <2>3 DEF ConversationIntact
<1> QED
  BY <1>1, SInvInit, SInvNext, PTL DEF Spec
=============================================================================
