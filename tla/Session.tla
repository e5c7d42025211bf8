------------------------------- MODULE Session -------------------------------
(***************************************************************************)
(* InteractiveScreen with InputPrompt: what the user types and presses,    *)
(* the event streams that handleSubmit consumes, and the screen's state.   *)
(* The streams come from AgentRuntime.runStream, of which RuntimeContract  *)
(* has the lock, cancel() and the order of the events, or without a        *)
(* runtime from ConversationManager.send.                                  *)
(*                                                                         *)
(* A generator and the loop that consumes it run in one go from one await  *)
(* of the provider, a tool or a check to the next; keys, lines and timers  *)
(* come between.  Of the transcript only the entries are kept that are     *)
(* changed after they were added, assistant texts, tools and checks, and   *)
(* not their order or how often one is there: a change is to all of them.  *)
(***************************************************************************)
EXTENDS ConversationManager, FiniteSets

CONSTANTS
  None,       \* no request
  Checks,     \* ids of verification checks, the same in every run
  MaxTools    \* bound: tool calls of one run

ASSUME SessionAssumption == None \notin Requests /\ MaxTools \in Nat

VARIABLES
  mode,     \* hasRuntime: the screen was given a runtime; raw: its stdin is a
            \* terminal; inkExits: Ink handles Ctrl+C itself, its default
  busy, active, run,    \* the runtime, see RuntimeContract
  tools,    \* number of tool calls of each run
  screen,   \* uiState, isThinking, activeStreamingId and the messages shown
  created   \* createdAssistantMessage of each handleSubmit call

vars == <<convVars, mode, busy, active, run, tools, screen, created>>
runtimeVars == <<busy, active, run, tools>>

\* A tool call is named by its number in its run, a check by its id.
Runtime == INSTANCE RuntimeContract WITH
  Runs  <- Requests,
  NoRun <- None,
  Names <- Nat \cup Checks

Idle == Runtime!Idle

\* id of a tool call: its run and number; of a check: the check; of a text:
\* its request.  A check of one run has the id of the same check of another
Entry(kind, id, mark) == [kind |-> kind, id |-> id, mark |-> mark]

Modes == {m \in [hasRuntime : BOOLEAN, raw : BOOLEAN, inkExits : BOOLEAN] : m.inkExits => m.raw}

Init ==
  /\ ConvInit
  /\ mode \in Modes
  /\ Runtime!Init
  /\ tools = [q \in Requests |-> 0]
  /\ screen = [ui |-> "input", thinking |-> FALSE, streaming |-> None, entries |-> {}]
  /\ created = [q \in Requests |-> FALSE]

Open(q) == IF mode.hasRuntime THEN run[q].pc = "open" ELSE Active(q)

\* no event is on its way to a consumer
Quiet == \A q \in Requests : send[q].pc \notin {"opened", "answered", "failing"}

-----------------------------------------------------------------------------
(* The handlers, as functions of the screen. *)

Add(scr, entry) == [scr EXCEPT !.entries = @ \cup {entry}]
Still(scr) == [scr EXCEPT !.thinking = FALSE, !.streaming = None]
Thinking(scr) == [scr EXCEPT !.thinking = TRUE]

\* a screen that is unmounted stays so
ToInput(scr) == [scr EXCEPT !.ui = IF @ = "gone" THEN @ ELSE "input"]

\* Mutation: only a stream that ends well gives the prompt back.
MutEnded(scr) == Still(scr)

\* the finally block of handleSubmit
Ended(scr) == ToInput(Still(scr))

IdOf(kind, q, n) == IF kind = "tool" THEN <<q, n>> ELSE n

Shown(scr, kind, id) == {e \in scr.entries : e.kind = kind /\ e.id = id}

\* a status is set on every entry that has the id
Marked(scr, kind, id, mark) ==
  [scr EXCEPT !.entries =
     (@ \ Shown(scr, kind, id)) \cup {[e EXCEPT !.mark = mark] : e \in Shown(scr, kind, id)}]

\* the first text makes an entry of the request's id, later text is appended
\* to every entry that has it
Texted(scr, q) ==
  IF created[q] THEN scr
  ELSE Add([scr EXCEPT !.thinking = FALSE, !.streaming = q], Entry("assistant", q, "plain"))

\* the output replaces the text of the entries of the request's id
Answered(scr, q) ==
  IF Shown(scr, "assistant", q) # {} THEN Still(scr)
  ELSE Add(Still(scr), Entry("assistant", q, "plain"))

-----------------------------------------------------------------------------
(* What the user does.  The other commands, a warning that a request is    *)
(* already in progress and the echo of a screen that was given nothing     *)
(* append entries of their own and return.                                 *)

\* Mutation: the prompt does not look whether it is disabled.
MutMayType == Quiet /\ screen.ui # "gone"

\* a terminal's prompt takes input only in the state input; lines of a pipe
\* are handled whatever the screen shows
MayType ==
  /\ Quiet
  /\ screen.ui # "gone"
  /\ mode.raw => screen.ui = "input"

\* exit and quit, with or without a slash
TypeExit ==
  /\ MayType
  /\ screen' = [screen EXCEPT !.ui = "exiting"]
  /\ UNCHANGED <<convVars, mode, runtimeVars, created>>

\* /clear and /new empty the conversation and the transcript, and nothing else
TypeClear ==
  /\ MayType
  /\ Clear
  /\ screen' = [screen EXCEPT !.entries = {}]
  /\ UNCHANGED <<mode, runtimeVars, created>>

IsBusy == IF mode.hasRuntime THEN busy ELSE status = "generating"

Processing(scr) == Thinking([scr EXCEPT !.ui = IF @ = "gone" THEN @ ELSE "processing"])

\* handleSubmit and runStream up to the first await
SubmitToRuntime(q) ==
  /\ MayType
  /\ mode.hasRuntime /\ ~IsBusy
  /\ Runtime!Submit(q, FALSE)
  /\ screen' = Processing(screen)
  /\ UNCHANGED <<convVars, mode, tools, created>>

SubmitToManager(q) ==
  /\ MayType
  /\ ~mode.hasRuntime /\ ~IsBusy
  /\ Send(q)
  /\ screen' = Processing(screen)
  /\ UNCHANGED <<mode, runtimeVars, created>>

\* Ctrl+C that Ink handles: the screen is unmounted, whatever runs
InkExits ==
  /\ mode.raw /\ mode.inkExits
  /\ Quiet
  /\ screen.ui # "gone"
  /\ screen' = [screen EXCEPT !.ui = "gone"]
  /\ UNCHANGED <<convVars, mode, runtimeVars, created>>

\* Ctrl+C that reaches the screen while its runtime is busy; cancel() does
\* nothing to a run whose controller an older run has cleared
Interrupt ==
  /\ mode.raw /\ ~mode.inkExits
  /\ Quiet
  /\ screen.ui # "gone"
  /\ mode.hasRuntime /\ busy
  /\ screen' = [Still(screen) EXCEPT !.ui = "input"]
  /\ Runtime!Cancel
  /\ UNCHANGED <<convVars, mode, tools, created>>

\* Ctrl+C that finds nothing to cancel
InterruptIdle ==
  /\ mode.raw /\ ~mode.inkExits
  /\ Quiet
  /\ screen.ui # "gone"
  /\ ~(mode.hasRuntime /\ busy)
  /\ screen' = [screen EXCEPT !.ui = "exiting"]
  /\ UNCHANGED <<convVars, mode, runtimeVars, created>>

\* Mutation: the effect is only there when the prompt takes keys.
MutExit ==
  /\ screen.ui = "exiting" /\ mode.raw
  /\ Quiet
  /\ screen' = [screen EXCEPT !.ui = "gone"]
  /\ UNCHANGED <<convVars, mode, runtimeVars, created>>

\* the timer of the effect on uiState, cleared when uiState changes
Exit ==
  /\ screen.ui = "exiting"
  /\ Quiet
  /\ screen' = [screen EXCEPT !.ui = "gone"]
  /\ UNCHANGED <<convVars, mode, runtimeVars, created>>

-----------------------------------------------------------------------------
(* The events of a run of the runtime, and what the screen makes of them.  *)
(* The screen passes no signal, leaves no stream, and does not suspend     *)
(* between a run's last event and its end.                                 *)

\* iteration_started, llm_started and recovery_started
Works(q) ==
  /\ Runtime!Goes(q)
  /\ screen' = Thinking(screen)
  /\ UNCHANGED <<convVars, mode, runtimeVars, created>>

Text(q) ==
  /\ Runtime!Goes(q)
  /\ screen' = Texted(screen, q)
  /\ created' = [created EXCEPT ![q] = TRUE]
  /\ UNCHANGED <<convVars, mode, runtimeVars>>

\* agent_completed, at the end of a step or a correction, with or without text
Output(q) ==
  /\ Runtime!Goes(q)
  /\ screen' \in {Answered(screen, q), Still(screen)}
  /\ UNCHANGED <<convVars, mode, runtimeVars, created>>

StartTool(q) ==
  /\ tools[q] < MaxTools
  /\ LET n == tools[q] + 1
     IN /\ Runtime!StartTool(q, n)
        /\ tools' = [tools EXCEPT ![q] = n]
        /\ screen' = Add(Still(screen), Entry("tool", <<q, n>>, "running"))
  /\ created' = [created EXCEPT ![q] = FALSE]
  /\ UNCHANGED <<convVars, mode>>

StartCheck(q) ==
  /\ \E c \in Checks :
       /\ Runtime!StartCheck(q, c)
       /\ screen' = Add(Thinking(screen), Entry("check", c, "running"))
  /\ UNCHANGED <<convVars, mode, tools, created>>

\* Mutation: the failure of a tool is not shown.
MutEndItem(q) ==
  /\ Runtime!EndItem(q)
  /\ screen' = Thinking(screen)
  /\ UNCHANGED <<convVars, mode, tools, created>>

EndItem(q) ==
  /\ Runtime!EndItem(q)
  /\ LET kind == run[q].doing[1]
         id   == IdOf(kind, q, run[q].doing[2])
     IN screen' = Thinking(Marked(screen, kind, id, "ended"))
  /\ UNCHANGED <<convVars, mode, tools, created>>

\* agent_cancelled, agent_error, an exception or the plain end of the stream:
\* the runtime's finally block, then that of handleSubmit
EndRun(q) ==
  /\ Runtime!End(q)
  /\ screen' = Ended(screen)
  /\ UNCHANGED <<convVars, mode, tools, created>>

RunStep(q) ==
  Works(q) \/ Text(q) \/ Output(q) \/ StartTool(q) \/ StartCheck(q) \/ EndItem(q) \/ EndRun(q)

-----------------------------------------------------------------------------
(* The events of ConversationManager.send, when there is no runtime. *)

SendOpens(q) ==
  /\ OpenStream(q)
  /\ screen' = Thinking(screen)
  /\ UNCHANGED <<mode, runtimeVars, created>>

SendTexts(q) ==
  /\ TextDelta(q)
  /\ screen' = Texted(screen, q)
  /\ created' = [created EXCEPT ![q] = TRUE]
  /\ UNCHANGED <<mode, runtimeVars>>

SendCompletes(q) == StreamCompleted(q) /\ UNCHANGED <<mode, runtimeVars, screen, created>>

\* an error takes the text of the request off the screen
SendFails(q) ==
  /\ StreamFails(q)
  /\ screen' = [Still(screen) EXCEPT !.entries = @ \ Shown(screen, "assistant", q)]
  /\ UNCHANGED <<mode, runtimeVars, created>>

SendAnswers(q) ==
  /\ StreamEnds(q)
  /\ screen' = Still(screen)
  /\ UNCHANGED <<mode, runtimeVars, created>>

SendEnds(q) ==
  /\ Finish(q)
  /\ screen' = Ended(screen)
  /\ UNCHANGED <<mode, runtimeVars, created>>

SendStep(q) ==
  SendOpens(q) \/ SendTexts(q) \/ SendCompletes(q) \/ SendFails(q) \/ SendAnswers(q) \/ SendEnds(q)

-----------------------------------------------------------------------------
User ==
  \/ TypeExit \/ TypeClear \/ InkExits \/ Interrupt \/ InterruptIdle
  \/ \E q \in Requests : SubmitToRuntime(q) \/ SubmitToManager(q)

Next == User \/ Exit \/ \E q \in Requests : RunStep(q) \/ SendStep(q)

Spec == Init /\ [][Next]_vars

(***************************************************************************)
(* Every stream ends some time (RunEnds of AgentRuntime), and the timer of *)
(* the exit fires when nothing clears it.  Nothing is assumed of the user. *)
(***************************************************************************)
SessionFairness ==
  /\ WF_vars(Exit)
  /\ \A q \in Requests :
       /\ WF_vars(EndItem(q)) /\ SF_vars(EndRun(q))
       /\ WF_vars(SendOpens(q)) /\ WF_vars(SendEnds(q)) /\ WF_vars(SendFails(q) \/ SendAnswers(q))

FairSpec == Spec /\ SessionFairness

-----------------------------------------------------------------------------
(***************************************************************************)
(* The prompt is never taken away for good: the screen is processing only  *)
(* while a stream is open whose finally block will give it back, and with  *)
(* no stream open it neither thinks nor streams.  Two streams may be open  *)
(* after a Ctrl+C, each with its own finally block on the same screen.     *)
(***************************************************************************)
ScreenFollowsStreams ==
  /\ screen.ui = "processing" => \E q \in Requests : Open(q)
  /\ (\A q \in Requests : ~Open(q)) => ~screen.thinking /\ screen.streaming = None

(***************************************************************************)
(* A tool or a check is shown as running only while it is, or if its run   *)
(* was cancelled under it, which nothing on the screen tells.              *)
(***************************************************************************)
RunningIsRunning ==
  \A e \in screen.entries : e.mark = "running" =>
    \E q \in Requests :
      \/ run[q].doing # Idle /\ e.kind = run[q].doing[1]
           /\ e.id = IdOf(e.kind, q, run[q].doing[2])
      \/ run[q].cancelled /\ e.kind = "tool" /\ e.id[1] = q

(***************************************************************************)
(* send is entered once at a time, and an answer directly follows the      *)
(* message it answers, unless a clear comes between; the prompt of a       *)
(* terminal lets none come between.                                        *)
(***************************************************************************)
ConversationIntact ==
  ~mode.hasRuntime =>
    /\ mode.raw => ~disturbed
    /\ ~disturbed =>
         /\ Cardinality(Generating) <= 1
         /\ \A i \in DOMAIN messages : messages[i].role = "assistant" =>
              i > 1 /\ messages[i - 1] = [role |-> "user", of |-> messages[i].of]

(***************************************************************************)
(* A screen that is processing takes input again or ends, and one that is  *)
(* told to exit does, unless the end of an open stream takes it back.      *)
(***************************************************************************)
PromptReturns ==
  /\ screen.ui = "processing" ~> screen.ui # "processing"
  /\ screen.ui = "exiting" ~> screen.ui # "exiting"
=============================================================================
