------------------------- MODULE ConversationManager -------------------------
(***************************************************************************)
(* ConversationManager: a list of messages, a status that locks send, and  *)
(* the send generators a client drives.  A generator runs from one yield   *)
(* or await to the next; clear replaces the list and resets the status     *)
(* under a generator that is not done; a client may leave a generator.     *)
(***************************************************************************)
EXTENDS Naturals, Sequences

CONSTANT Requests  \* the texts sent, one generator each

VARIABLES
  messages,   \* this.messages: role and the request it belongs to
  status,     \* this.status
  send,       \* the locals of each send generator
  disturbed   \* history: a clear has found a generator that was not done

convVars == <<messages, status, send, disturbed>>

\* pc is unsent, opened, streaming, failing, answered or done; a generator
\* that is opened is suspended at one of the two yields before the try block
Unsent == [pc |-> "unsent", text |-> FALSE, completed |-> FALSE]

ConvInit ==
  /\ messages = <<>>
  /\ status = "idle"
  /\ send = [q \in Requests |-> Unsent]
  /\ disturbed = FALSE

Active(q) == send[q].pc \notin {"unsent", "done"}
Generating == {q \in Requests : send[q].pc \in {"opened", "streaming"}}

AddMessage(role, q) == messages' = Append(messages, [role |-> role, of |-> q])
Move(q, pc) == send' = [send EXCEPT ![q].pc = pc]

-----------------------------------------------------------------------------
\* send up to its first yield.  A blank text and a manager that is generating
\* are refused; the one client looks for both before it calls
Send(q) ==
  /\ send[q].pc = "unsent"
  /\ status # "generating"
  /\ status' = "generating"
  /\ AddMessage("user", q)
  /\ Move(q, "opened")
  /\ UNCHANGED disturbed

\* the two events are taken, and the provider is asked
OpenStream(q) ==
  /\ send[q].pc = "opened"
  /\ Move(q, "streaming")
  /\ UNCHANGED <<messages, status, disturbed>>

TextDelta(q) ==
  /\ send[q].pc = "streaming"
  /\ send' = [send EXCEPT ![q].text = TRUE]
  /\ UNCHANGED <<messages, status, disturbed>>

\* the provider says that it is done; its stream may go on
StreamCompleted(q) ==
  /\ send[q].pc = "streaming"
  /\ send' = [send EXCEPT ![q].completed = TRUE]
  /\ UNCHANGED <<messages, status, disturbed>>

\* an error event, or an exception out of the provider's stream
StreamFails(q) ==
  /\ send[q].pc = "streaming"
  /\ status' = "error"
  /\ Move(q, "failing")
  /\ UNCHANGED <<messages, disturbed>>

\* the stream ends: an answer is recorded if there was any text or a proper end
StreamEnds(q) ==
  /\ send[q].pc = "streaming"
  /\ status' = "idle"
  /\ Move(q, "answered")
  /\ IF send[q].text \/ send[q].completed THEN AddMessage("assistant", q)
                                          ELSE UNCHANGED messages
  /\ UNCHANGED disturbed

Unlocked == IF status = "generating" THEN "idle" ELSE status

\* the finally block, after the last event of an answer or an error was taken
Finish(q) ==
  /\ send[q].pc \in {"answered", "failing"}
  /\ status' = Unlocked
  /\ Move(q, "done")
  /\ UNCHANGED <<messages, disturbed>>

\* clear, whatever is under way
Clear ==
  /\ messages' = <<>>
  /\ status' = "idle"
  /\ disturbed' = (disturbed \/ \E q \in Requests : Active(q))
  /\ UNCHANGED send
=============================================================================
