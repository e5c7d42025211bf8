---------------------------- MODULE ProviderStream ----------------------------
(***************************************************************************)
(* GroqProvider.stream: the chunks of one answer become text events, then  *)
(* the tool calls put together from their fragments, then completed, or an *)
(* error.                                                                  *)
(***************************************************************************)
EXTENDS Naturals, Sequences, SequencesExt

CONSTANTS Calls,      \* bound: tool calls the model makes in one answer
          MaxChunks,  \* bound: chunks of an answer
          None        \* a field that is not there

ASSUME StreamAssumption == Calls \in Nat /\ MaxChunks \in Nat /\ None \notin Nat

(***************************************************************************)
(* A chunk: text, or a fragment of the tool call with an index, which may  *)
(* be left out; id and name come with the first fragment of a call and     *)
(* need not be repeated; the piece of the arguments is told from others by *)
(* where it is in the stream.                                              *)
(***************************************************************************)
TextChunk == [kind |-> "text", index |-> None, named |-> FALSE]
Chunks == {TextChunk} \cup [kind : {"call"}, index : {None} \cup 0 .. Calls - 1, named : BOOLEAN]

VARIABLES streaming,  \* new, reading, telling (the chunks are over), or over
          chunks,     \* history: the chunks read so far
          calls,      \* toolCallsByIndex, in the order its entries were made
          told,       \* how many of them are told
          events      \* the events yielded so far

streamVars == <<streaming, chunks, calls, told, events>>

StreamInit ==
  /\ streaming = "new"
  /\ chunks = <<>> /\ calls = <<>> /\ told = 0 /\ events = <<>>

Event(type, call) == [type |-> type, call |-> call]

Tells(event) == events' = Append(events, event)

\* create rejects, or resolves to a stream
Refuse ==
  /\ streaming = "new"
  /\ Tells(Event("error", None))
  /\ streaming' = "over"
  /\ UNCHANGED <<chunks, calls, told>>

Open == streaming = "new" /\ streaming' = "reading" /\ UNCHANGED <<chunks, calls, told, events>>

IndexOf(chunk) == IF chunk.index = None THEN 0 ELSE chunk.index

Call(index) == [index |-> index, named |-> FALSE, parts |-> <<>>]

\* Mutation: a fragment replaces the arguments read so far.
MutExtended(call, chunk, part) ==
  [index |-> call.index, named |-> call.named \/ chunk.named, parts |-> <<part>>]

Extended(call, chunk, part) ==
  [index |-> call.index, named |-> call.named \/ chunk.named, parts |-> Append(call.parts, part)]

\* the body of the loop on tool_calls
Assembled(chunk, part) ==
  IF \E i \in DOMAIN calls : calls[i].index = IndexOf(chunk)
  THEN [i \in DOMAIN calls |->
          IF calls[i].index = IndexOf(chunk) THEN Extended(calls[i], chunk, part) ELSE calls[i]]
  ELSE Append(calls, Extended(Call(IndexOf(chunk)), chunk, part))

ReadText ==
  /\ streaming = "reading" /\ Len(chunks) < MaxChunks
  /\ chunks' = Append(chunks, TextChunk)
  /\ Tells(Event("text_delta", None))
  /\ UNCHANGED <<streaming, calls, told>>

ReadFragment(chunk) ==
  /\ streaming = "reading" /\ Len(chunks) < MaxChunks
  /\ chunk.kind = "call"
  /\ chunks' = Append(chunks, chunk)
  /\ calls' = Assembled(chunk, Len(chunks'))
  /\ UNCHANGED <<streaming, told, events>>

\* the stream throws
Fail ==
  /\ streaming = "reading"
  /\ Tells(Event("error", None))
  /\ streaming' = "over"
  /\ UNCHANGED <<chunks, calls, told>>

End == streaming = "reading" /\ streaming' = "telling" /\ UNCHANGED <<chunks, calls, told, events>>

\* the iteration of the map's values; a call without a name is one all the same
Tell ==
  /\ streaming = "telling" /\ told < Len(calls)
  /\ Tells(Event("tool_call", calls[told + 1]))
  /\ told' = told + 1
  /\ UNCHANGED <<streaming, chunks, calls>>

Complete ==
  /\ streaming = "telling" /\ told = Len(calls)
  /\ Tells(Event("completed", None))
  /\ streaming' = "over"
  /\ UNCHANGED <<chunks, calls, told>>

\* the consumer leaves at a text or a call it was just given
LeaveStream ==
  /\ \/ streaming = "reading" /\ chunks # <<>> /\ Last(chunks) = TextChunk
     \/ streaming = "telling" /\ told > 0
  /\ streaming' = "over"
  /\ UNCHANGED <<chunks, calls, told, events>>

StreamNext ==
  \/ Refuse \/ Open \/ ReadText \/ (\E chunk \in Chunks : ReadFragment(chunk))
  \/ Fail \/ End \/ Tell \/ Complete \/ LeaveStream

StreamSpec == StreamInit /\ [][StreamNext]_streamVars

-----------------------------------------------------------------------------
\* where the fragments of the call with an index are among the chunks read
FragmentsOf(read, index) ==
  {i \in DOMAIN read : read[i].kind = "call" /\ IndexOf(read[i]) = index}

\* the calls the model made
Begun(read) == {IndexOf(read[i]) : i \in {k \in DOMAIN read : read[k].kind = "call"}}

\* all the parts of a call in their order, and its name
Whole(read, call) ==
  /\ ToSet(call.parts) = FragmentsOf(read, call.index)
  /\ \A k, m \in DOMAIN call.parts : k < m => call.parts[k] < call.parts[m]
  /\ call.named = \E k \in FragmentsOf(read, call.index) : read[k].named

Told == {i \in DOMAIN events : events[i].type = "tool_call"}

(***************************************************************************)
(* However the fragments of several tool calls alternate with each other   *)
(* and with text, each call is told once and whole, in the order the calls *)
(* were begun, none is told of a stream that failed, and none is missing   *)
(* when the stream completes; nothing is told after the end.  Fragments    *)
(* without an index belong to call 0.                                      *)
(***************************************************************************)
CallsAssembled ==
  /\ \A i \in Told : events[i].call.index \in Begun(chunks) /\ Whole(chunks, events[i].call)
  /\ \A i, k \in Told : i < k => Head(events[i].call.parts) < Head(events[k].call.parts)
  /\ \A i \in DOMAIN events :
       /\ events[i].type \in {"error", "completed"} => i = Len(events)
       /\ events[i].type = "error" => Told = {}
       /\ events[i].type = "completed" =>
            \A index \in Begun(chunks) : \E k \in Told : events[k].call.index = index
=============================================================================
