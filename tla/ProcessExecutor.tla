--------------------------- MODULE ProcessExecutor ---------------------------
(***************************************************************************)
(* One call of ShellService.execute and ProcessExecutor.spawnCommand: a    *)
(* promise, the child process it waits for, two timers and an abort        *)
(* signal.  Exit, close, error, timeout, abort, the output limit and the   *)
(* fallback kill are callbacks that may run in any order while the         *)
(* promise is pending.  A call starts from the state a finished one left,  *)
(* so a client that runs one command after another can extend this module. *)
(***************************************************************************)
EXTENDS Naturals

CONSTANTS
  Streams,    \* stdout and stderr, which are handled alike
  MaxBytes,   \* maxStdoutBytes and maxStderrBytes
  MaxWritten  \* bound: bytes the child writes to a stream

ASSUME ExecutorAssumption == MaxBytes \in Nat /\ MaxWritten \in Nat

VARIABLES
  aborted,  \* options.signal.aborted
  call,     \* the locals of the promise and what became of it
  child     \* the process, as the operating system and node see it

executorVars == <<aborted, call, child>>

(***************************************************************************)
(* force is forceKillTimer: a timer that has fired is still assigned, so   *)
(* it is not armed again.  abortSeen, timedOut, truncated are the flags    *)
(* aborted, timedOut and truncated of the code, bytes is what it counts.   *)
(***************************************************************************)
Outcomes == {"pending", "resolved", "aborted", "error"}

Calls ==
  [at : {"idle", "resolving", "running"}, outcome : Outcomes,
   timed : BOOLEAN, timer : BOOLEAN, listening : BOOLEAN,
   force : {"unset", "armed", "fired"},
   timedOut : BOOLEAN, truncated : BOOLEAN, abortSeen : BOOLEAN,
   bytes : [Streams -> 0..MaxBytes]]

(***************************************************************************)
(* killed is node's child.killed: some signal was delivered.  sent is that *)
(* signal, code the exit code with null for a death by signal.  A child    *)
(* may ignore SIGTERM (~obeys), may be out of reach of kill (protected), and *)
(* may leave a descendant that holds its pipes open (inherited).           *)
(***************************************************************************)
Children ==
  [phase : {"none", "alive", "exited", "closed"}, killed : BOOLEAN,
   sent : {"none", "TERM", "KILL"}, code : {"unknown", "zero", "nonzero", "null"},
   obeys : BOOLEAN, protected : BOOLEAN, inherited : BOOLEAN,
   written : [Streams -> 0..MaxWritten]]

NoBytes == [s \in Streams |-> 0]

FreshCall ==
  [at |-> "idle", outcome |-> "pending", timed |-> FALSE, timer |-> FALSE,
   listening |-> FALSE, force |-> "unset", timedOut |-> FALSE,
   truncated |-> FALSE, abortSeen |-> FALSE, bytes |-> NoBytes]

NoChild ==
  [phase |-> "none", killed |-> FALSE, sent |-> "none", code |-> "unknown",
   obeys |-> TRUE, protected |-> FALSE, inherited |-> FALSE, written |-> NoBytes]

ExecutorInit == aborted = FALSE /\ call = FreshCall /\ child = NoChild

Pending == call.at # "idle" /\ call.outcome = "pending"

-----------------------------------------------------------------------------
(* The closures of spawnCommand, as functions of the call's locals. *)

\* cleanup()
CleanedUp(c) == [c EXCEPT !.timer = FALSE, !.force = "unset", !.listening = FALSE]

\* resolve and reject behind the settled flag
Settled(c, outcome) == IF c.outcome = "pending" THEN [c EXCEPT !.outcome = outcome] ELSE c

\* child.on('error'): a failed spawn, or a kill that is not permitted
Erred(c) == Settled(CleanedUp(c), "error")

\* what child.kill does: a process that is dead but not yet reaped still
\* takes a signal, one that was reaped does not
KillResults ==
  CASE child.killed -> {"not tried"}
    [] ~child.killed /\ child.phase = "alive" ->
         IF child.protected THEN {"refused"} ELSE {"delivered"}
    [] OTHER -> {"delivered", "gone"}

Killed(ch, signal, result) ==
  IF result = "delivered"
    THEN [ch EXCEPT !.killed = TRUE, !.sent = IF ch.phase = "alive" THEN signal ELSE @]
    ELSE ch

AfterKill(c, result) == IF result = "refused" THEN Erred(c) ELSE c

\* terminateProcess(), called with the locals c and the child ch: the fallback
\* timer is armed after the kill, even when the kill has rejected the promise
Terminate(c, ch) ==
  \E result \in KillResults :
     /\ child' = Killed(ch, "TERM", result)
     /\ call' = LET d == AfterKill(c, result)
                IN [d EXCEPT !.force = IF @ = "unset" THEN "armed" ELSE @]

-----------------------------------------------------------------------------
(* The call. *)

\* ShellService.execute, up to the await of resolveSafePath.  The closures of
\* a settled call are forgotten, with a child that kill could not reach
Execute ==
  /\ call.at = "idle" \/ call.outcome # "pending"
  /\ call' = [FreshCall EXCEPT !.at = "resolving"]
  /\ child' = NoChild
  /\ UNCHANGED aborted

\* an empty command, or a working directory resolveSafePath refuses
RefuseCommand ==
  /\ call.at = "resolving" /\ Pending
  /\ call' = Settled(call, "error")
  /\ UNCHANGED <<aborted, child>>

\* the signal is looked at once more before the child is spawned
RefuseAborted ==
  /\ call.at = "resolving" /\ Pending
  /\ aborted
  /\ call' = Settled(call, "aborted")
  /\ UNCHANGED <<aborted, child>>

\* spawn reports 'error' in its next tick, and 'close' after it
SpawnFails ==
  /\ call.at = "resolving" /\ Pending
  /\ ~aborted
  /\ call' = Erred([call EXCEPT !.at = "running"])
  /\ child' = [NoChild EXCEPT !.phase = "closed"]
  /\ UNCHANGED aborted

\* Mutation: the signal is not looked at after the await of resolveSafePath.
MutSpawn ==
  /\ call.at = "resolving" /\ Pending
  /\ call' = [call EXCEPT !.at = "running", !.timed = TRUE, !.timer = TRUE, !.listening = TRUE]
  /\ child' = [NoChild EXCEPT !.phase = "alive"]
  /\ UNCHANGED aborted

\* a timeout that is zero, negative or not a number arms no timer
Spawn ==
  /\ call.at = "resolving" /\ Pending
  /\ ~aborted
  /\ \E timed, obeys, protected, inherited \in BOOLEAN :
       /\ call' = [call EXCEPT !.at = "running", !.timed = timed, !.timer = timed,
                               !.listening = TRUE]
       /\ child' = [NoChild EXCEPT !.phase = "alive", !.obeys = obeys,
                                   !.protected = protected, !.inherited = inherited]
  /\ UNCHANGED aborted

-----------------------------------------------------------------------------
(* The callbacks. *)

SignalAborts ==
  /\ ~aborted
  /\ aborted' = TRUE
  /\ \/ /\ call.listening
        /\ Terminate([call EXCEPT !.abortSeen = TRUE, !.listening = FALSE], child)
     \/ ~call.listening /\ UNCHANGED <<call, child>>

\* Mutation: the command is stopped, and the result does not say why.
MutTimeoutUntold ==
  /\ call.timer
  /\ Terminate([call EXCEPT !.timer = FALSE], child)
  /\ UNCHANGED aborted

\* Mutation: the result says so, and the command is not stopped.
MutTimeoutOnly ==
  /\ call.timer
  /\ call' = [call EXCEPT !.timedOut = TRUE, !.timer = FALSE]
  /\ UNCHANGED <<aborted, child>>

TimeoutFires ==
  /\ call.timer
  /\ Terminate([call EXCEPT !.timedOut = TRUE, !.timer = FALSE], child)
  /\ UNCHANGED aborted

\* the handler of the fallback timer
ForceKillFires ==
  /\ call.force = "armed"
  /\ \E result \in KillResults :
       /\ child' = Killed(child, "KILL", result)
       /\ call' = AfterKill([call EXCEPT !.force = "fired"], result)
  /\ UNCHANGED aborted

\* child.stdout.on('data') and child.stderr.on('data') with a chunk of n bytes
Data(s, n) ==
  /\ child.phase \in {"alive", "exited"}
  /\ child.written[s] + n <= MaxWritten
  /\ LET room  == MaxBytes - call.bytes[s]
         wrote == [child EXCEPT !.written[s] = @ + n]
     IN \/ /\ n <= room
           /\ call' = [call EXCEPT !.bytes[s] = @ + n]
           /\ child' = wrote
        \/ /\ n > room
           /\ Terminate([call EXCEPT !.truncated = TRUE, !.bytes[s] = MaxBytes], wrote)
  /\ UNCHANGED aborted

\* Mutation: the timers and the listener are left armed.
MutClose ==
  /\ child.phase = "exited" /\ ~child.inherited
  /\ child' = [child EXCEPT !.phase = "closed"]
  /\ call' = Settled(call, IF call.abortSeen THEN "aborted" ELSE "resolved")
  /\ UNCHANGED aborted

\* child.on('close')
Close ==
  /\ child.phase = "exited" /\ ~child.inherited
  /\ child' = [child EXCEPT !.phase = "closed"]
  /\ call' = Settled(CleanedUp(call), IF call.abortSeen THEN "aborted" ELSE "resolved")
  /\ UNCHANGED aborted

-----------------------------------------------------------------------------
(* The processes. *)

\* a program that is not told to stop ends how and when it likes; one that
\* obeys SIGTERM may still choose its exit code
ExitFreely ==
  /\ child.phase = "alive"
  /\ \E code \in {"zero", "nonzero", "null"} :
       child' = [child EXCEPT !.phase = "exited", !.code = code]
  /\ UNCHANGED <<aborted, call>>

ExitOnSignal ==
  /\ child.phase = "alive"
  /\ child.sent = "KILL" \/ (child.sent = "TERM" /\ child.obeys)
  /\ \E code \in {"zero", "nonzero", "null"} :
       /\ child.sent = "KILL" => code = "null"
       /\ child' = [child EXCEPT !.phase = "exited", !.code = code]
  /\ UNCHANGED <<aborted, call>>

PipesReleased ==
  /\ child.phase \in {"alive", "exited"} /\ child.inherited
  /\ child' = [child EXCEPT !.inherited = FALSE]
  /\ UNCHANGED <<aborted, call>>

Callback ==
  \/ TimeoutFires \/ ForceKillFires \/ Close
  \/ \E s \in Streams, n \in 1..MaxWritten : Data(s, n)

Process == ExitFreely \/ ExitOnSignal \/ PipesReleased

Begin == RefuseCommand \/ RefuseAborted \/ SpawnFails \/ Spawn

ExecutorNext == Execute \/ Begin \/ SignalAborts \/ Callback \/ Process

(***************************************************************************)
(* The event loop runs a timer that is due and an event that has arrived,  *)
(* and the operating system ends a process that gets SIGKILL, or SIGTERM   *)
(* if it does not ignore it.  No program has to end by itself, to write,   *)
(* or to release the pipes it inherited.                                   *)
(***************************************************************************)
ExecutorFairness ==
  /\ WF_executorVars(Begin)
  /\ WF_executorVars(TimeoutFires)
  /\ WF_executorVars(ForceKillFires)
  /\ WF_executorVars(Close)
  /\ WF_executorVars(ExitOnSignal)

ExecutorSpec == ExecutorInit /\ [][ExecutorNext]_executorVars
FairExecutorSpec == ExecutorSpec /\ ExecutorFairness

-----------------------------------------------------------------------------
ExecutorTypeOK ==
  /\ aborted \in BOOLEAN
  /\ call \in Calls
  /\ child \in Children

(***************************************************************************)
(* When the promise is settled the child has ended, unless the promise was *)
(* rejected because kill is not permitted to reach it; and after the end   *)
(* of a child no timer and no listener of its call is left to fire.        *)
(***************************************************************************)
LeavesNothingBehind ==
  /\ call.outcome # "pending" /\ child.phase \in {"alive", "exited"} =>
       call.outcome = "error" /\ child.protected
  /\ child.phase = "closed" => ~call.timer /\ ~call.listening /\ call.force # "armed"

(***************************************************************************)
(* A result tells the truth about its process: all output up to the limit, *)
(* whether there was more, and why the process was stopped if the executor *)
(* stopped it.  A result never stands for an aborted command.              *)
(***************************************************************************)
ResultIsAccurate ==
  call.outcome = "resolved" =>
    /\ \A s \in Streams : call.bytes[s] = IF child.written[s] < MaxBytes
                                          THEN child.written[s] ELSE MaxBytes
    /\ call.truncated <=> \E s \in Streams : child.written[s] > MaxBytes
    /\ child.sent # "none" => call.timedOut \/ call.truncated
    /\ child.code # "unknown" /\ ~call.abortSeen

(***************************************************************************)
(* docs/architecture/shell-tool.md says of a timeout: "A fallback unref'd  *)
(* timer is scheduled to send SIGKILL after 1,000 ms if the process fails  *)
(* to exit cleanly."  So a child that was told to stop ends.  It does not  *)
(* when it ignores SIGTERM: child.killed is already true when the fallback *)
(* timer looks at it.                                                      *)
(***************************************************************************)
TerminationEscalates == child.sent # "none" ~> child.phase # "alive"
=============================================================================
