---------------------------- MODULE ShellProofs ----------------------------
(***************************************************************************)
(* The shell: ProcessExecutor for all streams and limits, what one         *)
(* callback may change and the invariant that the callbacks of a call, in  *)
(* any order, keep between the promise and its process; then               *)
(* VerificationRunner for any number of checks, a client of the executor   *)
(* that asks for one process at a time and whose verdict has the checks    *)
(* behind it.                                                              *)
(***************************************************************************)
EXTENDS VerificationRunner, TLAPS

-----------------------------------------------------------------------------
(* ProcessExecutor. *)

\* Timers and the listener need a process, a settled promise has none left
\* but one kill may not reach, and a result comes from a closed one.
Paired ==
  /\ call.at # "running" => child = NoChild
  /\ child.phase = "none" => child = NoChild
  /\ call.timer \/ call.listening \/ call.force = "armed" => child.phase \in {"alive", "exited"}
  /\ call.outcome # "pending" /\ child.phase \in {"alive", "exited"} =>
       call.outcome = "error" /\ child.protected
  /\ call.outcome = "resolved" => child.phase = "closed" /\ child.code # "unknown"
                                                         /\ ~call.abortSeen

\* What the process wrote is what was counted, up to the limit.
Counted ==
  /\ \A s \in Streams : call.bytes[s] = IF child.written[s] < MaxBytes
                                        THEN child.written[s] ELSE MaxBytes
  /\ call.truncated <=> \E s \in Streams : child.written[s] > MaxBytes

\* No signal is sent and no fallback timer armed without one of the reasons.
Stopping == call.timedOut \/ call.truncated \/ call.abortSeen

Reasoned ==
  /\ child.sent # "none" \/ call.force # "unset" => Stopping
  /\ child.phase = "exited" => child.code # "unknown"

ExecutorInv == ExecutorTypeOK /\ Paired /\ Counted /\ Reasoned

-----------------------------------------------------------------------------
(* The closures. *)

LEMMA FreshTypes == FreshCall \in Calls /\ NoChild \in Children
BY ExecutorAssumption DEF FreshCall, NoChild, Calls, Children, Outcomes, NoBytes

\* cleanup clears the timers and the listener, and nothing else.
LEMMA CleanupShape ==
  ASSUME NEW c \in Calls
  PROVE  /\ CleanedUp(c) \in Calls
         /\ ~CleanedUp(c).timer /\ ~CleanedUp(c).listening /\ CleanedUp(c).force = "unset"
         /\ CleanedUp(c).at = c.at /\ CleanedUp(c).outcome = c.outcome
         /\ CleanedUp(c).timed = c.timed /\ CleanedUp(c).timedOut = c.timedOut
         /\ CleanedUp(c).truncated = c.truncated /\ CleanedUp(c).abortSeen = c.abortSeen
         /\ CleanedUp(c).bytes = c.bytes
BY DEF CleanedUp, Calls

\* A promise that is settled is not settled again.
LEMMA SettleShape ==
  ASSUME NEW c \in Calls, NEW outcome \in Outcomes \ {"pending"}
  PROVE  /\ Settled(c, outcome) \in Calls
         /\ Settled(c, outcome).outcome = IF c.outcome = "pending" THEN outcome ELSE c.outcome
         /\ Settled(c, outcome).at = c.at
         /\ Settled(c, outcome).timer = c.timer /\ Settled(c, outcome).listening = c.listening
         /\ Settled(c, outcome).force = c.force /\ Settled(c, outcome).timed = c.timed
         /\ Settled(c, outcome).timedOut = c.timedOut
         /\ Settled(c, outcome).truncated = c.truncated
         /\ Settled(c, outcome).abortSeen = c.abortSeen
         /\ Settled(c, outcome).bytes = c.bytes
BY DEF Settled, Calls, Outcomes

\* What stays of a call whatever a kill does.
Steady(c, d) ==
  /\ d.at = c.at /\ d.timed = c.timed /\ d.bytes = c.bytes
  /\ d.timedOut = c.timedOut /\ d.truncated = c.truncated /\ d.abortSeen = c.abortSeen
  /\ (d.timer => c.timer) /\ (d.listening => c.listening)
  /\ c.outcome # "pending" => d.outcome = c.outcome
  /\ d.outcome \in {c.outcome, "error"}

\* A kill rejects the promise only if it may not reach a living child.
LEMMA KillShape ==
  ASSUME NEW c \in Calls, NEW ch \in Children, NEW result \in KillResults,
         NEW signal \in {"TERM", "KILL"},
         child \in Children, ch.phase = child.phase, ch.protected = child.protected
  PROVE  LET d == AfterKill(c, result)
             k == Killed(ch, signal, result)
         IN /\ d \in Calls /\ Steady(c, d)
            /\ d.force \in {c.force, "unset"}
            /\ d.outcome # c.outcome => ch.phase = "alive" /\ ch.protected
            /\ k \in Children
            /\ k.phase = ch.phase /\ k.protected = ch.protected /\ k.code = ch.code
            /\ k.written = ch.written /\ k.inherited = ch.inherited /\ k.obeys = ch.obeys
            /\ k.sent \in {ch.sent, signal}
<1> DEFINE d == AfterKill(c, result)
           k == Killed(ch, signal, result)
<1>1. CASE result = "refused"
  <2>1. child.phase = "alive" /\ child.protected
    BY <1>1, SMT DEF KillResults, Children
  <2>2. d = Settled(CleanedUp(c), "error") /\ k = ch
    BY <1>1 DEF AfterKill, Erred, Killed
  <2>3. d \in Calls /\ Steady(c, d) /\ d.force = "unset"
    BY <2>2, CleanupShape, SettleShape DEF Steady, Outcomes
  <2> QED
    BY <2>1, <2>2, <2>3
<1>2. CASE result # "refused"
  <2>1. d = c /\ Steady(c, d)
    BY <1>2 DEF AfterKill, Steady
  <2>2. k = ch \/ k = [ch EXCEPT !.killed = TRUE, !.sent = IF ch.phase = "alive" THEN signal ELSE @]
    BY DEF Killed
  <2>3. /\ k \in Children
        /\ k.phase = ch.phase /\ k.protected = ch.protected /\ k.code = ch.code
        /\ k.written = ch.written /\ k.inherited = ch.inherited /\ k.obeys = ch.obeys
        /\ k.sent \in {ch.sent, signal}
    BY <2>2 DEF Children
  <2> QED
    BY <2>1, <2>3
<1> QED
  BY <1>1, <1>2

\* terminateProcess arms the fallback timer, and else does what a kill does.
LEMMA TerminateShape ==
  ASSUME NEW c \in Calls, NEW ch \in Children,
         child \in Children, ch.phase = child.phase, ch.protected = child.protected,
         Terminate(c, ch)
  PROVE  /\ call' \in Calls /\ Steady(c, call')
         /\ call'.outcome # c.outcome => ch.phase = "alive" /\ ch.protected
         /\ child' \in Children
         /\ child'.phase = ch.phase /\ child'.protected = ch.protected
         /\ child'.code = ch.code /\ child'.written = ch.written
<1>1. PICK result \in KillResults :
        /\ child' = Killed(ch, "TERM", result)
        /\ call' = [AfterKill(c, result) EXCEPT !.force = IF @ = "unset" THEN "armed" ELSE @]
  BY DEF Terminate
<1> DEFINE d == AfterKill(c, result)
<1>2. /\ d \in Calls /\ Steady(c, d)
      /\ d.outcome # c.outcome => ch.phase = "alive" /\ ch.protected
      /\ child' \in Children
      /\ child'.phase = ch.phase /\ child'.protected = ch.protected
      /\ child'.code = ch.code /\ child'.written = ch.written
  BY <1>1, KillShape
<1> HIDE DEF d
<1>3. /\ call' \in Calls /\ call'.outcome = d.outcome
      /\ Steady(d, call')
  BY <1>1, <1>2 DEF Calls, Steady, d
<1>4. Steady(c, call')
  BY <1>2, <1>3 DEF Steady
<1> QED
  BY <1>2, <1>3, <1>4

-----------------------------------------------------------------------------
(* The invariant. *)

\* What a step but the first of a call does to a promise: it is not started,
\* not settled twice, and spawned only while it is pending and not aborted.
Goes ==
  /\ call'.at # "idle" <=> call.at # "idle"
  /\ call.outcome # "pending" => call'.outcome = call.outcome
  /\ child'.phase = "alive" /\ child.phase # "alive" => Pending /\ ~aborted
  /\ aborted => aborted'

LEMMA ExecutorInvInit == ExecutorInit => ExecutorInv
<1> SUFFICES ASSUME ExecutorInit PROVE ExecutorInv
  OBVIOUS
<1>1. ExecutorTypeOK
  BY FreshTypes DEF ExecutorInit, ExecutorTypeOK
<1>2. Paired /\ Reasoned
  BY DEF ExecutorInit, Paired, Reasoned, FreshCall, NoChild
<1>3. Counted
  BY ExecutorAssumption DEF ExecutorInit, Counted, FreshCall, NoChild, NoBytes
<1> QED
  BY <1>1, <1>2, <1>3 DEF ExecutorInv

\* A new call starts where no process is.
LEMMA ExecuteKeeps ==
  ASSUME ExecutorInv, Execute
  PROVE  ExecutorInv'
<1>1. call' = [FreshCall EXCEPT !.at = "resolving"] /\ child' = NoChild /\ aborted' = aborted
  BY DEF Execute
<1>2. call' \in Calls /\ call'.bytes = NoBytes /\ ~call'.truncated
  BY <1>1, FreshTypes DEF Calls, FreshCall
<1>3. ExecutorTypeOK'
  BY <1>1, <1>2, FreshTypes DEF ExecutorInv, ExecutorTypeOK
<1>4. Paired' /\ Reasoned'
  BY <1>1 DEF Paired, Reasoned, FreshCall, NoChild
<1>5. Counted'
  BY <1>1, <1>2, ExecutorAssumption DEF Counted, NoChild, NoBytes
<1> QED
  BY <1>3, <1>4, <1>5 DEF ExecutorInv

\* Up to the spawn there is no process to leave behind.
LEMMA BeginKeeps ==
  ASSUME ExecutorInv, Begin
  PROVE  ExecutorInv' /\ Goes
<1> USE DEF ExecutorInv, ExecutorTypeOK
<1>1. /\ call.at = "resolving" /\ call.outcome = "pending" /\ child = NoChild
      /\ ~call.timer /\ ~call.listening /\ call.force # "armed"
      /\ Pending
  <2>1. call.at = "resolving" /\ call.outcome = "pending" /\ Pending
    BY Zenon DEF Begin, RefuseCommand, RefuseAborted, SpawnFails, Spawn, Pending
  <2>2. child = NoChild /\ child.phase = "none"
    BY <2>1 DEF Paired, NoChild
  <2> QED
    BY <2>1, <2>2 DEF Paired
<1>2. CASE RefuseCommand \/ RefuseAborted
  <2>1. PICK outcome \in {"error", "aborted"} : call' = Settled(call, outcome)
    BY <1>2 DEF RefuseCommand, RefuseAborted
  <2>2. UNCHANGED <<aborted, child>>
    BY <1>2 DEF RefuseCommand, RefuseAborted
  <2>3. outcome \in Outcomes \ {"pending"}
    BY DEF Outcomes
  <2>4. /\ call' \in Calls /\ call'.outcome = outcome /\ call'.at = call.at
        /\ ~call'.timer /\ ~call'.listening /\ call'.force = call.force
        /\ call'.timedOut = call.timedOut /\ call'.truncated = call.truncated
        /\ call'.abortSeen = call.abortSeen /\ call'.bytes = call.bytes
    BY <1>1, <2>1, <2>3, SettleShape
  <2>5. Paired' /\ Reasoned' /\ Counted'
    BY <1>1, <2>2, <2>4 DEF Paired, Reasoned, Counted, Stopping, NoChild
  <2>6. Goes
    BY <1>1, <2>2, <2>4 DEF Goes
  <2> QED
    BY <2>2, <2>4, <2>5, <2>6
<1>3. CASE SpawnFails
  <2> DEFINE c == [call EXCEPT !.at = "running"]
             d == CleanedUp(c)
  <2>1. /\ call' = Settled(d, "error") /\ child' = [NoChild EXCEPT !.phase = "closed"]
        /\ aborted' = aborted
    BY <1>3 DEF SpawnFails, Erred
  <2>2. /\ c \in Calls /\ c.at = "running" /\ c.outcome = call.outcome
        /\ c.timedOut = call.timedOut /\ c.truncated = call.truncated
        /\ c.abortSeen = call.abortSeen /\ c.bytes = call.bytes
    BY DEF Calls
  <2> HIDE DEF c
  <2>3. /\ d \in Calls /\ ~d.timer /\ ~d.listening /\ d.force = "unset"
        /\ d.at = "running" /\ d.outcome = "pending" /\ d.truncated = call.truncated
        /\ d.bytes = call.bytes
    BY <1>1, <2>2, CleanupShape
  <2> HIDE DEF d
  <2>4. /\ call' \in Calls /\ call'.outcome = "error" /\ call'.at = "running"
        /\ ~call'.timer /\ ~call'.listening /\ call'.force = "unset"
        /\ call'.truncated = call.truncated /\ call'.bytes = call.bytes
    BY <2>1, <2>3, SettleShape DEF Outcomes
  <2>5. /\ child' \in Children /\ child'.phase = "closed" /\ child'.sent = "none"
        /\ child'.written = NoChild.written
    BY <2>1, FreshTypes DEF Children, NoChild
  <2>6. Paired' /\ Reasoned' /\ Counted'
    BY <1>1, <2>4, <2>5 DEF Paired, Reasoned, Counted
  <2>7. Goes
    BY <1>1, <2>1, <2>4, <2>5 DEF Goes
  <2> QED
    BY <2>1, <2>4, <2>5, <2>6, <2>7
<1>4. CASE Spawn
  <2>1. PICK timed \in BOOLEAN, obeys \in BOOLEAN, protected \in BOOLEAN, inherited \in BOOLEAN :
          /\ call' = [call EXCEPT !.at = "running", !.timed = timed, !.timer = timed,
                                  !.listening = TRUE]
          /\ child' = [NoChild EXCEPT !.phase = "alive", !.obeys = obeys,
                                      !.protected = protected, !.inherited = inherited]
    BY <1>4 DEF Spawn
  <2>2. ~aborted /\ aborted' = aborted
    BY <1>4 DEF Spawn
  <2>3. /\ call' \in Calls /\ call'.at = "running" /\ call'.outcome = "pending"
        /\ call'.force = call.force /\ call'.truncated = call.truncated
        /\ call'.timedOut = call.timedOut /\ call'.abortSeen = call.abortSeen
        /\ call'.bytes = call.bytes
    BY <1>1, <2>1 DEF Calls
  <2>4. /\ child' \in Children /\ child'.phase = "alive" /\ child'.sent = NoChild.sent
        /\ child'.written = NoChild.written
    BY <2>1, FreshTypes DEF Children
  <2>5. Paired' /\ Reasoned' /\ Counted'
    BY <1>1, <2>3, <2>4 DEF Paired, Reasoned, Counted, Stopping
  <2>6. Goes
    BY <1>1, <2>2, <2>3, <2>4 DEF Goes
  <2> QED
    BY <2>2, <2>3, <2>4, <2>5, <2>6
<1> QED
  BY <1>2, <1>3, <1>4 DEF Begin

\* A callback that stops the process, for a reason it has just noted in c and
\* with the output that has just arrived in ch.
LEMMA StopKeeps ==
  ASSUME ExecutorInv, NEW c \in Calls, NEW ch \in Children,
         child.phase \in {"alive", "exited"},
         ch.phase = child.phase, ch.protected = child.protected, ch.code = child.code,
         c.at = call.at, c.outcome = call.outcome,
         c.timedOut \/ c.truncated \/ c.abortSeen,
         \A s \in Streams : c.bytes[s] = IF ch.written[s] < MaxBytes
                                         THEN ch.written[s] ELSE MaxBytes,
         c.truncated <=> \E s \in Streams : ch.written[s] > MaxBytes,
         Terminate(c, ch), aborted' \in BOOLEAN, aborted => aborted'
  PROVE  ExecutorInv' /\ Goes
<1> USE DEF ExecutorInv, ExecutorTypeOK
<1>1. /\ call' \in Calls /\ Steady(c, call')
      /\ call'.outcome # c.outcome => ch.phase = "alive" /\ ch.protected
      /\ child' \in Children
      /\ child'.phase = ch.phase /\ child'.protected = ch.protected
      /\ child'.code = ch.code /\ child'.written = ch.written
  BY TerminateShape
<1>2. call'.outcome \in {call.outcome, "error"}
  BY <1>1 DEF Steady
<1>3. call.at = "running" /\ call.outcome # "resolved"
  BY DEF Paired, NoChild
<1>4. Paired'
  BY <1>1, <1>2, <1>3 DEF Paired, Steady
<1>5. Counted'
  BY <1>1 DEF Counted, Steady
<1>6. Reasoned'
  BY <1>1 DEF Reasoned, Stopping, Steady
<1>7. Goes
  BY <1>1, <1>3 DEF Goes, Steady
<1> QED
  BY <1>1, <1>4, <1>5, <1>6, <1>7

LEMMA AbortKeeps ==
  ASSUME ExecutorInv, SignalAborts
  PROVE  ExecutorInv' /\ Goes
<1> USE DEF ExecutorInv, ExecutorTypeOK
<1>1. ~aborted /\ aborted' = TRUE
  BY DEF SignalAborts
<1>2. CASE call.listening
  <2> DEFINE c == [call EXCEPT !.abortSeen = TRUE, !.listening = FALSE]
  <2>1. /\ c \in Calls /\ c.at = call.at /\ c.outcome = call.outcome /\ c.abortSeen
        /\ c.truncated = call.truncated /\ c.bytes = call.bytes
    BY DEF Calls
  <2>2. Terminate(c, child)
    BY <1>2 DEF SignalAborts
  <2>3. child.phase \in {"alive", "exited"}
    BY <1>2 DEF Paired
  <2> HIDE DEF c
  <2> QED
    BY <1>1, <2>1, <2>2, <2>3, StopKeeps DEF Counted
<1>3. CASE ~call.listening
  <2>1. UNCHANGED <<call, child>>
    BY <1>3 DEF SignalAborts
  <2> QED
    BY <1>1, <2>1 DEF Paired, Counted, Reasoned, Stopping, Goes
<1> QED
  BY <1>2, <1>3

LEMMA TimeoutKeeps ==
  ASSUME ExecutorInv, TimeoutFires
  PROVE  ExecutorInv' /\ Goes
<1> USE DEF ExecutorInv, ExecutorTypeOK
<1> DEFINE c == [call EXCEPT !.timedOut = TRUE, !.timer = FALSE]
<1>1. /\ c \in Calls /\ c.at = call.at /\ c.outcome = call.outcome /\ c.timedOut
      /\ c.truncated = call.truncated /\ c.bytes = call.bytes
  BY DEF Calls
<1>2. Terminate(c, child) /\ aborted' = aborted
  BY DEF TimeoutFires
<1>3. child.phase \in {"alive", "exited"}
  BY DEF Paired, TimeoutFires
<1> HIDE DEF c
<1> QED
  BY <1>1, <1>2, <1>3, StopKeeps DEF Counted

\* The fallback timer was armed for a reason, and arms no other.
LEMMA ForceKillKeeps ==
  ASSUME ExecutorInv, ForceKillFires
  PROVE  ExecutorInv' /\ Goes
<1> USE DEF ExecutorInv, ExecutorTypeOK
<1> DEFINE c == [call EXCEPT !.force = "fired"]
<1>1. PICK result \in KillResults :
        child' = Killed(child, "KILL", result) /\ call' = AfterKill(c, result)
  BY DEF ForceKillFires
<1>2. child.phase \in {"alive", "exited"} /\ Stopping /\ aborted' = aborted
  BY DEF ForceKillFires, Paired, Reasoned
<1>3. /\ c \in Calls /\ c.at = call.at /\ c.outcome = call.outcome
      /\ c.timer = call.timer /\ c.listening = call.listening /\ c.timedOut = call.timedOut
      /\ c.truncated = call.truncated /\ c.abortSeen = call.abortSeen /\ c.bytes = call.bytes
  BY DEF Calls
<1> HIDE DEF c
<1>4. /\ call' \in Calls /\ Steady(c, call')
      /\ call'.outcome # c.outcome => child.phase = "alive" /\ child.protected
      /\ child' \in Children
      /\ child'.phase = child.phase /\ child'.protected = child.protected
      /\ child'.code = child.code /\ child'.written = child.written
  BY <1>1, <1>3, KillShape
<1>5. call.at = "running" /\ call.outcome # "resolved"
  BY <1>2 DEF Paired, NoChild
<1>6. Paired'
  BY <1>2, <1>3, <1>4, <1>5 DEF Paired, Steady
<1>7. Counted' /\ Reasoned'
  BY <1>2, <1>3, <1>4 DEF Counted, Reasoned, Stopping, Steady
<1>8. Goes
  BY <1>2, <1>3, <1>4, <1>5 DEF Goes, Steady
<1> QED
  BY <1>2, <1>4, <1>6, <1>7, <1>8

LEMMA DataKeeps ==
  ASSUME ExecutorInv, NEW s \in Streams, NEW n \in 1..MaxWritten, Data(s, n)
  PROVE  ExecutorInv' /\ Goes
<1> USE ExecutorAssumption DEF ExecutorInv, ExecutorTypeOK
<1> DEFINE room  == MaxBytes - call.bytes[s]
           wrote == [child EXCEPT !.written[s] = @ + n]
<1>1. /\ child.phase \in {"alive", "exited"} /\ child.written[s] + n <= MaxWritten
      /\ aborted' = aborted
  BY DEF Data
<1>2. /\ call.bytes \in [Streams -> 0..MaxBytes]
      /\ child.written \in [Streams -> 0..MaxWritten]
  BY DEF Calls, Children
<1>3. /\ wrote \in Children /\ wrote.phase = child.phase /\ wrote.protected = child.protected
      /\ wrote.code = child.code /\ wrote.sent = child.sent
      /\ wrote.written = [child.written EXCEPT ![s] = @ + n]
  BY <1>1, <1>2 DEF Children
<1>4. CASE n <= room
  <2>1. call' = [call EXCEPT !.bytes[s] = @ + n] /\ child' = wrote
    BY <1>4, <1>2 DEF Data
  <2>2. [call.bytes EXCEPT ![s] = @ + n] \in [Streams -> 0..MaxBytes]
    BY <1>2, <1>4
  <2>3. /\ call' \in Calls /\ call'.bytes = [call.bytes EXCEPT ![s] = @ + n]
        /\ call'.at = call.at /\ call'.outcome = call.outcome
        /\ call'.timer = call.timer /\ call'.listening = call.listening
        /\ call'.force = call.force /\ call'.timedOut = call.timedOut
        /\ call'.truncated = call.truncated /\ call'.abortSeen = call.abortSeen
    BY <2>1, <2>2 DEF Calls
  <2> HIDE DEF wrote
  <2>4. ASSUME NEW t \in Streams
        PROVE  /\ call'.bytes[t] = IF child'.written[t] < MaxBytes
                                   THEN child'.written[t] ELSE MaxBytes
               /\ child'.written[t] > MaxBytes <=> child.written[t] > MaxBytes
    <3>1. CASE t = s
      <4>1. child.written[s] < MaxBytes /\ call.bytes[s] = child.written[s]
        BY <1>2, <1>4 DEF Counted
      <4> QED
        BY <1>2, <1>3, <1>4, <2>1, <2>3, <3>1, <4>1
    <3>2. CASE t # s
      BY <1>2, <1>3, <2>1, <2>3, <3>2 DEF Counted
    <3> QED
      BY <3>1, <3>2
  <2>5. Counted'
    BY <2>3, <2>4 DEF Counted
  <2>6. Paired' /\ Reasoned' /\ Goes
    BY <1>1, <1>3, <2>1, <2>3 DEF Paired, Reasoned, Stopping, Goes, NoChild
  <2> QED
    BY <1>1, <1>3, <2>1, <2>3, <2>5, <2>6
<1>5. CASE ~(n <= room)
  <2> DEFINE c == [call EXCEPT !.truncated = TRUE, !.bytes[s] = MaxBytes]
  <2>1. Terminate(c, wrote)
    BY <1>5, <1>2 DEF Data
  <2>b. [call.bytes EXCEPT ![s] = MaxBytes] \in [Streams -> 0..MaxBytes]
    BY <1>2
  <2>2. /\ c \in Calls /\ c.bytes = [call.bytes EXCEPT ![s] = MaxBytes]
        /\ c.at = call.at /\ c.outcome = call.outcome /\ c.truncated
    BY <2>b DEF Calls
  <2> HIDE DEF c, wrote
  <2>3. child.written[s] + n > MaxBytes
    BY <1>2, <1>5 DEF Counted
  <2>4. wrote.written[s] > MaxBytes
    BY <1>2, <1>3, <2>3
  <2>5. ASSUME NEW t \in Streams
        PROVE  c.bytes[t] = IF wrote.written[t] < MaxBytes THEN wrote.written[t] ELSE MaxBytes
    <3>1. CASE t = s
      BY <1>2, <1>3, <2>2, <2>4, <3>1
    <3>2. CASE t # s
      BY <1>2, <1>3, <2>2, <3>2 DEF Counted
    <3> QED
      BY <3>1, <3>2
  <2> QED
    BY <1>1, <1>3, <2>1, <2>2, <2>4, <2>5, StopKeeps
<1> QED
  BY <1>4, <1>5

\* close is the one event that resolves, and it leaves no timer.
LEMMA CloseKeeps ==
  ASSUME ExecutorInv, Close
  PROVE  ExecutorInv' /\ Goes
<1> USE DEF ExecutorInv, ExecutorTypeOK
<1> DEFINE d == CleanedUp(call)
           outcome == IF call.abortSeen THEN "aborted" ELSE "resolved"
<1>1. /\ child.phase = "exited" /\ aborted' = aborted
      /\ child' = [child EXCEPT !.phase = "closed"] /\ call' = Settled(d, outcome)
  BY DEF Close
<1>2. /\ d \in Calls /\ ~d.timer /\ ~d.listening /\ d.force = "unset"
      /\ d.at = call.at /\ d.outcome = call.outcome /\ d.timedOut = call.timedOut
      /\ d.truncated = call.truncated /\ d.abortSeen = call.abortSeen /\ d.bytes = call.bytes
  BY CleanupShape
<1>3. outcome \in Outcomes \ {"pending"}
  BY DEF Outcomes
<1> HIDE DEF d
<1>4. /\ call' \in Calls /\ ~call'.timer /\ ~call'.listening /\ call'.force = "unset"
      /\ call'.at = call.at /\ call'.timedOut = call.timedOut
      /\ call'.truncated = call.truncated /\ call'.abortSeen = call.abortSeen
      /\ call'.bytes = call.bytes
      /\ call'.outcome = IF call.outcome = "pending" THEN outcome ELSE call.outcome
  BY <1>1, <1>2, <1>3, SettleShape
<1>5. /\ child' \in Children /\ child'.phase = "closed" /\ child'.code = child.code
      /\ child'.sent = child.sent /\ child'.written = child.written
  BY <1>1 DEF Children
<1>6. call.at = "running" /\ call.outcome # "resolved" /\ child.code # "unknown"
  BY <1>1 DEF Paired, Reasoned, NoChild
<1>7. Paired'
  BY <1>4, <1>5, <1>6 DEF Paired
<1>8. Counted' /\ Reasoned'
  BY <1>4, <1>5 DEF Counted, Reasoned, Stopping
<1>9. Goes
  BY <1>1, <1>4, <1>5 DEF Goes
<1> QED
  BY <1>1, <1>4, <1>5, <1>7, <1>8, <1>9

\* What processes do, the promise learns from events only.
LEMMA ProcessKeeps ==
  ASSUME ExecutorInv, Process
  PROVE  ExecutorInv' /\ Goes
<1> USE DEF ExecutorInv, ExecutorTypeOK
<1>1. UNCHANGED <<aborted, call>> /\ child.phase \in {"alive", "exited"}
  BY DEF Process, ExitFreely, ExitOnSignal, PipesReleased
<1>2. CASE ExitFreely \/ ExitOnSignal
  <2>1. PICK code \in {"zero", "nonzero", "null"} :
          child' = [child EXCEPT !.phase = "exited", !.code = code]
    BY <1>2 DEF ExitFreely, ExitOnSignal
  <2>2. /\ child' \in Children /\ child'.phase = "exited" /\ child'.code # "unknown"
        /\ child'.sent = child.sent /\ child'.written = child.written
        /\ child'.protected = child.protected
    BY <2>1 DEF Children
  <2> QED
    BY <1>1, <2>2 DEF Paired, Counted, Reasoned, Stopping, Goes, NoChild
<1>3. CASE PipesReleased
  <2>1. child' = [child EXCEPT !.inherited = FALSE]
    BY <1>3 DEF PipesReleased
  <2>2. /\ child' \in Children /\ child'.phase = child.phase /\ child'.code = child.code
        /\ child'.sent = child.sent /\ child'.written = child.written
        /\ child'.protected = child.protected
    BY <2>1 DEF Children
  <2> QED
    BY <1>1, <2>2 DEF Paired, Counted, Reasoned, Stopping, Goes, NoChild
<1> QED
  BY <1>2, <1>3 DEF Process

\* Every step but the first of a call.
LEMMA StepKeeps ==
  ASSUME ExecutorInv, Begin \/ SignalAborts \/ Callback \/ Process
  PROVE  ExecutorInv' /\ Goes
BY BeginKeeps, AbortKeeps, TimeoutKeeps, ForceKillKeeps, DataKeeps, CloseKeeps, ProcessKeeps
   DEF Callback

-----------------------------------------------------------------------------
(* What the invariant says of a promise and its process. *)

LEMMA InvLeavesNothing == ExecutorInv => LeavesNothingBehind
BY DEF ExecutorInv, Paired, LeavesNothingBehind

LEMMA InvAccurate == ExecutorInv => ResultIsAccurate
BY Zenon DEF ExecutorInv, Paired, Counted, Reasoned, Stopping, ResultIsAccurate

LEMMA ExecutorInvNext == ExecutorInv /\ [ExecutorNext]_executorVars => ExecutorInv'
<1>1. CASE UNCHANGED executorVars
  BY <1>1 DEF executorVars, ExecutorInv, ExecutorTypeOK, Paired, Counted, Reasoned, Stopping
<1>2. ASSUME ExecutorInv, ExecutorNext PROVE ExecutorInv'
  BY <1>2, ExecuteKeeps, StepKeeps DEF ExecutorNext
<1> QED
  BY <1>1, <1>2

LEMMA ExecutorCorrect == ExecutorSpec => []ExecutorInv
BY ExecutorInvInit, ExecutorInvNext, PTL DEF ExecutorSpec

-----------------------------------------------------------------------------
\* Commands one after another, with whatever limits and streams: every call
\* and every process keeps its types, the byte counters their limit.
THEOREM ExecutorTypeCorrect == ExecutorSpec => []ExecutorTypeOK
<1>1. ExecutorInv => ExecutorTypeOK
  BY DEF ExecutorInv
<1> QED
  BY <1>1, ExecutorCorrect, PTL

\* A settled promise has a process that ended, or one that kill may not reach,
\* and the end of a process leaves no timer and no listener of its call.
THEOREM NothingLeft == ExecutorSpec => []LeavesNothingBehind
BY InvLeavesNothing, ExecutorCorrect, PTL

\* A result has all output up to the limit, says whether there was more and
\* why the process was stopped, and is never that of an aborted command.
THEOREM ResultsAccurate == ExecutorSpec => []ResultIsAccurate
BY InvAccurate, ExecutorCorrect, PTL

-----------------------------------------------------------------------------
(* VerificationRunner. *)

\* A call is pending only while its check is the next one and nothing has
\* stopped the verification.
Working ==
  /\ Pending => phase = "running"
  /\ phase = "running" => call.at # "idle" /\ ChecksLeft /\ NextCheck

\* What a recorded check stands for.
Grounded(check, hasCommand) ==
  /\ check.status = "skipped" => aborted
  /\ check.status = "passed" =>
       /\ check.ran <=> hasCommand
       /\ check.code # "nonzero" /\ ~check.timedOut

Recorded == \A i \in DOMAIN executed : Grounded(executed[i], checks[i])

Judged == verdict # "none" => phase = "returned"

RunnerInv ==
  /\ checks \in Seq(BOOLEAN) /\ RunnerTypeOK
  /\ Working /\ Recorded /\ Judged /\ PassedOnEvidence

IInv == ExecutorInv /\ RunnerInv

-----------------------------------------------------------------------------
\* The runner uses the executor as its interface says: it starts a command, or
\* leaves the call and its process alone.
LEMMA StepsOfExecutor == [RunnerNext]_verifyVars => [ExecutorNext]_executorVars
<1>1. CASE UNCHANGED verifyVars
  BY <1>1 DEF verifyVars
<1>2. CASE Shell
  BY <1>2 DEF Shell, ExecutorNext
<1>3. CASE Runner
  BY <1>3 DEF Runner, SkipCheck, PassWithoutCommand, StartCommand, EndCommand, Return,
              ExecutorNext
<1> QED
  BY <1>1, <1>2, <1>3 DEF RunnerNext

\* A verification is a client of ProcessExecutor: whatever holds of every
\* sequence of commands holds of the commands of a verification.
THEOREM ClientOfExecutor == RunnerSpec => ExecutorSpec
<1>1. RunnerInit => ExecutorInit
  BY DEF RunnerInit
<1> QED
  BY <1>1, StepsOfExecutor, PTL DEF RunnerSpec, ExecutorSpec

-----------------------------------------------------------------------------
LEMMA InvInit == RunnerInit => IInv
<1> SUFFICES ASSUME RunnerInit PROVE IInv
  OBVIOUS
<1>1. ExecutorInv
  BY ExecutorInvInit DEF RunnerInit
<1>2. checks \in Seq(BOOLEAN)
  BY RunnerAssumption DEF RunnerInit, SeqOf
<1>3. executed = <<>> /\ phase = "before" /\ verdict = "none"
  BY DEF RunnerInit
<1>4. ~Pending
  BY DEF RunnerInit, ExecutorInit, FreshCall, Pending
<1>5. RunnerTypeOK
  BY <1>1, <1>2, <1>3 DEF RunnerTypeOK, ExecutorInv, Verdicts
<1> QED
  BY <1>1, <1>2, <1>3, <1>4, <1>5
     DEF IInv, RunnerInv, Working, Recorded, Judged, PassedOnEvidence

\* The steps of the command under way leave what the runner knows alone.
LEMMA ShellKeeps ==
  ASSUME IInv, Shell
  PROVE  IInv'
<1>1. ExecutorInv' /\ Goes
  BY StepKeeps DEF IInv, Shell
<1>2. UNCHANGED <<checks, executed, phase, verdict>>
  BY DEF Shell, runnerVars
<1>3. Pending' => Pending
  BY <1>1 DEF Goes, Pending
<1>4. RunnerTypeOK'
  BY <1>1, <1>2 DEF IInv, RunnerInv, RunnerTypeOK, ExecutorInv
<1>5. Working'
  BY <1>1, <1>2, <1>3 DEF IInv, RunnerInv, Working, Goes, ChecksLeft, Stopped, NextCheck
<1>6. Recorded'
  BY <1>1, <1>2 DEF IInv, RunnerInv, Recorded, Grounded, Goes
<1>7. Judged' /\ PassedOnEvidence'
  BY <1>2 DEF IInv, RunnerInv, Judged, PassedOnEvidence
<1> QED
  BY <1>1, <1>2, <1>4, <1>5, <1>6, <1>7 DEF IInv, RunnerInv

\* A step that records the next check.
LEMMA RecordKeeps ==
  ASSUME IInv, NEW check \in Check,
         ChecksLeft, Grounded(check, NextCheck), Record(check),
         verdict = "none",
         UNCHANGED <<executorVars, checks, verdict>>, phase' = "before", ~Pending
  PROVE  IInv'
<1> USE DEF IInv, RunnerInv
<1>1. executed \in Seq(Check) /\ checks \in Seq(BOOLEAN) /\ Len(executed) < Len(checks)
  BY DEF RunnerTypeOK, ChecksLeft
<1>2. /\ executed' \in Seq(Check) /\ Len(executed') = Len(executed) + 1
      /\ DOMAIN executed' = 1..(Len(executed) + 1)
      /\ \A i \in 1..Len(executed) : executed'[i] = executed[i]
      /\ executed'[Len(executed) + 1] = check
  BY <1>1 DEF Record
<1>3. UNCHANGED <<aborted, call, child>> /\ ExecutorInv'
  BY DEF executorVars, ExecutorInv, ExecutorTypeOK, Paired, Counted, Reasoned, Stopping
<1>4. RunnerTypeOK'
  BY <1>1, <1>2, <1>3 DEF RunnerTypeOK, ExecutorInv
<1>5. Working' /\ Judged' /\ PassedOnEvidence'
  BY <1>3 DEF Working, Judged, Pending, PassedOnEvidence
<1>6. ASSUME NEW i \in DOMAIN executed' PROVE Grounded(executed[i], checks[i])'
  <2>1. CASE i \in 1..Len(executed)
    BY <1>1, <1>2, <1>3, <2>1 DEF Recorded, Grounded
  <2>2. CASE i = Len(executed) + 1
    BY <1>2, <1>3, <2>2 DEF Grounded, NextCheck
  <2> QED
    BY <1>1, <1>2, <2>1, <2>2
<1>7. Recorded'
  BY <1>6 DEF Recorded
<1> QED
  BY <1>3, <1>4, <1>5, <1>7

LEMMA SkipKeeps ==
  ASSUME IInv, SkipCheck
  PROVE  IInv'
<1>1. NotRun("skipped") \in Check /\ Grounded(NotRun("skipped"), NextCheck)
  BY DEF NotRun, Check, Grounded, SkipCheck
<1>2. ~Pending /\ verdict = "none"
  BY DEF IInv, RunnerInv, Working, Judged, SkipCheck
<1> QED
  BY <1>1, <1>2, RecordKeeps DEF SkipCheck

LEMMA PassKeeps ==
  ASSUME IInv, PassWithoutCommand
  PROVE  IInv'
<1>1. NotRun("passed") \in Check /\ Grounded(NotRun("passed"), NextCheck)
  BY DEF NotRun, Check, Grounded, PassWithoutCommand
<1>2. ~Pending /\ verdict = "none"
  BY DEF IInv, RunnerInv, Working, Judged, PassWithoutCommand
<1> QED
  BY <1>1, <1>2, RecordKeeps DEF PassWithoutCommand

LEMMA StartKeeps ==
  ASSUME IInv, StartCommand
  PROVE  IInv'
<1> USE DEF IInv, RunnerInv, StartCommand
<1>1. ExecutorInv'
  BY ExecuteKeeps
<1>2. call'.at = "resolving" /\ aborted' = aborted
  BY FreshTypes DEF Execute, Calls
<1>3. UNCHANGED <<checks, executed, verdict>> /\ phase' = "running" /\ verdict = "none"
  BY DEF Judged
<1>4. RunnerTypeOK'
  BY <1>1, <1>3 DEF RunnerTypeOK, ExecutorInv
<1>5. Working'
  BY <1>2, <1>3 DEF Working, ChecksLeft, Stopped, NextCheck
<1>6. Recorded'
  BY <1>2, <1>3 DEF Recorded, Grounded
<1>7. Judged' /\ PassedOnEvidence'
  BY <1>3 DEF Judged, PassedOnEvidence
<1> QED
  BY <1>1, <1>3, <1>4, <1>5, <1>6, <1>7

\* A check that passes has a process that ended with zero or by a signal, and
\* in time.
LEMMA EndKeeps ==
  ASSUME IInv, EndCommand
  PROVE  IInv'
<1> USE DEF IInv, RunnerInv
<1>1. /\ phase = "running" /\ phase' = "before" /\ call.outcome # "pending"
      /\ UNCHANGED <<executorVars, checks, verdict>>
  BY DEF EndCommand
<1>2. PICK check \in Check : Record(check) /\ Grounded(check, TRUE)
  <2> DEFINE succeeded == call.outcome = "resolved" /\ IsSuccess
  <2>1. PICK environment \in BOOLEAN :
          /\ succeeded => ~environment
          /\ Record([status |-> IF succeeded THEN "passed" ELSE "failed",
                     environment |-> environment, ran |-> TRUE, code |-> child.code,
                     timedOut |-> call.timedOut, truncated |-> call.truncated])
    BY Zenon DEF EndCommand
  <2>2. /\ child.code \in {"unknown", "zero", "nonzero", "null"}
        /\ call.timedOut \in BOOLEAN /\ call.truncated \in BOOLEAN
    BY DEF ExecutorInv, ExecutorTypeOK, Calls, Children
  <2>3. succeeded => child.code \in {"zero", "null"} /\ ~call.timedOut
    BY DEF IsSuccess, ExitCode
  <2> HIDE DEF succeeded
  <2> DEFINE check == [status |-> IF succeeded THEN "passed" ELSE "failed",
                       environment |-> environment, ran |-> TRUE, code |-> child.code,
                       timedOut |-> call.timedOut, truncated |-> call.truncated]
  <2>4. check \in Check /\ Grounded(check, TRUE)
    BY <2>2, <2>3 DEF Check, Grounded
  <2> QED
    BY <2>1, <2>4
<1>3. ChecksLeft /\ NextCheck /\ verdict = "none"
  BY <1>1 DEF Working, Judged
<1>4. Grounded(check, NextCheck)
  BY <1>2, <1>3 DEF Grounded
<1>5. ~Pending
  BY <1>1 DEF Pending
<1> QED
  BY <1>1, <1>2, <1>3, <1>4, <1>5, RecordKeeps

\* The verdict passed is given when nothing failed, was skipped or is left.
LEMMA ReturnKeeps ==
  ASSUME IInv, Return
  PROVE  IInv'
<1> USE DEF IInv, RunnerInv
<1>1. /\ phase = "before" /\ phase' = "returned" /\ ~ChecksLeft
      /\ UNCHANGED <<aborted, call, child, checks, executed>>
      /\ verdict' = IF checks = <<>> THEN "unable_to_verify" ELSE Verdict
  BY DEF Return, executorVars
<1>2. verdict' \in Verdicts
  BY <1>1, Zenon DEF Verdict, Verdicts
<1>3. ExecutorInv'
  BY <1>1 DEF ExecutorInv, ExecutorTypeOK, Paired, Counted, Reasoned, Stopping
<1>4. RunnerTypeOK'
  BY <1>1, <1>2, <1>3 DEF RunnerTypeOK, ExecutorInv
<1>5. Working' /\ Judged'
  BY <1>1 DEF Working, Judged, Pending
<1>6. Recorded'
  BY <1>1 DEF Recorded, Grounded
<1>7. PassedOnEvidence'
  <2> SUFFICES ASSUME verdict' = "passed"
               PROVE  /\ Len(executed) = Len(checks) /\ checks # <<>>
                      /\ \A i \in DOMAIN executed : executed[i].status = "passed"
    BY <1>1 DEF PassedOnEvidence, Recorded, Grounded
  <2>1. ~aborted /\ ~Stopped /\ ~Failed
    BY <1>1, Zenon DEF Verdict
  <2>2. executed \in Seq(Check) /\ checks \in Seq(BOOLEAN) /\ Len(executed) <= Len(checks)
    BY DEF RunnerTypeOK
  <2>3. Len(executed) = Len(checks)
    BY <1>1, <2>1, <2>2 DEF ChecksLeft
  <2>4. ASSUME NEW i \in DOMAIN executed PROVE executed[i].status = "passed"
    <3>a. executed[i] \in Check
      BY <2>2
    <3>1. executed[i].status \in {"passed", "failed", "skipped"}
      BY <3>a DEF Check
    <3>2. executed[i].status # "failed"
      BY <2>1, Zenon DEF Failed
    <3>3. executed[i].status # "skipped"
      BY <2>1, Zenon DEF Recorded, Grounded
    <3> QED
      BY <3>1, <3>2, <3>3
  <2>5. checks # <<>>
    BY <1>1
  <2> QED
    BY <2>3, <2>4, <2>5
<1> QED
  BY <1>1, <1>3, <1>4, <1>5, <1>6, <1>7

LEMMA InvNext == IInv /\ [RunnerNext]_verifyVars => IInv'
<1> SUFFICES ASSUME IInv, [RunnerNext]_verifyVars PROVE IInv'
  OBVIOUS
<1>1. CASE UNCHANGED verifyVars
  BY <1>1 DEF verifyVars, executorVars, IInv, RunnerInv, RunnerTypeOK, ExecutorInv, ExecutorTypeOK, Paired,
              Counted, Reasoned, Stopping, Working, Pending, ChecksLeft, Stopped, NextCheck,
              Recorded, Grounded, Judged, PassedOnEvidence
<1>2. CASE Runner
  BY <1>2, SkipKeeps, PassKeeps, StartKeeps, EndKeeps, ReturnKeeps DEF Runner
<1>3. CASE Shell
  BY <1>3, ShellKeeps
<1> QED
  BY <1>1, <1>2, <1>3 DEF RunnerNext

LEMMA InvCorrect == RunnerSpec => []IInv
BY InvInit, InvNext, PTL DEF RunnerSpec

-----------------------------------------------------------------------------
\* Lists of checks of any length: the list of executed ones never outgrows it,
\* and all fields keep their types.
THEOREM TypeCorrect == RunnerSpec => []RunnerTypeOK
<1>1. IInv => RunnerTypeOK
  BY DEF IInv, RunnerInv
<1> QED
  BY <1>1, InvCorrect, PTL

\* A verification passes only with every check looked at and passed, and with
\* a process behind each that has a command, which ended in time and with no
\* other exit code than zero (verification-runner.ts 27-181).
THEOREM PassesOnEvidence == RunnerSpec => []PassedOnEvidence
<1>1. IInv => PassedOnEvidence
  BY DEF IInv, RunnerInv
<1> QED
  BY <1>1, InvCorrect, PTL

\* After the abort, or after a check that blames the environment, no process
\* is spawned any more, whichever of the looks at the signal came last.
THEOREM SpawnsNothing == RunnerSpec => SpawnsNothingAfterStop
<1> DEFINE Sound == child'.phase = "alive" /\ child.phase # "alive" => ~aborted /\ ~Stopped
<1>1. IInv /\ [RunnerNext]_verifyVars => [Sound]_verifyVars
  <2> SUFFICES ASSUME IInv, RunnerNext PROVE Sound
    OBVIOUS
  <2>1. CASE Runner
    <3>1. child' = child \/ child' = NoChild
      BY <2>1 DEF Runner, SkipCheck, PassWithoutCommand, StartCommand, EndCommand, Return,
                  Execute, executorVars
    <3> QED
      BY <3>1 DEF NoChild
  <2>2. CASE Shell
    <3>1. Goes
      BY <2>2, StepKeeps DEF IInv, Shell
    <3> QED
      BY <3>1 DEF Goes, IInv, RunnerInv, Working, ChecksLeft
  <2> QED
    BY <2>1, <2>2 DEF RunnerNext
<1>2. RunnerSpec => [][Sound]_verifyVars
  BY <1>1, InvCorrect, PTL DEF RunnerSpec
<1> QED
  BY <1>2 DEF SpawnsNothingAfterStop
=============================================================================
