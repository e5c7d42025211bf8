# Ixia: TLA+ models and proofs

Ixia is a terminal coding agent: a user types a request, a planner turns it into
a plan of steps, an agent loop lets a language model call tools for each step, a
verifier runs checks after each step, and a failed check sends the model back to
correct its work. This directory holds the TLA+ modules that model the core of
it, the TLC configurations that check them, and the TLAPS proofs about them.

All paths below are relative to `src/`, `packages/` to `src/packages/`.

- [The system](#the-system)
- [What is modelled, and how](#what-is-modelled-and-how)
- [What the runs check](#what-the-runs-check)
- [Fairness](#fairness)
- [What is proved](#what-is-proved)
- [Where the documentation and the code differ](#where-the-documentation-and-the-code-differ)
- [What is not modelled](#what-is-not-modelled)
- [Plan](#plan)

## The system

Ixia is one Node.js process; nothing runs in parallel, everything interleaves at
`await` and `yield`. The event streams are async generators, so the consumer of
a stream decides when the next piece of it runs, and may leave it.

| Component | State it keeps | Operations | Talks to |
|---|---|---|---|
| `AgentRuntime` (`packages/agent/src/runtime`) | `state`, `activeAbortController`, `activePlanState`, and the locals of every `runStream` call | `runStream`, `run`, `cancel` | planner, agent loop, verifier, context builder, conversation; driven by the UI |
| `AgentLoop`, `ToolCallHandler` (`packages/agent/src/loop`) | iteration and tool call counters, collected calls | `run`, `handle` | provider (stream), tool executor (await), conversation (append) |
| `PlanState` (`packages/planner/src/state`) | the plan, replaced by each method | `start`, `startStep`, `completeStep`, `skipStep`, `blockStep`, `failStep`, `addStep`, `updateStep`, `complete`, `cancel`, `fail`, `getNextExecutableStep` | validator |
| `PlanValidator`, `PlanGenerator`, `PlanParser`, policies, `PlannerService` | none | `validate`, `generate`, `parse`, `generatePlan` | provider |
| `VerificationRunner`, policies, `FailureAnalyzer`, `Verifier` | none | `runCheck`, `runAll`, `selectChecks`, `analyze` | shell service |
| `ProcessExecutor`, `ShellService`, `execute_command` | one child process, two timers, output buffers per call | `execute` | operating system, abort signals |
| `ToolRegistry`, `ToolValidator`, `ToolExecutor` | the registered tools | `register`, `execute` | tools |
| `ConversationManager` | `messages`, `state` | `send`, `clear`, `addMessage`, `getMessages` | provider |
| `GroqProvider`, adapter | tool call fragments of one stream | `stream`, `generate` | network |
| `RepositoryContextBuilder`, `ContextCache`, discovery, budget | cached discovery and structure with timestamps | `build`, `get`, `set`, `clear` | file system |
| `FileSystemService`, `FileSearchService`, tools | none | read, write, edit, list, search | file system |
| `InteractiveScreen`, slash commands, `cli.ts` | entries, status, the current stream | submit, Ctrl+C, commands | agent runtime |

### Hard behaviours, and what makes each component correct

**AgentRuntime.** The lock against overlapping runs is a test of `state`, and
`state` is written by the run, by `cancel()`, and by runs that are still
unwinding. `cancel()` may arrive at any suspension point, changes the plan under
the run's feet, and is called by the UI while the old stream is still consumed.
A run crosses dozens of suspension points with breaks on three nested levels
(steps, recovery attempts, checks). Correct means: one run at a time; `cancel()`
reaches it; an aborted run starts nothing more; steps follow their dependencies
and stop at the first trouble; nothing is reported done without evidence; the
verdict told to the caller agrees with the plan; the runtime becomes free again
on every path, exceptions and abandoned streams included; every run ends.

**AgentLoop.** Appends to a history that later requests send to the provider.
An abort, an error or a limit may end a turn at any point between the assistant
message that announces tool calls and the tool messages that answer them. Correct
means: the history stays a conversation a provider accepts, the limits hold as a
whole and not per call, an aborted loop says nothing more, and the loop ends.

**PlanState.** Eleven methods callable in any order, some of which assert that
the plan is not terminal and some of which do not; two rewrite the dependency
graph. Correct means: the graph stays acyclic and the plan never wedges on its
dependencies. Both hold of ids without spaces around them, and both fail of others: the
validator trims ids in some places and not in others. That a terminal plan stays as it
is, as the documentation has it, is not so.

**ProcessExecutor.** Exit, error, timeout, abort and the output limit race to
settle one promise, and a second timer escalates the kill. Correct means: the result
is that of the process, and nothing is left behind it but what `kill` cannot reach.

**VerificationRunner.** Turns exit codes, signals, timeouts and missing programs
into passed, failed or blocked. Correct means: nothing passes that was skipped, cut
off, timed out or ended with an error. A death by a signal passes, against the
documentation.

**ConversationManager.** A status lock around a generator, and a `clear()` that
ignores it. Correct means: at most one send, and a list no cleared send writes to.

**ContextCache, discovery, search.** Walks that are awaited entry by entry while
files come and go or cannot be read, links that lead in circles, and one cache for
concurrent calls. Correct means: no answer older than the time to live, limits kept, and
an answer that does not say it was cut short has everything that was there all along,
except what it could not read or does not look into, of which it says nothing.

**The deciding parts** (plan parser and validator, verification policy, failure
analyzer, provider stream, line ranges) keep no state from one call to the next, but
each has an order of cases, defaults and a boundary in it, and two have a state of
their own while they work: the colours and the path of the search for cycles, and the
calls that the stream puts together while it may still fail or be left. Correct means:
they agree with a definition of what they decide that does not follow their order.

**InteractiveScreen.** Two streams may be consumed at once after Ctrl+C, with one
set of status flags. Correct means: the prompt comes back, nothing is shown as under way
when no stream is open, and no tool or check is shown as running that is not. The flags
do not always describe the newest request: the finally block of the old stream resets
them under the new one, and the models allow it.

`PROJECT.json` lists each hazard at its source line with the properties that
would catch it, or with the reason why no property does.

## What is modelled, and how

| Module | Models | Uses |
|---|---|---|
| `PlanModel` | the plan data model, what the validator accepts, every `PlanState` method as a guard `MayX` and a result | |
| `PlanState` | one plan under an arbitrary client | `PlanModel` |
| `AgentRuntime` | the runtime object, any number of `runStream` calls, `cancel()`, abort signals, consumers that leave | `PlanModel`, `RuntimeContract` |
| `RuntimeContract` | the runtime as its callers see it, implemented by `AgentRuntime` | |
| `AgentLoop` | the agent loops on one conversation, with the tool call handler | |
| `LoopContract` | the abstract loop `AgentRuntime` relies on, implemented by `AgentLoop` | |
| `ProcessExecutor` | one call of the shell: promise, child process, timers, abort | |
| `VerificationRunner` | a verification: its checks one after another, each on a process | `ProcessExecutor` |
| `ConversationManager` | the message list, the status lock, the `send` generators | |
| `Session` | the interactive screen over the runtime or over the conversation manager | `ConversationManager`, `RuntimeContract` |
| `Workspace` | the files, the discovery, the context cache, `build`, the file search | |
| `PlanJudgement` | `parsePlanResponse` and `validate`, with the search for cycles step by step | `PlanModel` |
| `VerificationDecisions` | the verification policy and the failure analyzer | |
| `ProviderStream` | the provider's stream chunk by chunk: fragments to tool calls and events | |
| `FileLines` | `readFile`: the range of lines that is read | |
| `Decisions` | the four modules above, one of them at work at a time | `PlanJudgement`, `VerificationDecisions`, `ProviderStream`, `FileLines` |
| `MCPlanState`, `MCAgentRuntime`, `MCWorkspace` | symmetry sets, ids and a small workspace for TLC | |
| `MCDecisions` | the answers of a model, up to a bound, for TLC | `Decisions` |
| `MCClient`, `MCCallers`, `MCWork`, `MCServices` | two models in one run, one of them at work at a time | the modules they name |
| `PlanModelProofs`, `PlanStateProofs`, `AgentRuntimeProofs`, `AgentLoopProofs`, `ShellProofs`, `SessionProofs`, `WorkspaceProofs`, `DecisionProofs` | the proofs | |

### PlanModel and PlanState

A plan is a record: `order` is the array as a sequence of ids, `step`, `deps` are
the status and `dependencies` of each step, `status`, `current`, `version` are the
fields of the same names (`currentStepId` is `current`). Ids are unique in a
validated plan, so a lookup by id is a function application; `find` in array
order is `FirstOf`. `Trim` says of each id what it is without spaces around it, for
the validator trims ids (`plan-validator.ts:71`) and the rest of the code does not. Titles, descriptions, timestamps, metadata and error texts
are left out. A method that throws has changed nothing, because every method
throws before it assigns `this.plan`; so a call is `MayX(p) /\ plan' = X(p)`.

What the validator accepts is `Valid`: ids within the limit that are distinct when
trimmed (`IdsDistinct`), and dependencies on other steps of the plan, without a nonempty
set of steps each of which depends on a member of the set. The last is asked of the steps
without spaces around their ids only (`Searched`): the search goes from trimmed ids to
`stepMap` and `state`, and the keys of the first and the dependencies are not trimmed,
so that it sees no dependencies of the other steps and does not recognize them as
visited. Such ids come from clients of `PlanState` (`createPlanState`, `addStep`,
`updateStep`) only: `parsePlanResponse` trims the ids of a generated plan, so that
`AgentRuntime` and `PlanJudgement` assume that `Trim` is the identity. `PlanJudgement` has
the depth-first search of `plan-validator.ts` step by step, and the run `services` compares
it with `Valid`.

### AgentRuntime

The variables `state`, `active`, `activePlan` are `this.state`, the owner of
`this.activeAbortController`, and the run that created `this.activePlanState`;
`run[r]` holds the locals of one `runStream` call. An action is the code between
two suspension points, since a generator runs atomically between them; `pc` names
the suspension point. Suspension points between which no shared field is read or
written are merged.

What may happen at a suspension point is taken from what the code lets happen:

- Ctrl+C, timers and the caller's `AbortSignal` are macrotasks: they run while a
  generator is really waiting (provider, tool, check, UI);
- the consumer of a stream may call `cancel()` while handling any event, so
  `Cancel` is enabled everywhere; it changes the plan in `activePlanState`, which is
  never reset, and aborts the controller in `activeAbortController`;
- `Abandon` is the consumer leaving its `for await`: `return()` runs the finally
  block. It is possible wherever an event is being handled, or may be within the
  merged point;
- `PromptConsumers` states that a consumer drains its stream before anybody makes
  another call, as `run()` and the CLI do. Without it a second run may start while
  the first is suspended at its last event.

Actions follow `runStream` from top to bottom: `RunStream` (the lock, lines
136-173), `SkipPlanning`, `FailPlanning`, `GeneratePlan`, `AdoptPlan`,
`ClosePlanOnly` (planning, 175-260), `SelectStep`, `EndSteps` (the step loop and
what follows it), `StartTool`, `EndTool`, `LoopCancelled`, `LoopEnded`, `FailTurn`
(the agent loop as seen from outside, 290-320 and 632-662), `ChooseChecks`,
`StartCheck`, `EndCheck`, `EndChecks`, `StepVerdict`, `Recover`, `Correct`, `GiveUp`
(verification and recovery, 322-542), `ChooseFinalChecks`, `PlanVerdict` (564-620),
`Close` (the finally block, 663-671). A `PlanState` method that throws leaves
`runStream` through the finally block: `Attempt`.

`told` is the kind of the last event and `report` the verdict that `run()` folds
from the events (lines 693 on). `evidence` is history: what the checks have shown
of a step, or of the whole plan, since it was last worked on.

The agent loop is reduced to `LoopContract`: tool calls one at a time within the
budget, then one last event, which is `agent_cancelled` exactly when the loop
finds its signal aborted. The verifier is free to choose any number of checks up
to a bound and each check to pass, fail or be blocked, so any policy is covered.

`RuntimeContract` is what is left of all this for a caller: whether the runtime is
busy, the run whose controller it holds, and each run's progress by its events: it may
be cancelled, waits for one tool call or check at a time, and ends. `Seen` maps the
locals of a run to that; the points of the code that are `Inside` of a run look alike.
A detail that the mapping brings out is in `EndItem`: the end of a tool makes the runtime
busy again whoever has set `state` before, and only a run that is not cancelled reports it.

### AgentLoop

`history` is the message list of the `ConversationManager`; a message keeps its
role, the loop and iteration that wrote it, and a number. `loop[l]` holds the
locals of one `run`. The provider streams any number of tool calls up to a bound,
then ends or fails; a tool call always ends, since `ToolExecutor.execute` catches.
Several loops share the history, one after another, or overlapping after an abort.
Two things are left out that could spoil it. Nobody clears the conversation while a
cancelled loop still unwinds: `/clear` there would leave the result of a call that is
gone. And a throw outside of the `try` around a tool leaves its call unanswered: of
`JSON.stringify` on a result (`tool-call-handler.ts:40`), or of the lookup and the check
of the arguments (from `tool-executor.ts:58` on).

### ProcessExecutor and VerificationRunner

`call` is what `spawnCommand` closes over (flags, timers, byte counters) and the
outcome of its promise; `child` is the process: whether it lives, has exited, or has
closed its pipes, and what `kill` has done to it. Every callback is an action:
`SignalAborts`, `TimeoutFires`, `ForceKillFires`, `Data`, `Close`, and `SpawnFails` for the
`error` of a spawn; the `error` of a refused `kill` arrives within the action that
called `kill`, because node emits it there. `Terminate` is `terminateProcess`, with
the test of `child.killed` and the arming of the fallback timer in the code's order.
The operating system is external: a child may be deaf to SIGTERM (`~obeys`), out of
reach of `kill` (`protected`), or leave a descendant that keeps its pipes open
(`inherited`); a killed child may still choose its exit code. `PipesReleased` ends
the last. Bytes are counted, not kept.

`VerificationRunner` runs such calls one after another: `SkipCheck`,
`PassWithoutCommand`, `StartCommand`, `EndCommand`, `Return` are `runAll` and
`runCheck` from one await to the next. What the failure analyzer makes of a failure
is a choice here between blaming the environment and not; `VerificationDecisions`
says which. The records in `executed` carry, as history, how the process ended.

### ConversationManager and Session

`ConversationManager` has an action for each stretch of `send` between two
suspension points, and `Clear`. `Session` is `InteractiveScreen` on top: `mode` says
whether the screen was given a runtime, whether stdin is a terminal, and whether Ink
handles Ctrl+C itself. With a runtime, its actions conjoin those of
`RuntimeContract`; the detail is in `AgentRuntime`, which implements them. Without one,
the events come from `send`. The user types exit, clear or a request, or presses
Ctrl+C, whenever the prompt takes it. A generator and the `for await` that consumes
it run as one between two awaits of the provider, a tool or a check, so no key is
handled in between (`Quiet`). Of the transcript those entries are kept that are
changed later: the assistant's text, tools, checks. They are kept as a set: the code
finds them by their id and never by their place, so order and repetition decide
nothing.

### Workspace

Directories and links are constants, files come and go (`Touch`). A job is a call of
`RepositoryContextBuilder.build` or of `FileSearchService.search`; the two share the
files only, and a behaviour has one kind of them. A walk takes one entry at a time; what
its nested loops have listed and not yet looked at is the set of paths `pending`, of which
those of the directory walked now are the longest. A directory is listed when it is
entered. Discovery goes in alphabetical order, follows links that stay inside, enters
directories down to the depth this build asks for (`Depths`), and a later build takes what
is cached, whatever depth it asks for; the search goes in any order, for it does not sort,
and follows no link. `cache` is the entry of the `ContextCache` with its age; `Tick` is
time. `seen` is history: every state each file had since the walk began.

Any `readdir` and any opening of a file may fail (`Entered`, `Opened`, `Scan`); both walks
go on and say nothing. What could not be read is kept in `unread`, as history. A file may
be `opaque`: one that matches, and that the search does not look into because of its
extension, its size or a null byte in it (`file-search.service.ts:152`, `:164`, `:176`).
`MaxChanges` bounds the changes of files and the failing reads together. After the
discovery, `build` reads configuration files and a README, and puts an answer together;
that is one step, `BuildEnds`, for nothing of it is kept and no property is about it.

### The decisions

`PlanJudgement` follows `PlanGenerator.generate` from the model's text on. `Receive`
fills in the defaults and makes the checks that come before the search, which run
without an await. The recursive `checkCycle` is a machine with the code's own two
pieces of state: `colour` is the map `state`, `path` is `pathStack`, which is also the
stack of open calls. `Begin` and `Descend` are its calls, `FindCycle` its throw, `Leave`
its return. A plan lists its steps and their dependencies in some order; the search
may take them in any. `Usable` is the reference, and does not search.

`ProviderStream` has an action for each turn of the loop over chunks (a chunk with both
text and fragments is a text and then its fragments), for the rejection of `create`,
the throw of the stream, the loop over the collected calls, and a consumer that leaves
at an event. A piece of arguments is known by its place in the stream.

`VerificationDecisions` has `discoverChecks` and `selectChecks` with the words and file
names the regular expressions tell apart as members of small sets, and `analyze` with
the signs it looks for in an output. A check is its type, for no kind of project offers
two of one type (`ProjectOffers` proves it); a selection is a set of places in the list
of what was discovered, so the order in which a selection is run is left out.
`FileLines` has the defaults and the `slice` of `readFile`.

`Decisions` puts them side by side: a behaviour is one of them at work on a question.
Recursive operators occur in `MCDecisions` only, to list the answers for TLC.

## What the runs check

| Run | Question | Bounds | Distinct states |
|---|---|---|---|
| `client` | Does any sequence of calls break a plan? Does the screen tell the truth, and does the prompt come back? | 4 ids, one of them another with spaces, plans of up to 3 steps, 2 calls (`MaxVersion` 3); 2 requests, 1 check id, 1 tool call a run | 232 thousand |
| `runtime` | Is one run correct, whatever aborts, fails or leaves? | 2 steps, 2 checks, 2 recovery attempts, 2 tool calls | 206 thousand |
| `callers` | Does the lock hold for callers that drain and do not cancel? Is the runtime free after runs of any callers, and do these see `RuntimeContract`? | 2 runs, 1 step, 1 check, 1 tool call, no recovery attempt | 1.4 million |
| `work` | Are the history, the limits and the contract of the loop kept? What do a verification and its processes come to, in every race? | 2 loops, 2 iterations, batches of 2, budget 3; 2 checks, 1 stream, limit of 1 byte, 2 written | 513 thousand |
| `services` | Do the deciding parts agree with what they are for? Are snapshots and searches of their time and complete? | plans of 3 steps, all words and signs, 5 chunks of 2 calls, 4 lines; 8 names, depths 1 and 3, 2 files, 2 results, 2 scanned, Ttl 1, 2 builds, 1 change or failed read | 1.7 million |

Three of the runs hold two models that share no variable, put side by side by `MCClient`,
`MCWork` and `MCServices`: a variable `part` says from the start which of them is at work,
and nothing happens to the other, which is in one state. That is a sum of two state
spaces and not a product, and no property gets easier by it: an invariant about a model
is about the behaviours of its part. The part that is idle is in a state with no step
that fairness could demand (a screen nobody has used, loops nobody has started, a
verification that has returned), so the fairness of each part can be stated as it is.
`MCCallers` has one runtime under two kinds of callers: free ones, and those that keep to
the prompt (`Prompt` is `AgentRuntime` with other constants), which `LockHolds` and
`CancelWorks` are about.

The properties:

- `client`: `PlanWellFormed`, `DependencyGraphValid` (dependencies on other steps of the
  plan, and no circle but through an id with spaces), `NeverWedged` (a plan that is not
  done and in no trouble has a step to execute, but for such ids);
  `ScreenFollowsStreams` (nothing thinks or streams without an open stream) and
  `RunningIsRunning` (nothing is shown as running that is not), `ConversationIntact` (one
  `send` at a time, answers after their questions), `PromptReturns` (liveness).
- `runtime`: `TypeOK` (budgets and attempts included), `StepsInDependencyOrder`,
  `StopsAtFirstTrouble`, `CompletedOnEvidence`, `LastEventAgreesWithPlan`,
  `ReportAgreesWithPlan`, `AbortStopsWork` (an action property), `RunEnds` (liveness). The
  two about the last event and the report are about runs nobody aborted: what a cancelled
  run tells is not covered.
- `callers`: `LockHolds` (`MutualExclusion` for callers like the prompt), `CancelWorks`
  (`CancelReachesRun`, for the same), `LockReleased`, `KeepsContract` (refinement of
  `RuntimeContract`).
- `work`: `BudgetKept` (both limits, and that a batch fits), `ResultsAnswerCalls`,
  `OnlyCancellationLeavesCalls`, `RequestsWellFormed`, `SilentAfterAbort`,
  `KeepsContract` (refinement of `LoopContract`), `LoopEnds` (liveness);
  `LeavesNothingBehind` (no live child, timer or listener after the end, but a child
  `kill` may not reach), `ResultIsAccurate` (output, truncation and reason are those of
  the process), `SpawnsNothingAfterStop`, `PassedOnEvidence` (a verdict `passed` has every
  check of the list behind it: each was looked at, none was skipped or stopped by the
  environment, and those with a command ran it, within its time and without an error
  code), `VerificationReturns` (liveness: it returns, or waits for ever for a command that
  nothing in the code can end).
- `services`: `PlansJudged` (accepted exactly if every step can be executed some time),
  `ChecksFit` (no step that names a check or says fix goes without it, none without a word
  of inspection goes without any, a final choice leaves out no suite, and mere inspection
  gets nothing), `FailuresBlamed`, `CallsAssembled` (calls whole, once, in order, in every
  state of the stream), `LinesRead` (what is reported is what was read; with a negative
  `endLine`, what is read instead); `SnapshotIsOfItsTime` (age, truth, completeness and
  limits of a snapshot) and `SearchIsHonest` (the same of a search), both but for what
  could not be read.

Why the bounds are enough. Two steps make one dependency and a step before and
after the one in trouble; two checks a first that passes and a second that fails,
is blocked, or is skipped by an abort; two attempts a correction that fails and
one that is the last; two tool calls one within and one at the limit. The plan starts
from every valid plan of up to three of the four ids, so that a cycle of three, a pair of
ids that differ by spaces and an insertion in the middle are there at once; two calls then
are one that rewrites the graph and one that acts on it. Two runs are enough for the lock,
because every action reads and writes the shared fields and the locals of one run. A
budget of 3 with batches of 2 lets the second batch exceed it. Two checks are one that
stops, fails or is skipped and one after it; a limit of one byte with two written has
output below, at and over the limit, in one chunk or two. Two requests are the old stream
and the new one of a Ctrl+C, and both leave entries with the same check id on the screen.
The workspace has links to its own root, one of them in an ignored directory, a link that
leaves, an ignored file, which the search looks into, more files than each limit, two depths, and two builds for a cache entry one writes and another
reads; searches keep nothing, so that one at a time stands for all. One change or failed
read is one at any moment of a walk; the theorems allow any number. Three steps have every
shape of cycle up to a triangle, and a plan of four steps is over the limit; two calls
interleave their fragments and a text in five chunks. The choice of checks and the blame
for failures are asked on all their questions. The theorems below remove these bounds for
the properties they name.

Symmetry is used in `callers` and `services` and in two of the runs that expect a
violation, never where liveness is checked. `CHECK_DEADLOCK FALSE` is right in every
configuration that has it: runs, loops and verifications come to an end, a question is
asked once, a session is left, and `MaxVersion` cuts the client of `PlanState` off.

Every property has a mutant in `PROJECT.json`: a plausible defect in a modelled
definition (`Mut...` operators beside the originals), under which TLC finds the
property violated.

## Fairness

`FairSpec` of `AgentRuntime` is `WF(RunStep(r))` for each run, that of `AgentLoop`
`WF(LoopStep(l))`
(`LoopFairness`). It says that a provider, a tool, a check and a consumer that are
waited for answer some time. Nothing is assumed of callers: no run has to start, be
aborted or be abandoned. The event loop justifies weak fairness, for no other code
can keep a resolved promise from continuing. That tools and checks end is an
assumption: `process-executor.ts` sets a timeout, but its SIGKILL fallback (lines
75-97) tests `child.killed`, which is already true after SIGTERM, so a command that
ignores SIGTERM is waited for. `StreamToolCall` is bounded by `MaxBatch`: the
provider's stream ends.

`ExecutorFairness` lets the event loop run what is due (a timer, an event, the
continuation of an await) and the operating system end a process that gets SIGKILL,
or SIGTERM if it does not ignore it. No program has to end by itself, to write, or to
release a pipe: `VerificationReturns` names those that nothing in the code can end
(`Stubborn`), and excuses them only if they go on for ever. The runner's own steps are weakly fair.

`SessionFairness` assumes that the stretches of a stream go on: weakly for what
is waited for, strongly for the end of a run, since a run may alternate between work
and tools (`RunEnds` shows that it ends). The exit timer fires when nothing clears it.
Nothing is assumed of the user.

## What is proved

TLAPS checks these for every value of the constants, from the named assumptions
`PlanAssumption`, `RuntimeAssumption`, `LoopAssumption`, `ExecutorAssumption`,
`RunnerAssumption`, `SessionAssumption`, `WorkspaceAssumption`, `JudgementAssumption`,
`StreamAssumption`, `LinesAssumption` (limits are naturals, null values are distinct
from proper ones, an answer has no more steps than there are ids), which TLC evaluates
in the runs. Every property a passing run checks is a theorem, but for the four of
liveness; `LockHolds` and `CancelWorks` are so as `LockExcludes` and `ControllerReaches`,
of a runtime whose constants say that its callers keep to the prompt.

The models never update two fields of one element in a single `EXCEPT`
(`![r].pc = .., ![r].doing = ..`): tlapm's translation for SMT loses the second update.
They give the element as a whole instead.

**PlanState** (`PlanStateProofs`): `TypeCorrect`, `GraphStaysValid`, `NeverWedges`.
The inductive invariant is `Sound` (well formed, and as valid as the validator sees to),
kept by every method: the lemmas of `PlanModelProofs`. The two methods that rewrite the
graph revalidate; inserting into the array needs `InsertCorrect` about sequences.
`GraphStaysValid` and `NeverWedges` say what that comes to in the presence of ids with
spaces: a circle of steps, or a plan stuck on its dependencies, has such an id in it. For
the first, a circle without one lies among the steps the search sees. For the second, the
set of pending steps, none with spaces, is taken as the set in `Acyclic`: one of them
depends on no pending step, so it is executable, so `find` finds it.

**AgentRuntime** (`AgentRuntimeProofs`): the invariant `IInv` says for each run by
itself

- `Placed`: which point of the code goes with which phase, current step and plan
  (while a step is worked on, verified or corrected, it is the one in progress;
  before a step is selected, no step is in trouble; a completed plan is at its end);
- `Verified`: what a verification has shown so far (no failure noted and checks
  left: no evidence; none left: evidence that all passed);
- `PlanInv`: the plan is `Sound`, in dependency order, has at most one step in
  trouble, and its completed steps have evidence.

`StepsInDependencyOrder` and `CompletedOnEvidence` are not inductive alone: that a
step may be completed at `verdict` depends on what `checks` left behind, and that
`SelectStep` keeps one trouble at most on what every way back to `select` left. Each
action is shown to be a `Legal` move of its run (one lemma per group of actions: the
new locals satisfy the invariant, and an aborted run starts nothing); the other runs
do not move; `Cancel` moves every run, and keeps the invariant because it changes a
plan's status only. From `IInv` follow `TypeCorrect`, `DependencyOrder`,
`FirstTrouble`, `DoneOnEvidence` and `AbortStops`, for any number of overlapping
runs, with `cancel()`, aborts and abandoned streams.

`StepShape` summarises what any step does to the shared fields: either the run ends
and leaves the runtime free, or it goes on and keeps it. `LockIsReleased` follows
without assumption. `LockExcludes` and `ControllerReaches` assume `~CancelCalls` and
`PromptConsumers`, and rest on `Owned`: a run that executes is the active one, and
`state` is busy or the run is at its last event. Both assumptions are needed: without
the first, the run `lock_lost` is a counterexample, and two runs let in beside each
other make one for `ControllerReaches`; without the second, a run that has set `state`
but not yet reached its finally block lets another in.

`ImplementsContract`: whatever happens inside of runs, callers see a behaviour of
`RuntimeContract`. It assumes nothing of callers, and needs little more of `IInv` than the types.
`StepShape` also says of each step whether it begins or ends a tool call or a check
(`ItemStep`, five actions), ends the run, or stays inside, where nothing is seen of it;
`ItemContract`, `RunContract`, `CallerContract` and `CancelContract` name the action of
the contract that each is. That an aborted run starts nothing, and that no run ends by
itself while a check is awaited, are guards of these actions, and so part of what is
shown. What is proved of `Session` thereby rests on the runtime as it is, and not on
a second model of it.

What a run tells of its plan: `LastEventRight` and
`ReportRight` add to `IInv` the invariant `AllTruthful`: while the plan of a run that
nobody aborted is worked on it is in progress; where the step loop breaks off it is
failed or blocked, with a step undone; at the last event, the event, the verdict and
the plan agree. The step that needs an argument is the exit of the loop with nothing
to select (`SomeStepLeft`): of a plan without trouble that is not done, the pending
steps have a member that depends on none of them, so its dependencies are all
completed and the loop would have selected it. Both theorems assume that one run is
called or that `cancel()` is not: with overlapping runs `cancel()` may change the
plan of a run whose signal it does not abort (`activePlanState` and
`activeAbortController` then belong to different runs). For a single run,
`Holding` shows that the run `cancel()` aborts is the one whose plan it cancels.

**AgentLoop** (`AgentLoopProofs`): `TypeCorrect`, `BudgetCorrect`, and
`ImplementsContract`: every step of the detailed loop is a step of `LoopContract` or
a stutter, so what `AgentRuntime` assumes of its loops is what `AgentLoop` does.
Of the conversation that any number of loops share: `ResultsCorrect`,
`CallsAnsweredCorrect`, `RequestsCorrect` and the action property `SilenceCorrect`. The
invariant `HInv` adds

- `TurnsKept`, for each loop: the history has no message of a later turn; in the tool phase
  it has the message with the turn's calls and exactly the results before `next`; a turn
  that is over has all of them, unless the loop was cancelled. This makes the next result
  the answer of a call that has none yet, although other loops write in between;
- `InTurn`, as long as nothing was aborted: one loop at most is active, and the calls of its
  turn and their results so far are the end of the history.

`StepKinds` sorts every step of a loop into four kinds (it writes nothing, a text, the
calls of a turn, or the next result), and each part of the invariant has one lemma over
these kinds. `RequestsWellFormed` needs its assumption: after an abort the successor of a
loop sends what that loop left without results, as the findings below say.

**ProcessExecutor** (`ShellProofs`): `ExecutorTypeCorrect`, `NothingLeft`,
`ResultsAccurate`, for commands one after another with any streams and
limits. `ExecutorInv` adds to the types what the callbacks keep between promise and
process: `Paired` (timers and the listener need a process; a settled promise has none
left but one that `kill` may not reach; a result comes from a closed process and never
from an aborted one), `Counted` (what was counted is what was written, up to the
limit), `Reasoned` (no signal and no fallback timer without a timeout, an abort or an
excess of output). `StopKeeps` covers every callback that calls `terminateProcess`;
`Goes` summarises what any callback may do to a promise.

**VerificationRunner** (`ShellProofs`): `ClientOfExecutor` shows that a
verification is a behaviour of `ProcessExecutor`, so the three theorems above hold of
it. `TypeCorrect`, `PassesOnEvidence` and `SpawnsNothing` hold for lists of checks of
any length, and rest on `Working` (a call is pending only while its check is next and
nothing has stopped the verification) and `Recorded` (what each recorded check stands
for; a skipped one for an abort).

**Session** (`SessionProofs`): `ScreenCorrect`, `RunningCorrect`, `ConversationCorrect`,
for any number of requests and checks. The screen's two properties are nearly inductive:
the handlers of a stream only touch its own entries, and a second stream may open while
the first goes on, so that each entry needs a stream of its own behind it. Four facts are added
in `SInv`: `OneSource` (a screen consumes runs or sends, never both), `NewRuns` (a run not yet
submitted awaits nothing and is not what `cancel()` reaches), `OneSend` (until a
clear meets a send under way, one send is active, the status says so, and the last
message is the one it is to answer) and `PromptHeld` (at a terminal a send holds the
prompt to its end, so that nothing can be typed that would clear or send). The last one
makes `disturbed` false there, which is the first line of `ConversationIntact`.

**Workspace** (`WorkspaceProofs`): `TypeCorrect`, `SnapshotCorrect`, `SearchCorrect`, for
every tree, with links that lead in circles, all limits, and any number of calls. A
walk is a list of places that is worked off, and the invariant `WInv` says of each walk
under way

- `Apart`: no pending path lies above another or above one found. It makes the result
  free of repetitions, and is kept because what replaces a directory lies below it;
- `Current`: the states the files have now are in the walk's history (`seen`);
- `Reached`: a path that is owed has been found, or a pending path lies above it, or one
  that could not be read does (`Hidden`). This
  is what completeness is when nothing is pending any more. `ListedOnTheWay` shows that
  a directory on the way lists the next one; `FileIsLast` that a file on the way is the
  end of it; and an entry that is passed over lies on the way to nothing that is owed,
  for `DiscoverablePaths` and `SearchablePaths` exclude what is ignored or too deep.

That the walk goes depth first and in which order is not used. A call that is `building`
has a finished walk, its own or the cache's, and the cache within its time has one too
(`CacheOK`); nothing else is needed of the cache, whoever writes it last. The test of
`MaxFiles` comes before a file is added, so the bound is strict until the end; that of
`maxResults` comes after, so that a search asked for no results may report one, and
`SearchIsHonest` says so.

**Decisions** (`DecisionProofs`), each for every value of its constants and everything
it may be given:

- `JudgedRight`: the search is exact. `JudgeInv` says of the search under way
  (`Searched`) that what is visited is closed under dependencies and has no cycle, that
  what is visiting is the path without repetitions, and that each step on the path
  depends on the next. That `Leave` keeps the first is `SinkAdded`: a step whose
  dependencies are all in a closed set without cycles adds none. That `FindCycle` is
  right is `PathClosed`: the rest of a path to which its last step goes back is a set of
  which every member depends on one, which is what `Acyclic` denies. `UsableMeans`
  ties `Usable`, which is said of plans, to the graph the search works on.
- `AssembledRight`: `StreamInv` keeps that each entry of the map is the whole of what was
  read of its call so far (`Whole`), that there is one entry for each call begun, in the
  order of their first fragments (`Collected`), and that the calls told are the first
  `told` entries in their order (`TellsFirst`). A failed stream told none because the
  calls are told when no chunk is left to throw.
- `ChosenRight`: `ProjectOffers` shows that whatever is discovered has no type twice; so
  the first of a type is the only one, and `find` and `filter` differ in nothing.
- `BlamedRight`: `FirstCategory` turns the list of what applies into the code's cascade of
  returns, by one lemma for each test (`NextLookedFor`); the rest is cases.
- `ReadRight`: by cases on the range, for files of any length.

Only model-checked: the liveness properties `RunEnds`, `LoopEnds`,
`VerificationReturns` and `PromptReturns`, for the prover does not handle fairness and
`ENABLED`. That the validator's search and the stream come to an end is not stated: each
step of the search colours a step or ends a call, each step of the stream reads a chunk
or tells a call.

## Where the documentation and the code differ

Seven runs check what a document promises and end with a counterexample.

| Run | Property | Promise | What the code does |
|---|---|---|---|
| `lock_lost` | `MutualExclusion` | "Concurrency locks prevent overlapping submissions while an agent run is active." (`docs/architecture/agent-loop.md:245`) | `cancel()` sets `state` to `cancelled` while the run still unwinds; the next `runStream` is let in beside it |
| `corrects_blocked` | `CorrectsOnlyFailures` | an environment failure blocks execution (`verification-and-self-correction.md:243`) | a re-verification that is blocked starts another correction |
| `never_escalates` | `TerminationEscalates` | a timeout escalates to SIGKILL after a second (`shell-tool.md:155`) | the fallback timer tests `child.killed`, which SIGTERM has already set |
| `cycle` | `CyclesRefused` | the validator's search detects every circle of dependencies (`planning-system.md:94`) | ids are trimmed where the search starts and not where it looks them up, so a circle through an id with spaces is accepted |
| `terminal` | `TerminalIsImmutable` | "Enforces terminal state immutability" (`planning-system.md:83`) | `cancel`, `fail` and `failStep` do not ask: a completed plan becomes cancelled or failed, and its steps failed |
| `exit_zero` | `PassedMeansExitZero` | passed means exit code 0, and signals are inspected (`verification-and-self-correction.md:132`, `:204`) | the exit code of a command that died by a signal is null, which `?? 0` turns into success (`verification-runner.ts:146`) |
| `changes` | `CodeChangesVerified` | a step that changes code gets typechecks and tests (`verification-and-self-correction.md:181`) | a step such as "patch the thread pool" counts as informational ("read" is in it, and patch is not among the verbs of change there), and gets no check |

Seen while modelling, and kept as prose. In the agent runtime and loop:

- `cancel()` between a verification and the plan's update makes `completeStep`,
  `blockStep` or `complete` throw out of `runStream`
  (against `verification-and-self-correction.md:393`);
- the finally block of an overlapped run clears the controller of the newer one, which
  `cancel()` then does not reach (against `agent-loop.md:74`);
- a cancellation during a tool call leaves recorded calls unanswered, and the next
  request sends them (against `agent-loop.md:218`; `OnlyCancellationLeavesCalls`
  states what does hold);
- an abort during the final verification of a plan leaves the plan `failed` rather
  than `cancelled`, and a finished run leaves `state` at `completed`, `failed` or
  `cancelled`, not `idle` as `verification-and-self-correction.md:393` says of a
  cancellation (`tests/agent.test.ts:478` expects `cancelled`).

In verification and the shell:

- a check without a command counts as passed, although passed means that "all required
  checks ran" (`verification-and-self-correction.md:132`); `PassedOnEvidence` asks of it
  only that it was looked at;
- a word that has a verb of change in it counts as one: a step that is to read an address
  ("add") is not informational;
- a `kill` that is refused rejects the promise with the child alive.

In the interface and the conversation:

- the screens are rendered without options, so Ink's own Ctrl+C unmounts them before
  a handler can cancel (against `agent-loop.md:244`);
- a stream that ends within the 50 ms of the exit timer takes the exit back;
- the SIGINT handler of `cli.ts:36` exits with success before the handler that
  cancels the run gets its turn;
- an input that is piped is handled while a request is processed, `/clear` included;
- entries of two runs share the ids of checks, and a status is set on both;
- a consumer that leaves `send` at its first two events leaves the status
  `generating`, which only `clear` repairs.

In the repository context and the file tools:

- `truncateString` appends its notice beyond the limit it is given (against
  `repository-context-engine.md:84`);
- `globToRegex` turns `**` into a pattern that does not cross directories;
- a directory skipped for its depth does not set `truncated`, and neither does a directory
  or file that cannot be read, nor a file the search does not look into (as
  `filesystem-intelligence.md:208` and `filesystem-search-files.test.ts:96` have it);
- an unreadable directory emits no `context_build_failed` (against
  `repository-context-engine.md:84`), only a failing `build` does;
- a cached discovery is used by a build that asks for another depth;
- a README below the top level may be the one that is read (against
  `repository-context-engine.md:241`);
- a slow discovery overwrites the entry of a newer one and survives `invalidate`;
- a negative `endLine` counts from the end of the file.

## What is not modelled

- Texts: prompts, formatting, titles, error messages, the keyword policy that chooses
  whether to plan. The models take every answer they could give. Of the texts the
  verification policy and the failure analyzer read, the words and signs their
  regular expressions tell apart are modelled.
- Rendering, logging, configuration: no state another part depends on.
- Detectors, ignore rules, structure and relevance scoring: pure functions of
  names and texts. `Workspace` takes their verdicts as constants.
- The tool registry, validator and executor: a map, a schema check and a `catch`
  around one await, which `AgentLoop` and `VerificationRunner` take as "a call always
  ends". The tools that write and edit files: one read and one write each, seen from
  `Workspace` as changes of a file.
- The two SIGINT handlers of one-shot mode and the slash commands that only print.
- The failure of one run is not followed into the process: a crash loses all state,
  nothing is persisted.

## Plan

Done: the modules and proofs above. What would come next, in this order:

1. The verdict of a run as part of `RuntimeContract`, from `LastEventRight`.
2. A contract of one check (passed, failed, blocked or skipped), with
   `VerificationRunner` shown to implement it, in place of the choices of `EndCheck` in
   `AgentRuntime`, which calls the runner check by check.
3. The order in which a selection of checks is run, if a check ever comes to depend on
   one before it.
