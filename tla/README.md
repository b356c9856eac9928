# Mantis skill engine: a TLA+ verification project

This directory models the engine of mantis-skill, a Go library that reads *skills*
(tools with functions, written in YAML) and executes them for an agent: it decides
whether a function may run, asks people for inputs, confirmations and approvals, runs
the function's operation, records it, and fires functions on messages, emails,
meetings and schedules. The models follow the code in `src/`; every definition that
stands for code is listed, with its lines, under `map` in `PROJECT.json`.

## 1. Inventory

Components, the state each keeps, its operations, and what makes it correct.

| Component | Source | State | Operations | Correct when | Module |
|---|---|---|---|---|---|
| Function call | `engine/yaml_defined_tool.go` 296-2570, 8509-9025 | local variables of `Call`; execution records, scoped cache, confirmation states, approval checkpoint (database) | `Call`, `executeOnFailureFunctions`, `executeMagicStringCallbacks`, `checkUserConfirmation`, `checkTeamApproval`, `handleRunOnlyIfError` | each call leaves one record, call rules hold, a consent is asked for and serves once, a cached output is that of a call that worked, every call returns | `FunctionCall` (partly) |
| Operations | `engine/yaml_defined_tool.go` 2800-8500 | step results, login, credentials, two goroutines and their channels | steps, lists, logins, retries of items and of the operation, self-fix, sessions | a step that was done is not done again by a retry, none is left out, results are in order, everything ends | `Operations` (partly) |
| Tool engine | `engine/tool_engine.go` | tools by name under a lock with timeouts; executed dependencies | load and reload tools, `ExecuteDependencies` | needs in order, each for this call where it must be, stop at the first that asks for something | `Dependencies` (partly) |
| Parser | `skill/parser.go`, `skill/models.go` | none | parse, validate | the calls an accepted skill leads to find what the checks promise | `Skills`, `SkillRuns` (partly) |
| Cron triggers | `engine/triggers.go` 318-435, 585-715, 852-912 | `activeExecutions`, one `ExecutionInfo` per execution | decide, kill with timeout, register, unregister, manual firing | the strategy's limit; no entry for what ended; a firing settles | `CronConcurrency` |
| Message and meeting triggers | `engine/triggers.go` 125-170, 246-275, 440-582, 718-800, `engine/triggers_handler.go` | `TriggerQueue.items`, `notifyCh`, two contexts | `Add`, `GetNext`, the reader's select, `ProcessMessage`, `ProcessMeetingEvent` | in order, once, none left; each message fires the triggers meant for its channel and sender | `TriggerQueue`, `Mailbox` |
| Workflow service | `engine/workflow_service.go`, `workflow_service_sync.go`, `workflow_manager.go` | table of workflows with steps, a copy in the bridge schema | generate, merge, feedback, synchronise, categorise | no workflow without steps; the last one to speak on a workflow is heard, a person before a model | `Workflows` |
| Initiate workflow | `engine/yaml_defined_tool_initiate_workflow.go` | pool, channel, results; table of users | plain steps, forEach one by one or with workers, create users | each item initiated once per try; everything ends | `Initiation` |
| Agentic inference, input fulfilment | `engine/input_fulfiller.go`, `engine/agentic_inference.go` | results of the call, semaphore, one conversation per message | `FulfillInputs`, `processAsyncInputs`, the think-act loop | fulfilled inputs have values, a value answers the question of its input, every call returns | `Inputs` (partly) |
| Execution tracker | `engine/execution_tracker.go` | tables of executions, step results, function cache | `RecordExecution`, `HasExecuted...`, scoped cache, step results | counts the records the status filter says | in `FunctionCall` (partly) |
| Callbacks | `engine/callback.go` | inputs a callback is given again; hooks | cache inputs, register hooks | hooks end | in `SkillRuns` (partly) |
| Coordinator async jobs | `engine/models/coordinator_state.go` | jobs under a mutex | add, complete, wait | no job is lost | not modelled |
| Browser queue | `engine/browser_queue.go` | a channel of requests, workers | enqueue, work, close | each request is answered | not modelled |
| Human responses, workflow events | `engine/human_response_handler.go`, `engine/models/workflow_event_models.go` | pending questions, kept by the host | ask, answer | an answer reaches its question | not modelled |
| Temporary files, KPIs | `engine/files`, `engine/kpi_materializer.go` | files, aggregates | create, clean up; materialise | nothing in use is removed | not modelled |
| Text processing | `engine/variable_replacer.go`, `output_formatter.go`, `expression_evaluator.go`, `engine/sanitizer`, `skill/helpers.go` | none | replace, format, evaluate | pure data | not modelled |

How they interact. A tool's YAML passes the parser or is refused; its workflows are
synchronised into the database. A message enters the trigger queue; the reader chooses
the triggers it fires and calls each function (`YAMLDefinedTool.Call`). The cron library
calls the same function through the concurrency control. `Call` asks the tool engine to
execute dependencies, which are calls themselves, asks the input fulfiller for inputs,
which may call functions or a language model, reads and writes the execution tracker,
runs the operation, which may initiate workflows for other users, executes callbacks and
hooks, and hands control back to the coordinator with a *magic string* whenever it needs
a person; the next message of that person makes a new call. Nothing survives in memory
between the two: consent lives in the database.

What is hard here:

- *Interleaving.* Handlers are goroutines: two calls of a function race on records,
  confirmations and the cache; cron firings race between a decision under a read lock
  and a registration under the write lock; a killer races with its victim's clean-up;
  inferences share a conversation; requests write one workflow row by row; two
  goroutines work through one list and may both log in again.
- *Several endings.* `Call` has some forty returns. Status, `executionRecorded` and the
  hooks are set on the way, and a deferred function acts on what they are at the end.
- *Consent over several calls.* Approval and confirmation are each given between two
  calls, each checked at its own step and used up when seen.
- *Loops inside loops.* Retry inside a `goto` loop (`reRunIf`), items inside steps inside
  tries, turns inside inferences, hooks that fire hooks.
- *Static against dynamic.* The parser promises what only a run can break: a cycle, a
  reference to a function that was not called, an input nobody gives.
- *Failure.* Each database call may fail; some failures are logged, some end the call.
- *Timeouts and cancellation.* A kill that times out unregisters a running execution; a
  context ends while a producer, its workers and a collector wait for each other.

## 2. Modules

| Module | Stands for | Proofs |
|---|---|---|
| `FunctionCall` | several calls of one function, sharing its stores | `FunctionCallProofs` |
| `Operations` | one operation, tried twice: steps, lists, logins | `OperationsProofs` |
| `Dependencies` | the needs of functions: nested calls for one message | `DependenciesProofs` |
| `Skills` | what the parser accepts | `SkillRunsProofs` |
| `SkillRuns` | the calls an accepted skill leads to (extends `Skills`) | `SkillRunsProofs` |
| `CronConcurrency` | firings of one function's time-based triggers | `TriggersProofs` |
| `TriggerQueue` | queue, its reader, choice of triggers, meetings | `TriggersProofs` |
| `Mailbox` | abstract: what a queue with one reader promises | refined by `TriggerQueue` |
| `Workflows` | concurrent requests on the stored workflows | `WorkflowsProofs` |
| `Initiation` | one operation that initiates workflows, with its pool | `InitiationProofs` |
| `Inputs` | the inputs of a function, their inference | `InputsProofs` |
| `MC...` | instances for TLC: what the runs explore | |

The modules meet at the operation and the call: what is a state machine in one is a
choice over its outcomes in another. `FunctionCall!Needs` is a choice over the results of
`Dependencies`, `FunctionCall!Fulfil` over those of `Inputs`, `FunctionCall!Execute` over
those of `Operations` and `Initiation`; `TriggerQueue`'s handler is one call; `SkillRuns`
makes a call of every function of a tool, whose rules and operation are choices again.

Definitions named `...Bug` are mutated forms of the definition that follows them. No
specification uses them; putting one in the place of the definition it precedes must
break the property `PROJECT.json` names under `mutants`, which shows that the property
depends on the code the definition stands for.

### FunctionCall

`call[c]` holds the local variables of one execution of `Call`: `pc` is the stage it has
reached (the code's "Step 0" to "Step 15"), `status`, `stored` (`executionRecorded`),
`hash` (`inputsHash`), `tries` (`retryCount`), `reRuns` (`reRunIfRetryCount`), `ret` (the
error returned). `rows`, `cache`, `confirms` and `checkpoint` are the database. One
action is one stage, cut wherever the code reads or writes what other calls share, so
that a check and the act that relies on it interleave with other calls exactly where
they do in the code. Dependencies, fulfilled inputs, language-model answers and the
operation itself are choices over every outcome the code tells apart. `Deferred` is the
deferred function: it runs after every return, a panic included.

`fn` is the function called: which gates its YAML configures, and the conditions of the
run (which faults happen, how many calls there are and how many at a time). Making these
a variable chosen by `Init` lets one run explore many configurations.

The coordinator (`CreateCheckpoint`) and the team (`Grant`) are outside the repository and
modelled from how `checkTeamApproval` uses the checkpoint; `ConfirmationExpires` and
`CacheExpires` are time.

### CronConcurrency

`active` is `activeExecutions[functionKey]`. A firing goes through `check` (shouldExecute,
read lock), `verify` (findExecution), `cancel` and `await` (killExecution), `register`
(write lock), `running`, `closing` (DoneCh closed, not yet unregistered). `cancelled` and
`finished` are the contexts and `DoneCh`s. A handler never has to return, nor to obey its
context. `overlapped` is a history variable: it tells behaviours in which decisions
overlapped from those in which they did not, for what the strategies promise holds only
in the latter.

### TriggerQueue and Mailbox

`items` and `notified` are the queue and its one-place channel; `place` is the reader in its
select, in `GetNext`, or in `ProcessMessage`, one trigger per step (`next`). `Selects` is the
code's chain of exclusions, and `Audience` the table of trigger types in `doc/specification.md`
that it is compared with. `Mailbox` says what a queue is for, without a channel, a
timer or a context; `InOrder` and `NoneLeft` are its specification under the refinement
mapping items, current, handled, (place = "gone").

### Dependencies

A need that is a function is called on the goroutine of its caller, so the calls in
progress are a `stack` of frames, one per execution of `Call` with its loop over the needs:
`pos` is the need being looked at, `missing` the map of needs to execute, decided once on
entry. `rows` is the newest record of each function for the message; `sending` counts the
goroutines that send a message to the user. System functions run inside the frame. What a
call does after its needs is `FunctionCall`'s subject and here one step, `Operate`. It ends in
one of five ways: it runs, is skipped or fails and is recorded (`Runs`), it fails without a
record (`Breaks`), it waits for a person and says so in a text that callers do not know
(`Reminds`), it asks in one they know (`Asks`), or it ends in an error (`Errs`), which is also
what a question of its condition or of an onSuccess function comes back as. Every one of these
may leave records of the functions its callbacks and hooks call (`Leaves`). A result is text, a
*special* text (one of the three of `utils/special_returns.go`) or an error; `Resume` is what the
caller's loop makes of it. So a caller goes on after `Reminds`, as the code does
(`yaml_defined_tool.go:1178`, `tool_engine.go:1645`).

`ended` and `asked` are history variables: the needs that ended since the frame was
entered, and whether anything in the stack asked for something in a special text. No guard reads them.

`tool` is the configuration: the graph of needs, which functions are system functions, have
a cache field, have onFailure functions or are called by callbacks, which tool each belongs to
(`home`), and whether database calls fail. Needs may form cycles through several tools: the
parser looks for them inside each tool only. Left out: needs written `tool.function`, the needs
of functions that callbacks call (their records are what others see of them), reRunIf over the
whole function and panics; calls for the same message at the same time; functions that only a
workflow may start.

### Operations

The loop of `Call` that tries an operation twice, and the operations on steps it tries:
api_call, db, terminal, code, gdrive and desktop. `main` holds the loops of the call (try,
step, item), `runner` the item each goroutine is at, `results` is `stepResults`, which
survives a failed try, `queue` and `answers` are the two channels of a list worked through
by two goroutines (`workChan`, `resultChan`), `auth` the credentials that were loaded and
how often each try has logged in again, `stored` the repositories of cookies and tokens. `Each` says what the code makes of a step's list: api_call works through it
with two goroutines unless a condition, a wait or a skip of the list makes it go one by one, the
others one by one, and a terminal step is executed once, for `executeTerminalOperation` never
looks at `forEach`.
An action is the work between two answers of the outside world. A result is the list of
items it was obtained for, so a property can tell which items are missing, doubled or out
of order; parameters and outputs are left out. `log` is history: how often each item was
executed, which were excused by a condition, whether a goroutine panicked, whether a login
was repeated.

What goes wrong is part of an operation's configuration (`faults`): errors, a busy service,
an answer that denies access or is a login page, prose instead of an output, a panic, the
end of the context, parameters that cannot be resolved.

### Workflows

`flow` is the table of workflows, `bridge` says whose steps the copy in the bridge schema
has, `request` the local variables of each request: one to generate a workflow (which is
merged into the one of its category if there is one), feedback of a person, the
synchronisation of a tool's YAML, a categorisation. A step of a workflow is a row that
knows who wrote it and its place. Each request reads the steps, deletes them one by one
and adds its own one by one, so requests interleave between any two rows; each write may
fail. The language model's answers are named for what the code tells apart (`Answers`) and
asked for again up to three times. `word` and `human` are history: whose steps a workflow
is to have, and which ones a person has spoken on.

### Initiation

`op` is the operation (try, step, the item of a list worked through in sequence), `pool`
the workers, channel and results of each try's parallel list; workers of a try that was
cancelled may outlive it. A goroutine that initiates a workflow looks a user up, creates
him, and hands a message to the host, each a step of its own, for two items may name the
same new user. `users` is the table of users, `started` counts initiations per item.

### Skills and SkillRuns

`Skills` is the parser, reduced to the checks that look at more than one field: what params,
conditions and inputs may refer to, cycles, reachability, orphans, what may be private,
triggers of workflows, hooks. `Accepted` is their conjunction. The parser's own graph
algorithms (a depth-first search, a transitive closure) are modelled by what they compute:
`Reach(E, a)` is the least set that the edges `E` lead to from `a`, which is also what proofs
need to know of it. What a condition may refer to (`DepsOf`) is as narrow as in the code: the
closure of needs is over the functions of the tool, so a shared function counts only where it
is itself a need.
`SkillRuns` first parses a skill (`Parse`), then makes the calls an accepted one leads to:
`stack` holds the calls in progress on one goroutine, each in a stage of its lists (needs,
inputs, onSuccess, ...), `rows` the newest record of each function for the message, `cache`
the inputs callbacks are given again, `flow` and `coming` workflows, `hooks` the hooks a
client has registered. So what the parser checks before anything runs is compared with
what a run does. A function named in a list is looked for in the caller's tool first. `short` is
a history variable: the functions of the tool that returned, or were recorded as skipped by
their caller, before their needs were met. Skills in which a function has the name of a system
function are left out: the parser and the engine take the one for the other.

### Inputs

`FulfillInputs`: the caller works through the inputs of every origin but inference in order
(`phase` "sync", "retry" for inference as strategy of onError), then starts a goroutine for
each of origin inference (`spawn`), of which `MaxAsync` may hold the semaphore, and waits.
`infer` is the inference of each input: it resets the conversation of the message if need
be, begins it, asks the model in turns, may call tools, and reads the answer. `thread` is
whose question the conversation begins with, and a value is kept as the input whose
question it answers; that is what lets a property see a mix-up. `lone` is history: the
inputs whose inference had no other beside it.

## 3. Runs

| Run | Explores | Shows |
|---|---|---|
| `Calls` | all configurations of `AllFunctions` (gates, rules and filters, consents, caches, reRunIf, faults), up to four calls | types; one record per call and none lost; records before callbacks; honest cache; rules; consents |
| `CallFinishes` | a function with everything that loops or waits | each started call returns |
| `Operation` | operations of each kind, with what may fail, tried twice; lists by one goroutine and by two; logins with expired credentials | what was done is not repeated, nothing is left out (but the list of a terminal step, which the code does not read), results in order, all ends |
| `Dependencies` | four functions in diamonds of needs (params, cache field, shared tool, onFailure, faults), around system functions, and with a need that a callback of another calls, called twice | needs are executed before the function and for this call; questions in a special text stop the stack and come out; each call returns |
| `SkillRuns` | some 1,800 skills of two to four functions: every way to call one that calls back, params and conditions that refer to earlier functions, hooks, workflows started for functions of every trigger | what the parser accepts does not nest unless through a call it does not follow, and finds what it refers to |
| `Cron` | three firings, scheduled or manual, any strategies, limit 2 | registry, kills, limits while decisions do not overlap, every firing settles |
| `CronSkipRace` | two firings of a skip trigger | both run (a finding) |
| `QueueDelivers` | three messages of three kinds, a meeting, eight triggers | the queue implements `Mailbox` with its fairness; each message fires what the documented table means for its channel, sender and phase, and nothing for another channel or sender |
| `Workflows` | two requests of any kind, two categories, two steps each, every answer and failing write | no workflow without steps; the last word, and a person's, is kept |
| `Initiation` | plain steps and lists of up to three items, two workers, a channel of one, users there, new, named twice, missing | each item once per try and all of them on success; everything ends |
| `Inputs` | some fifty lists of up to three inputs, with a conversation left behind or none | values belong to their questions when inferences run alone; fulfilled means values; each call returns |
| `InferenceMixup` | the same lists | concurrent inferences give one input the answer to another's question (a finding) |

Bounds. *Calls*: a race needs two concurrent calls; a consent needs one call to ask, one
to run, one to find it used up and, with both consents, one more. Two inputs tell "the
same inputs" from "other inputs", which is all a hash is asked. One callback per list
and one round of reRunIf (two in `CallFinishes`) show each loop taken, repeated and left.
*Operation*: lists of three items have a first, a last and one between; an item is repeated
once (3 in the code) and a login once (2 in the code), enough for a repetition to succeed
and to be spent; two goroutines are what the code has. *Dependencies*: four functions make a
diamond, the smallest graph in which a need is met by another caller, and a stack of three;
a second call finds what the first one left; the run has 502,339 states (`Operation` has 380,105, `QueueDelivers` 175,824). Its instances
are acyclic, as `Settles` needs. *SkillRuns*: three functions make every cycle
that has a caller outside it; a stack of four is one more than there are functions, so a
nesting shows; hooks are refused at depth two (ten in the code), and no chain of hooks
through two functions is longer without repeating one; with this the run has 464,951 states.
*Cron*: a killer, its victim and a
third firing that comes between them; limit 2 so that "full" differs from "not empty".
*Queue*: two messages share a notification while a third is handled. *Workflows*: races are
between two requests; two rows let one be deleted and one be left; three attempts as in
the code. *Initiation*: a channel of one place fills with three items and two workers; two
tries as in the code. *Inputs*: two goroutines and a third input that waits for the
semaphore (ten in the code); two turns and two attempts show each repeated and spent.

The arrival of firings, messages and calls is bounded by the sets `Execs`, `Messages`,
`Meetings`, `Calls`, `Requests` and by `maxCalls`, `maxActive`, `MaxInvocations`, `MaxCalls`;
the `AllDone` and `Over` actions let a bounded instance stop. `QueueDelivers` checks no
deadlock: once the context is done and all messages are added the reader is gone and
nothing is left to happen.

Fairness. `FairSpec` of `FunctionCall` is weak fairness of each call's own step: the Go
scheduler runs goroutines, and databases and models answer (the code gives their
contexts deadlines). No fairness is assumed of calls being made, approvals or time.
`Spec` of `Operations` has weak fairness of the call's loop and of each goroutine, for the
same reason; nothing makes the context end. `FairSpec` of `CronConcurrency` is weak fairness
of the wrapper's steps, the kill timer included, and none of handlers or arrivals. `FairQueueSpec`
of `TriggerQueue` is weak fairness of the reader; handlers return, as `CallFinishes` shows of
a call; nothing is assumed of `Add` or of the context. `FairSpec` of `Dependencies` is weak
fairness of the one goroutine that works on the stack; messages to the user may never be
sent, and nobody has to call. `FairSpec` of `Initiation` and of `Inputs` is weak fairness of
each goroutine; nobody has to cancel. `Workflows` and `SkillRuns` are checked for safety only:
the first has no loop but counted ones, and in the second nesting without end is itself the
question.

## 4. Properties worth a word

- `RecordedAtMostOnce`, `NoneLost`: three places record a call and set
  `executionRecorded`; one of them sets it without recording. At most one record holds
  under every fault; "none lost" holds but for exactly that one ending.
- `RuleKept`: the rule is about records, not runs. Two sequential calls may both start
  the operation, but then one of them left a record the filter does not count. It is
  stated for calls one after the other, because the check and the record are apart.
- `Consented`, `OneTimeConsent`: relate a call to the *other* call that asked for its
  confirmation or approval, through stores that both change.
- `NotRepeated`, `NothingLeftOut`: one says that a retry does not do what was done, the
  other that it does what was not; results kept between tries decide both, and the second
  one names the lists for which the code gives it up.
- `Ends`: two goroutines, a collector that counts answers, and a context. It names the one
  way not to end: a goroutine that panics never answers for its own item.
- `HiddenWasCancelled`: a kill that times out removes a running execution from the
  registry; whatever is not in the registry and runs was told to stop.
- `SerialBound`, `SerialSkip`: the strategies' promises, under the weakest condition we
  found: no two firings between decision and registration, and none passing while a
  clean-up is between closing `DoneCh` and unregistering.
- `NoneLeft`: several messages share one notification, so delivery rests on the timer.
- `NeedsMet`, `NeedsAnswered`: the loop decides once what it executes and asks the records
  twice; both looks see records of other calls for the message, and of callbacks. The properties
  relate what a frame has seen happen since it began to what the records say when it operates.
  `NeedsAnswered` is about questions in a special text: a caller does operate while a need waits
  for an approval asked for earlier (section 6), so nothing is claimed of those.
- `QuestionsSurface`: a question in a special text asked at the bottom must pass every loop
  above it untouched, at any depth, while each of them has needs left; and the outermost call
  returns such a text only then.
- `FiresItsAudience`: the code's two chains of exclusions against the documentation's table,
  kept apart from them (`Audience`). What the code fires against that table is exempt by name.
- `NoNesting`, `RefsAnswered`, `ParamsResolve`, `HooksWarned`, `GivenOffered`: each says what
  a check of the parser is worth at run time, with its exact exceptions: the calls the
  search for cycles does not follow, needs that returned before their own needs, outputs
  nobody gave, hooks the static scan cannot see, types only known at run time.
- `NeverEmptied`: requests delete and add rows of the same workflow without a transaction,
  and still it is never left without steps, because nobody deletes a row he has not read.
  `LastWord` says more, for requests one after the other.
- `OnceEach`, `Drains`: a pool that is cancelled at any point, with a second try started
  while workers of the first may still be at work.
- `AnswersAlone`, `NoneMissing`: an inference inherits whatever conversation an earlier one
  left; which inputs have values when the call says so depends on optional inputs, retries
  and goroutines together.

## 5. Proofs

TLAPS proves, for all values of the constants:

| Theorem | Statement |
|---|---|
| `FunctionCallProofs!TypeCorrect` | `Spec => []TypeOK` |
| `FunctionCallProofs!AtMostOneRecord` | `Spec => []RecordedAtMostOnce` |
| `FunctionCallProofs!RecordsKept` | `Spec => []NoneLost` |
| `FunctionCallProofs!ParentRecorded` | `Spec => []ParentFirst` |
| `FunctionCallProofs!HonestCache` | `Spec => []CacheHonest` |
| `FunctionCallProofs!ConsentGiven` | `Spec => []Consented` |
| `FunctionCallProofs!ConsentSpentOnce` | `Spec => []OneTimeConsent` |
| `FunctionCallProofs!RuleHolds` | `Spec => []RuleKept` |
| `TriggersProofs!TypeCorrect` | `Spec => []TypeOK` |
| `TriggersProofs!RegistryIsLive` | `Spec => []RegistryLive` |
| `TriggersProofs!HiddenIsCancelled` | `Spec => []HiddenWasCancelled` |
| `TriggersProofs!SerialIsBounded` | `Spec => []SerialBound` |
| `TriggersProofs!SkipStartsAlone` | `Spec => SerialSkip` |
| `TriggersProofs!OldestIsCancelled` | `Spec => CancelsOldest` |
| `TriggersProofs!QueueImplementsMailbox` | `QueueSpec => InOrder` |
| `TriggersProofs!AudienceFires` | `QueueSpec => []FiresItsAudience` |
| `DependenciesProofs!TypeCorrect` | `Spec => []TypeOK` |
| `DependenciesProofs!NeedsAreMet` | `Spec => []NeedsMet` |
| `DependenciesProofs!QuestionsComeOut` | `Spec => []QuestionsSurface` |
| `DependenciesProofs!NeedsAreAnswered` | `Spec => []NeedsAnswered` |
| `WorkflowsProofs!NeverWithoutSteps` | `Spec => []NeverEmptied` |
| `WorkflowsProofs!LastWordStands` | `Spec => []LastWord` |
| `InitiationProofs!PoolsHold` | types, and every item a pool was fed is in one place |
| `InitiationProofs!OncePerTry` | `Spec => []OnceEach` |
| `InputsProofs!TypeCorrect` | types, and the semaphore holds |
| `InputsProofs!FulfilledMeansValues` | `Spec => []NoneMissing` |
| `InputsProofs!AloneAnswersOwn` | `Spec => []AnswersAlone` |
| `OperationsProofs!TypeCorrect` | `Spec => []TypeOK` |
| `OperationsProofs!OnceInATry` | `Spec => []NotRepeated` |
| `OperationsProofs!SuccessIsComplete` | `Spec => []NothingLeftOut` |
| `OperationsProofs!ResultsSorted` | `Spec => []ResultsInOrder` |
| `SkillRunsProofs!TypeCorrect` | `Spec => []TypeOK` |
| `SkillRunsProofs!NoNestedCalls` | `Spec => []NoNesting` |
| `SkillRunsProofs!ConditionAnswered` | `Spec => []RefsAnswered` |
| `SkillRunsProofs!ParamsAreResolved` | `Spec => []ParamsResolve` |
| `SkillRunsProofs!GivenAreOffered` | `Spec => []GivenOffered` |
| `SkillRunsProofs!LimitWarned` | `HooksWarned`, where static hooks join no more functions than the limit |

Assumptions are the named ASSUMEs of the modules: the sets of functions, triggers,
configurations and lists are of the right kind, bounds are positive, the "no such" values are
not members; `ToolsAssumption` of `Dependencies`: only functions of tools have needs (nothing is assumed of
cycles);
`ConstantsAssumption` of `Operations`: there are two goroutines, as in the code; of `Initiation`: a function has at most one parallel list, and of
`Workflows`: the YAML has one workflow per category. TLC evaluates each of them.

*FunctionCall.* `RecordedAtMostOnce` is not inductive: nothing in it stops a call with a
record from recording again. `IInv` adds, per call, that `executionRecorded` is false in the
stages before a record can have been written, and that a call without it has no record
until its deferred function has run; and that inputs are known after `Fulfil`, for the
types. An action changes one call, so the proof has a lemma per action about that call's
record and one about the others. For the cache and consents `JInv` adds: what the fields of a call
are at each stage (`Local`: complete while it is on the path of success, not run before it
starts, recorded where the callbacks run), and that a call others depend on *waits*
(`Waits`: it asked for something, has not run and never will). Whatever a call took its
consent from, and whatever lies in the stores, points to such a call (`Links`, `Shared`).
Waiting is stable, so a step of one call cannot disturb what others rely on; that is the
lemma `Onward`, and every action is an instance of it.

The last two theorems are about calls made one after the other, so both rest on `OneActs`:
at most one call is active. `KInv` says that a confirmation or checkpoint a call has used is
gone (`UsedUp`), that one it is about to use is there, and that a request for approval leads
to one checkpoint (`Settled`): what was used cannot come back, because only a call that has
not asked yet writes a new one. `LInv` says that a call past its rule is `Clear`: no other
call has a record that the filter counts (for unique, with its inputs). Nobody else is
active while it runs, so this holds until it is done; and a call that ran and ended has a
record (`RecordsKept`), with the hash of what it ran on (`Kept`).

*Dependencies.* Every call below the top of the stack waits for the need at its position,
which is the call above it (`Waiting`); the needs a call must execute are among its missing
ones, and those it has passed have ended (`FrameOK`). After a question in a special text the
call on top is paused and nobody operates (`Asking`); each return pauses the next one, down to
the bottom. `NeedsAnswered` rests on `NInv`: with a working database the needs that a call has
passed have no open question of that kind (`AnsweredIn`) until something above it asks; the
callbacks of other calls leave the record of such a need alone.

*CronConcurrency.* `RegistryLive` is inductive given the
types and facts about removing one entry from a sequence without repetitions (two
goroutines may remove the same entry). `HiddenWasCancelled` needs `AwaitedIsCancelled`:
who waits for a victim has cancelled it, so a timeout may unregister it. For firings that
decide alone, `SInv` carries what the decision found as far as the registration: there is
room, or the victim is registered and its place becomes free (when it ends by itself it may
still be registered, and then a cleanup is open and the registration counts as overlapped);
under skip the registry stays empty. `VictimIsOldest`: what comes and goes in between never
puts another execution in front of a registered victim. *TriggerQueue.*
The step simulation needs only that the reader holds a message exactly while it handles
one. `FiresItsAudience` needs more: a message is in one place, once (`Distinct`), the current
one has fired, in order, what `Selects` lets it fire of the triggers before `next` (`FInv`), and
`Selects` agrees with the documented table on the triggers the property speaks of
(`SelectsAudience`).

*Operations.* How often an item is executed is a matter of chances. A try has one chance to
execute it: as long as the loop has it before it (`Ahead`), or, once the loop has handed the
list to the goroutines, as long as the item is in the queue or with a goroutine that works on
it (`TeamOK`: in one of these places, and once). Each execution takes a chance away, and no
step gives one back, so executions and chances left are at most two (`TriesBound`): this holds
with goroutines of the first try still at work in the second. A step whose results are kept is
executed only without one (`KeptOnce`), by what the loop has checked on the way (`MainOK`).
That nothing is left out is `Completed`: steps the try has passed are complete, and so are
steps with a result, for only complete steps store one. In a parallel list this rests on the
collector (`CollectOK`): items that have a result, an answer under way or neither are three
different sets, hence when as many answers as there are items have come without an error, all
items are there. Logins that are repeated repeat steps by design, so what counts executions
(`TriesBound`, `KeptOnce`) and `ResultsInOrder` say nothing once one was, and `Completed` is about
operations without logins.

*SkillRuns.* No property of the runs is inductive, for what a call may rely on was decided by the
parser and by the calls below it on the stack. `Inv` has four parts besides the types.
`AcceptedInv`: only an accepted skill makes calls, so what `Accepted` implies for calls
(`Sound`: every name in a list exists, the edges are acyclic, what params and conditions refer
to) can be used at each step. `StackInv`: each frame waits for the one above it (`WaitsAt`) by an
edge that `checkFunctionDependencyCycles` follows, by a hook that is registered, or in a stage
it does not follow; between any two frames there is therefore a path of such edges (`Path`,
`HookPath`), which a push extends by one edge and a pop shortens. `FrameInv` says of a frame
past its needs that they are recorded, or the function is in `short`. `RowsInv` says the same of
every function with a record, whoever made it: a callback, a hook, an input, a step. From this
`NoNesting` is that no path leads from a function to itself; `RefsAnswered` is an induction along
the needs, carried by the least set that `Reach` is; and `HooksWarned` is a pigeonhole: as many
hooks on the stack as the limit, one more frame than that, and two frames of one function. This
last argument needs that the hooks the parser scans are for, or call, no more functions of the
tool than the limit (`maxHookDepth`, ten in the code, `yaml_defined_tool.go:59`), and so does the
claim: a longer chain without a cycle is refused and not warned of.

*Workflows.* Among the requests that delete rows of a workflow, one began last. Its own rows
were not there when the others read, so nobody has them in his list of rows to delete, and
what it has not added yet it is going to add (`Kept`). That its rows are new when it begins
is `Past`: every row in the table and in the lists of rows to delete was written by a
request that is past its own reading. `LastWord` rests on `WInv`, about requests one after
the other: what a person has spoken on is verified (`Spoken`), a workflow that nobody writes
has the steps it is to have (`Words`), and the one active request has read all the rows
there are, deletes them one by one, and has then added its first rows, in order (`WordOf`).

*Initiation.* `PoolOK`: the items a pool was fed are in the channel, in order, with exactly
one worker, or done; hence how often an item was initiated is the number of tries that are
done with it (`Counted`), and a pool whose workers have gone has done all (`Passed`).

*Inputs.* `Running` says who runs in which phase; `Progress` that every place of the list
already passed has been seen to, by the caller or by a goroutine that still runs; `Alone`
that an inference without another beside it finds no conversation but its own once it has
begun it.

Only model-checked: liveness (`Finishes`, `FiringSettles`, `NoneLeft`, `Settles`, `Ends`,
`Drains`), which the proof system does not handle.

What the proofs changed. Two attempts failed because a model was wrong. In `SkillRuns` a callback
whose condition is not met is recorded as skipped by its caller, without its needs; it was not
in `short`, so a need that had been skipped as somebody's callback counted as answered with
everything it needs, and `RefsAnswered` was false of skills the run did not explore. These are
now explored (`Skipping` in `MCSkillRuns`). And a formula about the workflows an operation
starts bound more loosely than it was meant to, which let workflows be started that no step asks
for. The transitive closures were folds, of which nothing can be proved without induction over
data; as least sets they are the same, and TLC checks the same skills.

## 6. Where the code departs from its documentation

With a run (findings in `PROJECT.json`): skip lets two executions start (`CronSkipRace`);
inferences that run at the same time share one conversation and mix up their answers
(`InferenceMixup`).

Met while modelling, described by the models, without a run of their own.

Function call:

- A call that fails before its operation and has no onFailure functions leaves no record:
  `executeOnFailureFunctions` returns early, and its caller marks the call as recorded.
- runOnlyIf with an onError strategy that escalates reads the text of the original error,
  which is nil when the condition was merely false: the call panics (its deferred function
  still records it; `SkillRuns` has this ending as an error).
- The inputs a person confirmed may differ from those the operation runs on:
  `checkUserConfirmation` falls back to any state of the function when the hash differs.
- "Once approved, the checkpoint is deleted and execution continues"
  (`doc/specification.md:1067`): it is deleted at step 7 (`yaml_defined_tool.go:9011`), and step 8
  may still end the call to ask the user; the next call must ask the team again.
- afterCompletion "always fires" (`yaml_defined_tool.go:2359`, `doc/specification.md:10508`); a
  failed operation without onFailure functions returns at 1640-1644 without it.
- A confirmation is "one-time use" (1235, 1330); read and delete are separate, so two
  concurrent calls may act upon one. `OneTimeConsent` is about calls in sequence.
- "once" (`doc/specification.md:1481`) is checked at step 2.5 and recorded at the end: two
  concurrent calls pass. "unique" (1482) is not checked again when reRunIf replaces the
  inputs (line 1921). `RuleKept` excludes both.
- The cache "only caches successfully executed functions" (`doc/specification.md:1750`); the
  output is stored before reRunIf, whose repetition may fail. `CacheHonest` excludes it.
- Approval is required "before execution" (1025); when the setting cannot be read the
  operation starts (1143-1150). `Consented` excludes a failing database.
- The status filter complete counts "only successful executions" (1500); a call that
  returns an error before its operation is recorded complete (the initial status).

Operations:

- `foreach` is accepted on steps of every operation (`skill/parser.go:4633-4638`), but
  `executeTerminalOperation` (`yaml_defined_tool.go:4587-4668`) never reads it: the step is executed
  once and the operation succeeds. `NothingLeftOut` claims no items of such a list.
- "This allows resuming forEach execution from where it left off"
  (`yaml_defined_tool.go:6625`): the second try skips a step that has any result (3813-3826), so a
  list that was broken off stays incomplete. `NothingLeftOut` excludes such lists. The items
  of a list of db statements are repeated, those already written included.
- "The coordinator will handle ForceReloadTools" (`yaml_defined_tool.go:4547`, 4651): the error
  that asks for it passes through `Call`'s retry, which repeats the operation with the old
  definition; only when that fails too, and as a plain failure, does the call end.
- A goroutine of a parallel list that panics never answers for its own item; the collector
  waits for the end of the context. A reused code session's first answer is looked at for a
  refusal only when it begins with a brace (4990). A login page that comes after the
  repeated login is kept as the result. runOnlyIf of steps is not evaluated for api and
  terminal steps.

Tool engine:

- Execution "pauses" for an approval and "waits for team member response"
  (`doc/specification.md:1027`, 1065). The first call asks in a special text and stops its callers; a
  later one, while the approval is open, returns "This action is pending team approval"
  (`yaml_defined_tool.go:1178`), and one that lacks an input "I'm working on gathering..." (885).
  Neither is one of the three texts of `utils/special_returns.go:5-8`, so
  `ExecuteDependencies` goes on (`tool_engine.go:1645-1650`) and the caller operates while its
  need waits. This is `Reminds` in `Dependencies`; `QuestionsSurface` and `NeedsAnswered` are about
  the three texts only.
- A question of runOnlyIf (`yaml_defined_tool.go:692-695`, 8542) or of an onSuccess function comes
  back as `ErrInputFulfillmentPending`: to a caller that needs the function it is an error, and
  what the caller returns is a failure without the question (`Errs`). The questions of callbacks
  of onFailure and onSkip are swallowed.
- A message to the user is recorded by the goroutine that sends it (`tool_engine.go:1418`); the
  final check of the needs (1673) may come first and fail the function, though a message
  should not (`doc/specification.md:2922`, 2926).
- A need without params "uses cached result if already executed" (9086); one of the caller's
  own tool without a cache field is executed again (`tool_engine.go:986`), and one that is
  cached or shared counts as met even if its newest record is pending or failed.
- Shared functions may be named with a dot in needs (3482). The records have the bare name,
  so `CheckNeeds` never finds such a need and the caller fails after executing it.
- A need with params always re-executes (9089): it is called again, but if that call fails
  early and has no onFailure functions its caller finds the old record and goes on.
  `NeedsAnswered` excludes it.
- A lookup that does not get the lock in time answers "does not exist" (`tool_engine.go:551`).

Triggers:

- parallel runs "up to maxParallel" (2338); firings that wait for the same victim all
  register. A manual firing may be accepted and then skipped by the second decision
  (`triggers.go:851`).
- `ProcessMessage` (`triggers.go:516`) excludes triggers by channel and sender only. So a message
  fires time-based triggers, which run "on a schedule" (`doc/specification.md:1847`), and those of
  meetings; a message queued after its workflow fires the start triggers as well, and one
  queued before it those of the completion (`skill/const.go:40-43`); a function with two matching
  triggers, or that is reached in both phases, runs more than once on one message
  (`doc/specification.md:1896-1897`); and an item queued with an email type fires no email trigger.
  The model fires the same; `FiresItsAudience` exempts exactly these.
- `Stop` (`triggers.go:261`) does not stop the reader.
- "Channel already has a notification pending, no need to send another"
  (`triggers.go:153`): the second message then waits for the timer, up to five seconds.

Workflows:

- Whether a person has verified a workflow is read before the model is asked; a merge or a
  synchronisation that looked earlier overwrites what the person wrote meanwhile, and clears
  the mark (`doc/specification.md:11767`). `LastWord` is about requests in sequence.
- Merges write through the repository rather than the bridge, whose copy stays behind. A
  categorisation returns "none" as the model spells it. A synchronisation takes any error of the lookup
  for "does not exist", and stops at its first failure. Steps with tools there are not are
  let through at the last attempt. Feedback sets the version back to one.
- Two items that name the same new user both create him and one is refused, though the
  function "is thread-safe" (`yaml_defined_tool_initiate_workflow.go:113`). An item given as an
  object creates a new user in every try. An error of a list repeats the whole operation,
  items already initiated included; a cancelled one leaves the rest out without an error.

Parser and callbacks:

- "Circular dependencies are not allowed" (9114): looked for inside each tool only, and not
  through onFailure (10044), though functions of two shared tools may need each other: calls
  then nest without end. `Dependencies` allows such needs; its run, for `Settles`, has none.
- The warning about hooks does not see those registered with variables, or in lists other
  than needs, onSuccess and onFailure; the limit of ten levels also refuses chains without
  a cycle. A function called by a hook leaves two records, its own and the one of
  `executeHooks`.
- Params are resolved in two phases (9818-9850): commented out
  (`yaml_defined_tool.go:1978-2051`). Inputs with params of onSuccess functions are evaluated before
  the parent has run (9853-9885). waitFor, shouldSkip and an input's `from` may name system
  functions, which are then not found.

Inputs:

- All inputs of origin inference run concurrently, whatever `async` says
  (`doc/specification.md:3692`), and see no other input's value.
- The results are "thread-safe storage" (`concurrent_state_store.go:7`), but tool executions are
  written to a plain map: two goroutines that do so end the process (`died` in the model).
- After too many answers that cannot be read the value is an error text
  (`agentic_inference.go:574`), and the input counts as fulfilled. Empty texts of required inputs
  are left out without an error (`input_fulfiller.go:187`, 249).

## 7. Plan

Done: the modules of section 2. Next, in this order:

1. `Operations`: an abstract specification of a list (each item answered once, in any
   order) that both the sequential and the parallel list refine.
2. The composition of `FunctionCall` with `Dependencies`: calls of two functions for two
   messages at a time, sharing the execution tracker's tables (step results by message and
   index, `execution_tracker.go:454`).
3. The tool engine's cache of tools: its lock with timeouts, a reload in steps, calls that
   go on with the definition they began with.
4. The variable replacer's token and environment, shared by operations of two messages.

## 8. Not modelled, and why

- Coordinator async jobs: a table of jobs under a mutex; the coordinator that registers
  and waits for them is not in this repository, so neither is what could go wrong.
- Browser queue: one channel and one table of states that only reports read. Its `Start`
  starts as many workers as the channel has places rather than the number configured
  (`browser_queue.go:120`), which changes no result.
- Human responses and workflow events: a loop over questions whose state, and the exclusion
  of two answers to one, is the host's.
- Temporary files and KPIs: file system and SQL, with one lock each.
- Text: variable replacement, formatting, expression evaluation, sanitising, prompts.
  Pure functions on strings, without state; unit tests suit them better.
- Loading and reloading tools and their locks; test mode; logging, metrics and
  notifications to the host (`Callback`): they change no state the properties read.
- mcp, pdf, format and policy operations: one call each, a choice in `FunctionCall`.
- The parser's syntax, spelling and types, and the fields of single operations.
- The cron library, database, language models, message channels: external; modelled as
  choices where the code reacts to them.
