# TLA+ models and proofs of the workflow service

The repository is a workflow automation service in Go, modelled on n8n. A user
draws a workflow, a graph of nodes; webhooks, cron schedules, forms and manual
requests start executions of it; an engine runs the nodes one after the other
and keeps a row per execution in Postgres, from which a failed execution can be
retried. This directory holds TLA+ modules for the parts of the service that
carry state and concurrency, TLC configurations that check them, and proofs for
the TLA+ proof system.

All paths below are relative to the repository; `W` stands for
`service/workflow_service`.

## The system

| part | state | operations | who meets whom |
|---|---|---|---|
| engine, `W/core/workflow_execute.go` | stack of ready nodes, results and sources per node (`WorkflowRunExecutionData`), wish to delete | `Run`, `RunFromNode`, the loop of `execute`, hooks that save | one instance per execution; executes nodes, writes the row |
| execution rows, `W/core/rds_db.go` | `workflow_execution_entity`, `execution_data` (cascading foreign key) | create, read, update (two statements), delete | engine, retry, delete and stop requests, cron activity |
| execution API, `W/api/execution.go` | none | retry, delete, stop, list | reads and writes rows, calls engine and registry |
| registry, `W/core/active_executions.go` | map of current executions, wait group, two channels per execution | `AddExecution`, `ExecuteAsync`, `StopExecution`, `ShutdownActiveExecutions` | handlers, goroutines, stop requests, shutdown |
| webhook handler, `W/api/webhook.go`, `W/core/run.go` | per request: `sendOnce`, response channel, response | `HandleWebhook` in three response modes, form handlers | registry, engine (through the SendResponse hook) |
| workflow API, `W/api/workflow.go` | `workflow_entity` | create, update, activate, run manually, delete | registrations, Temporal, engine |
| webhook registrations, `W/core/webhook_manager.go`, `webhook_helpers.go` | `webhook_entity` | register, unregister, both for all at start-up, test webhooks | workflow API, start-up, expiry activity |
| schedules, `W/temporal/`, `shared/temporal/util.go` | cron workflows held by Temporal | override, terminate, activity that runs a workflow | workflow API, start-up, engine |
| merge, if, filter, switch, limit, aggregate, `W/nodes/` | none, but they share items with the nodes in front | `Execute` | called by the engine |
| trigger nodes, Respond to Webhook, Delete Execution | none | `Execute`, the cron expression | engine, handler (hook), Temporal |
| parameters, `W/core/execute_function.go` | per lookup: which properties are shown | `GetNodeParameter` | every node |
| expressions, conditions, sandbox, `W/core/` | a JavaScript machine and its timer | `EvaluateExpression`, `RunCode` | parameters, conditions, Code node |
| HTTP request, BigQuery, HTML, `W/nodes/` | goroutines and a channel; an iterator; none | `Execute` | servers, BigQuery |
| secrets, `integration/bigquery/util.go`, `shared/aws_lib` | a key in the integration or in the secrets manager | store, read, delete | concurrent callers |
| catalogue, dynamic parameters, identity, middleware | none | read, answer | - |

### What is hard, and what makes each part correct

*Engine.* Nodes with several inputs wait until every input is there. The order
in which they are tried comes from the graph, from canvas positions and from a
Go map. A failing node, a disabled node, an empty or nil result, a panic, a
stop (which only cancels a context), a crash and a retry from the saved row all
meet in the same few fields. Correct means: a node runs on the inputs that its
connections name; nothing forwarded is lost; siblings run in canvas order; the
row is a checkpoint from which memory could be rebuilt; a retry repeats exactly
what failed; every execution ends.

*Rows.* Read-modify-write from several places, two tables without a
transaction, errors that are logged and dropped. Correct means: one creation,
one verdict, no resurrection, and `finished` (which retry trusts) only on clean
executions.

*Registry and handlers.* A goroutine per execution, two unbuffered channels, a
wait group, a lock that covers single map accesses only, a `sync.Once` held
while its holder waits for a third channel, a `select` of five cases, and stops
and shutdown at any time. Correct means: every request is answered once,
truthfully, and by nobody after it returned; the wait group and the list are
exact; nobody waits for somebody who waits for him.

*Lifecycle, registrations, schedules.* Three stores (rows, registrations,
Temporal) that are to follow one flag, without a transaction, updated by
concurrent requests, at start-up and by timers.

Correct means: without a fault and with nothing under way registrations and
schedules are those of the active rows as they are now; whatever overlaps, no
registration outlives its workflow, nobody loses static data, and test
registrations end.

*Nodes.* Merging by several fields with repeated and missing values on maps that
others read; routing of items whose rules fail for some of them; display options
that depend on each other; text and code told apart by brackets that can be
escaped. Correct means: every item is accounted for, in order, and nobody else's
data is written to.

*Calls that wait.* HTTP Request starts a goroutine per item and closes their
channel; a script is interrupted by a timer that others may inherit; BigQuery
answers in batches and by an iterator; several callers store one secret. Correct
means: one answer per item, the call returns, no goroutine brings the process
down, no key is lost.

The hazards these give rise to are listed in `PROJECT.json` at the line where
they bite, with the properties that watch them.

## Modules

| module | contents |
|---|---|
| `ExecutionLifecycle` | abstract specification: what a row promises to its readers |
| `WorkflowExecute` | engine, rows, retry, deletion, stop, crash |
| `WorkflowExecute_proofs` | types, clean finished rows, refinement of the lifecycle |
| `WorkflowExecute_data_proofs` | inputs of merges, the wish to delete, rows as checkpoints |
| `WorkflowExecute_flow_proofs` | order of siblings, nothing lost, input of a retry |
| `ActiveExecutions` | registry, goroutine, stop, shutdown |
| `HandleWebhook` | handlers on top of the registry, sendOnce |
| `HandleWebhook_proofs` | the safety properties of handlers and registry |
| `WorkflowStore` | workflow and webhook tables with their queries |
| `WorkflowLifecycle` | workflow API, registrations, schedules, start-up, expiry |
| `WorkflowLifecycle_proofs` | types, no registration outlives its workflow, static data is kept |
| `WorkflowLifecycle_trigger_proofs` | registrations and schedules follow the activation |
| `Values` | JSON values, keys and paths |
| `MergeNode`, `Aggregate` | the nodes that combine items |
| `Conditions`, `RouteNodes` | conditions; If, Filter, Switch, Limit |
| `ScheduleTrigger` | the cron expression of a trigger |
| `HttpMessage` | the request of an item and what is made of a response |
| `HtmlNode` | templates and extraction by selectors |
| `NodeCalls` | one call of a node that routes, decides or builds, and what it must satisfy |
| `DataCalls` | the same with Merge and Aggregate |
| `Nodes_proofs` | conditions, Switch, HTML, Schedule Trigger, requests, display options, Merge, Aggregate |
| `NodeParameters` | display options and the lookup of a parameter |
| `Expressions`, `Sandbox` | texts with code; the machine and its timers; Code node |
| `HttpRequest` | the goroutines of a call |
| `BigQuery` | queries and batches of a call |
| `Secrets` | concurrent callers of the secrets manager |
| `Services_proofs` | HTTP Request, BigQuery inserts, secrets, expressions |
| `MCWorkflowExecute`, `MCHandleWebhook`, `MCWorkflowLifecycle`, `MCNodes`, `MCServices` | small instances for TLC |

`HandleWebhook` extends `ActiveExecutions`, `WorkflowLifecycle` extends
`WorkflowStore`, `RouteNodes` extends `Conditions`, `Sandbox` extends
`Expressions`; `NodeCalls` extends `RouteNodes` and instantiates the other node
modules, `DataCalls` adds the two that put values of items together; `MCNodes` composes the
calls, a behaviour being a call of one of them.

### WorkflowExecute

| variable | code |
|---|---|
| `pc[e]` | where the goroutine or request is: `loop`, `broken` (a node failed, the loop was left), `over`, `dead` (panic or crash) |
| `mem[e]` | `w.RunExecutionData`: run data, error, last node, stack, `WaitingExecution`, `WaitingExecutionSource` |
| `pending[e]` | the list `nodesToAdd` while `addNodeToBeExecuted` is called for it |
| `needDelete` | `w.needDelete` |
| `ctx[e]` | the context: of a request, live and cancellable, cancelled |
| `row[e]` | both tables of the execution |

A step of the loop is `PopDisabled` or `ExecuteNode`; `ExecuteNode` includes the
recording of the result and the save of the hook, since nothing of this
execution happens in between that others can see, and `AddNodeToBeExecuted`
then pushes one successor at a time. `Finish` is the code after the loop with
the final save. `Retry` is the whole handler up to the new engine's loop.
`Cancel`, `DeleteRow` and `Crash` come from outside.

The data that flows is reduced to what the engine distinguishes: a list is nil,
empty or has items, and carries the run of the node that produced it, so that a
property can say whose output a node consumed. A node is the set of lists of
outputs it may return (`Shapes`), whether it may fail, and whether it is a
trigger, disabled, a Delete Execution or a Respond to Webhook node. The field
`inputs` of a recorded run is a history field; the code records outputs only.

Choices the code leaves open are nondeterministic: the order in which
`getConnectionByDestination` walks a Go map (`MapOrders`), the order of two
successors on the same spot of the canvas (`sort.Slice` is not stable, and its
comparison is not strict), what a node returns, and how a read followed by two
UPDATEs ends (`StoreOutcomes`; `"entity"` is the case that the first succeeded
alone).

Panics are modelled as what they do. In a goroutine the recovery of
`ExecuteAsync` and in a request the recover middleware ends the engine and the
row stays as it was (`Panic`).

Abstractions, all deliberate: the workflow does not change between an execution
and its retry; `INSERT`s of the two tables are one step; a node's `Execute`
terminates; times, modes and texts of errors are left out; connections lead to
existing nodes (an unknown name is a nil pointer in the code).

### ActiveExecutions and HandleWebhook

`ActiveExecutions` has one action per piece of code between two points where
another goroutine can get in: `AddExecution`, `StartWorker`, `SetRun`, then in
the goroutine `Return` (the executable ended, in one of four ways),
`RemoveExecution`, `HandOver` (the rendezvous on one of the channels) and
`WorkerDone`. The order is the code's: for a panic, deferred `Done` runs before
the recovery that removes and sends, otherwise after the hand-over. A stop is
three steps (`StopFind`, `StopCancel`, `StopRemove`), a shutdown two; its timeout
may come at any time.

`HandleWebhook` extends it with the handlers. `handler[e]` says where the
request is, `answer[e]` what it will write, `once[e]` the state of `sendOnce` and
`written[e]` what was written to the fiber context, in order. A request is
identified with the execution that it runs. The mode `inline` stands for the
requests that run the engine themselves (manual run, retry). A form
(`StartFromTriggerData`) takes a second execution: it adds one while it builds the
hooks, and `RunWorkflow` adds the one that runs (`AddAnother`). The first, in
state `unused`, stays in the list for ever: not even a stop removes it, which
fails on the nil pointer of an entry without a run. The model of the executable is: nodes run and may call the hook any
number of times, then it ends.

`Wait` is a choice among the ready cases of its `select`; the request context of
fiber is never done, so that case does not exist here.

Not in the model: the lookups before the switch and the description of a form
(they read), more than one stop per execution.

### WorkflowStore and WorkflowLifecycle

`WorkflowStore` has one operator per query. A definition stands for a version of
a workflow's nodes; of it only the webhooks of its enabled nodes, in canvas
order, and its first schedule matter. `row` is a function whose domain are the
workflows that exist, so a query on a row that is gone fails as
`sql.ErrNoRows` does; `webhook_entity` has the foreign key and the unique index
of the schema.

| variable | code |
|---|---|
| `row`, `hook` | `workflow_entity`, `webhook_entity` |
| `schedule[w]` | the open Temporal workflow with a cron schedule |
| `expiry[w]`, `tries[w]` | the Temporal workflow that removes test webhooks after two minutes, and the attempts of its activity |
| `proc[p]` | a request, the start-up, or an activity: a stack of calls still to make, the place inside the first, what it has read |
| `armed`, `disturbed`, `broken` | history for the properties |

An action is one access to the database or to Temporal, since other requests get
in between any two of them: `UpdateWorkflow` of an active workflow, for
instance, terminates the schedule (list, terminate), reads the workflow, deletes
its registrations one by one, writes back the static data, updates the row,
starts the schedule again and saves the registrations. `AfterLoad` lists the
calls of each handler. `Fault` fails the access a process is about to make, with
what the code does then: return the error, log it and go on, or (`DELETE` of a
registration) drop it. `Crash` restarts the main service with `StartProgram`.

`armed[w]` records what a sequence of undisturbed requests has left: `"on"`,
`"edited"` (nodes replaced while active; the schedule is that of the old nodes,
and stays so through a further activation if the new nodes have none, since
`SetupTemporalWorkflow_ScheduleTrigger`, `W/temporal/registry.go:113`, then does
nothing), `"off"`, or `"lost"` for the two cases in
which the handlers do not keep up at all: a full update that changes the flag
acts on the flag as it was, and a workflow created as active gets no triggers
until the next start-up.

### Nodes without state

Their calls are in `NodeCalls` and `DataCalls`: a behaviour of it is one call, an action per node
computes the result with the operator that models its `Execute`, and the
properties compare the result with what the node is for.

Values are nil, scalars, arrays and objects. What descends into them, deep merging
and the output paths of Aggregate, is a recursive function over paths. Where the
code writes into the items it was given, `MergeNode` has a heap of items and references to them, so
that a property can say whether the items in front were changed. Operands of
conditions are known by their conversions (`ConvertToNumber` and so on), each
with a value or an error. Parameters that are evaluated per item are given per
item; `Error` is one that cannot be evaluated. `Panics` is a result of its own:
an out-of-range index ends the execution through the recovery of the engine's
goroutine. Documents are functions from selectors to elements; parsing is that
of the library.

### NodeParameters, Expressions and Sandbox

`NodeParameters` takes the passes of `FilterPropertiesByDisplayOption` one
property at a time (`CheckProperty`, `NextPass`), with what is confirmed so far,
then looks the parameter up. The order in which the rules of a property are
tried is that of a Go map, hence nondeterministic where it matters.

`Expressions` splits a text, a sequence of pieces, by the alternating search of
the code, including what becomes of escaped brackets; `Sandbox` runs the codes
found, one machine for all texts of a parameter. A script has one of a few
outcomes: a value, nil, an error, or it loops. Its timer is set at the start of
the run; only `RunCodeAllItems` stops it.

### HttpRequest, BigQuery, Secrets

`HttpRequest` has the loop of `Execute` (`Build`, `Receive`, `SeeCancelled`,
`Return`) and a goroutine per item (`Request`, then a rendezvous or the panic on
a closed channel). `BigQuery` is one action per answer of the service or per
row. `Secrets` is one action per call of the secrets manager, any number of
callers at a time. A call may fail: one that asks for the secret tells its
caller so (`AskFails`); one that changes it gets no answer (`AnswerLost`), is sent
once more or given up with an error, and is a record in `late` that the manager
may deal with at once, much later or never (`LateRequest`).

## Model checking

`Faults` is the set of things from outside that a run lets happen; a run has
those that its properties are about.

| run | instance | faults | states | checks |
|---|---|---|---|---|
| `EngineMesh` | an If whose outputs lead into a merge and elsewhere, two triggers, a shared successor, a merge input with two sources, a disabled node, Delete Execution, Respond to Webhook as a starter | cancel, crash | 11 790 | `TypeOK`, `MergeInputsFromSources`, `RowIsCheckpoint`, `NothingLost`, `SiblingsInCanvasOrder`, `DeletedIffAsked`, `EveryExecutionEnds` |
| `EngineRetry` | fan-out with a tail, three executions | crash, retry | 17 315 | `RetryRestoresInput`, `NothingLost` |
| `EngineStore` | the same, two executions | database errors, delete, retry | 47 470 | `FinishedIsClean`, `RowLifecycle` |
| `WebhookRequests` | one request in any mode with a spare execution for forms, one stop per execution, one shutdown | - | 5 044 | `TypeOK`, `OneResponse`, `AnswerMatchesRun`, `WaitGroupCounts`, `ListedWhileRunning`, `NoLateWrite`, `RequestsEnd` |
| `Lifecycle` | two workflows, two versions, two requests one after the other | read, write, temporal, crash | 697 196 | `WebhooksFollowActivation`, `ScheduleFollowsActivation` |
| `LifecycleRaces` | one workflow, two requests that overlap, one of them of another instance | read, crash | 324 776 | `HookHasWorkflow`, `StaticDataKept`, `TestWebhooksExpire` |
| `Nodes` | some 38 000 calls of nodes; three items of an HTTP Request; parameters of one or two texts; BigQuery calls; three callers with two keys | per call | 331 100 | the seventeen properties of nodes and services below |

What the properties say:

- `MergeInputsFromSources`: input *k* of a node with several inputs comes from
  the first source connected to it.
- `NothingLost`: in a finished execution every non-nil output of the latest run
  of a node was consumed by each enabled single-input successor.
- `SiblingsInCanvasOrder`: siblings wait on the stack in canvas order.
- `RowIsCheckpoint`: run data, results and last node in the row are those in
  memory; the stacks differ only by disabled nodes popped since and by what
  the last run or such a disabled node pushed.
- `RetryRestoresInput`: the input rebuilt for a retry is the one that failed.
- `DeletedIffAsked`: the row disappears exactly when a Delete Execution ran.
- `FinishedIsClean`: a finished row is a success with no failed run and no
  error.
- `RowLifecycle`: refinement of `ExecutionLifecycle`, mapping a row to its
  status, no row to `absent` before and `removed` after the execution began.
- `EveryExecutionEnds`: the loop ends and with it the row, unless the engine
  panicked.
- `OneResponse`, `NoLateWrite`, `AnswerMatchesRun`: a request is answered once,
  not after it returned, and truthfully.
- `WaitGroupCounts`: the counter is exact. `ListedWhileRunning`: an execution
  that runs is listed until it is stopped, and an entry is one of an inline
  request, the first of a form, or has a goroutine that will remove it.
- `RequestsEnd`: an accepted request returns, except in the stop race below
  (`EveryRequestReturns`), and a goroutine somebody waits for ends
  (`AwaitedWorkerEnds`).
- `WebhooksFollowActivation`, `ScheduleFollowsActivation`: after any sequence of
  requests, start-ups and crashes, of which those on this workflow did not
  overlap or fail, its registrations and its schedule are those of its row.
- `HookHasWorkflow`: no registration outlives its workflow, whatever overlaps.
- `StaticDataKept`: only an update that brings static data changes it.
- `TestWebhooksExpire`: test registrations go away once their expiry is set.
- `MergeAccountsForAll`, `MergedPairsAgree`, `PreferredInputWins`,
  `InputsUntouched`: a merge hands every item on or merges it, pairs exactly what
  agrees, in order; clashes are decided as asked; the items in front stay as
  they were.
- `ConditionsConsistent`: an operation and its opposite exclude each other
  (`OppositesDiffer`); the order of conditions does not matter
  (`ConditionOrderFree`).
- `SwitchRoutesOnce`: every item leaves a switch by its first match or the
  fallback.
- `ColumnsAligned`: aggregated columns with missing values kept stay aligned.
- `FiresWithinInterval`: how long a schedule of *n* stays silent, also across the
  end of a day, month or year. It fires in any *n* hours (in any day, if *n* is
  one, which is the default); in any *n* days of the calendar, leap years or not; in
  any week on one of its days, whatever *n*; and with months on its day of the
  month only, in any *n* months if every month has that day, otherwise in any two
  months (*n* is one) or any year: the node's own hint says that a month without
  the day is left out (`schedule_trigger/node.json:192`).
- `PartsHaveBoundary`: a multipart body goes out with its boundary, and no body
  with a method that takes none.
- `OneAnswerPerItem`, `TemplatePerItem`, `RowsAccountedFor`: HTTP Request, HTML
  templates and BigQuery inserts answer every item once, and a row is inserted
  once if its batch is reported stored.
- `CrashOnlyAfterCancel`: no goroutine sends on a closed channel unless the call
  was cancelled.
- `CallsReturn`: HTTP calls without pagination, scripts and BigQuery calls whose
  iterator works come to an end.
- `ShownFollowsFromRules`: the passes over display options show exactly what
  follows from the rules.
- `EachInItsPlace`: text comes out as it is, each code gives its own outcome or is
  interrupted by a timer, and that comes out in its place, also next to others
  that fail.
- `KeyNotLost`: as long as nobody asks to delete the secret, every key is in its
  integration or was reported as stored, and once one was there is a key to read
  that a caller asked to save, which may be one that was reported as not saved.

Each property of these runs has a mutant: a definition of the model changed the
way a plausible bug in the code would change it (a guard dropped, a loop that
ends early, a wrong field) makes TLC find the property violated.

### Bounds

`MaxRuns` (2, in `EngineMesh` 4) bounds how often a node runs in one execution;
the graphs are acyclic and no node on them is reached more often than that, so
it cuts no behaviour there. The graphs are small because the rules of the engine
are local: a node, its direct sources and successors, and the stack. Each
distinction of the code occurs in one of them: one and several inputs, several
sources on one input, unused outputs, empty, nil and missing results, disabled
nodes in front of others, equal canvas positions, several starters. Three
executions let a retry be retried and two retries of one row run side by side.
Executions in `EngineRetry` are interchangeable, hence the symmetry set; it is
not used where a temporal property is checked.

One request in `WebhookRequests` is enough for its properties because requests
share only the wait group; what holds for any number of requests is proved. A
form takes two executions, so the run has two, and `Spare` keeps the second for
that: no request of its own comes.

In `Lifecycle` and `LifecycleRaces` `MaxRequests` bounds the requests, besides the
workflows that may be there from the start, of which `StoredActive` names one that
is active; two requests cover every pair of operations, and a third would repeat
what a stored workflow of any kind already gives. `MaxFaults` bounds failures
and crashes: two let one hit the repair of another. In `LifecycleRaces` it is
below `MaximumAttempts`, the two attempts of the expiry activity: with two
failed attempts Temporal gives up and the test registrations stay, which is what
the code asks for. The definitions differ in a webhook, in the method of one
with the same id and in the schedule: in `Lifecycle` one of them has none
(`OneCron`), in `LifecycleRaces` both have one (`TwoCrons`).

The calls in `MCNodes` give each option of a node all its values, with lists of up
to two items on each side of a merge (a pair that repeats, one without partner,
one without the field), operands that convert to each type and not, two rules
and two items of a switch. Schedules ask for up to 30 hours, 40 days and 13
months, past the end of a day, month and year, on the days of the month 1, 2 and
28 to 31, where months begin to lack one. Three items of an HTTP Request are a failing one with
one before and one after it. `MaxRows` bounds the rows of one answer of BigQuery,
`MaxFailures` the failed calls of the secrets manager: two let a lost request be
sent again and be lost again, or the requests of two callers come late in either
order; three callers let one create while one updates and one reads.

`CHECK_DEADLOCK FALSE` is set everywhere: when all executions, requests and
calls have ended the system rests, and a request need not come.

### Fairness

The engine (`WF_vars(Step(e))`): a goroutine that can go on is scheduled again
and again, and a node's `Execute` returns. Nothing is assumed of crashes,
stops, deletions, retries and new requests. Handlers and goroutines
(`WF_vars(Handler(e))`, `WF_vars(Worker(e))`) likewise; a rendezvous belongs to
the handler's `Wait`, which is enabled as soon as the sender is there. A stop
that has begun goes on. Shutdown is not assumed to be requested.

Lifecycle: every process makes its next access in the end, and Temporal's timer
fires (`Wake`), which is what Temporal promises. HTTP Request: `Execute` and its
goroutines run, and every server answers or fails in the end; the code sets no
timeout on the request, so nothing weaker will do. Sandbox: scripts that do not
loop end, and timers fire. BigQuery: the service answers every request.

### Where the code differs from what it says

Five runs expect a violation:

- `EngineMergeRetry` (`RetryRestoresInput`): sources of a node with several inputs
  are appended at every attempt and never reset
  (`W/core/workflow_execute.go:532`); after a skipped attempt a retry restarts
  the merge on three inputs instead of "the input data of the last failed node"
  (`W/api/execution.go:192`).
- `EngineSkippedMerge` (`SkippedNodeRunsLater`): a skipped node "will execute after
  the last prev node" (`W/core/workflow_execute.go:522`), but if the If in front
  of it took one branch nobody pushes it again and the execution succeeds
  without it.
- `WebhookStopRace` (`HookNeverBlocksHandler`): the hook, meant to be
  "thread-safe" (`W/api/webhook.go:150`), waits inside `sendOnce.Do` for the
  handler; a stop makes the handler leave `Wait` and wait for `sendOnce.Do`.
- `ShutdownDone` (`DoneIfAllComplete`): "Send done signal if all complete"
  (`W/core/active_executions.go:42`), but a goroutine without a receiver (a
  webhook answered on receipt) blocks on its send after its work and the wait
  group never empties.
- `LifecycleUpdate` (`NewTriggerTakesEffect`): an updated trigger "will take effect
  only on removing and re-adding" (`W/api/workflow.go:186`), but after a full
  update the schedule is re-added from the workflow as it was read before
  (`W/api/workflow.go:232`): the old one stays in force.

Other things the models have because the code has them, and which the
properties step around by a named condition:

- *Lifecycle.* A full update that changes the active flag sets up or removes
  triggers by the old flag; a workflow created as active gets no triggers until
  the next start-up (`armed = "lost"`). A failed `DELETE` of a registration is
  dropped, so Temporal's retry of the expiry never sees it (`broken`).
- *Merge.* Items of input 1 without a field to match by vanish; suffixes are
  written into the items of the nodes in front, twice if matched twice; a
  `keepNonMatches` with nothing left returns nil, which cuts the branch.
- *Switch, If, Limit.* Outputs are as many as the first item has rules, so a
  first item that fails with `continueOnFail` makes later ones panic; a fallback
  that cannot be evaluated panics; so does a negative limit.
- *Aggregate.* Two fields that end in the same name write to one list.
- *Schedule.* The field of hours is described as the "Number of hours between each
  workflow trigger" (`W/nodes/schedule_trigger/node.json:127`), but for its default,
  one, the expression names the hour of the day to trigger at (`node.go:149`): the
  workflow runs once a day, and `FiresWithinInterval` says so. The number of weeks is ignored; only the first interval counts; steps
  of days and months start anew with each month and year.
- *Display options.* A rule on `@version` decides alone, in the order of a Go
  map; several hide rules depend on their order (`Orderless`).
- *HTTP Request.* An empty url panics; with pagination nothing is sent and the
  call waits until it is cancelled; after a cancel, goroutines send on a closed
  channel, which nothing recovers; an early failure leaves them waiting for ever.
- *Expressions.* A code that ends with a doubly escaped bracket loses its last
  piece; an error next to text becomes text. The timer of an expression is not
  stopped and may interrupt the next text of the parameter.
- *BigQuery.* An iterator that fails keeps failing and the loop keeps asking;
  batches before a failing one stay inserted when the call fails; a negative
  batch size panics.
- *Secrets.* Of two callers that find no secret one fails to create it; its key
  stays in its integration. A key whose caller got an error may be the one that
  is stored, also over the key of a caller that was told of its success.

## Proofs

The proofs hold for every value of the constants that satisfies the named
assumptions, which TLC evaluates on every run:

- the engine: `GraphAssumption` (the graph is well formed and has finitely many
  connections), `NoneAssumption` (nil is no value);
- the handlers: `ModesAssumption`; the lifecycle: `StoreAssumption` (finitely many
  workflows; a webhook is an id and a method), `LifecycleAssumption` (requests,
  workflows and the main instance are told apart);
- the calls: `HttpAssumption`, `RequestAssumption` (the kinds of parameters and of
  contents), `BigQueryAssumption`, `SwitchAssumption`, `FilterAssumption`,
  `HtmlAssumption`, `ScheduleAssumption` (items, rules, conditions and intervals
  are lists; an interval is at least one of its unit, hours, days of the week and
  of the month are such), `ConditionAssumption`
  (an operation belongs to its type, an operand is a value with its
  conversions), `SpecsAssumption` (properties are a list, each with finitely many
  rules), `MergeAssumption` (options have the values the node offers; the items of
  both inputs are told apart, as their maps are, and to tell what a merged item
  is made of an object has a key of its own), `AggregateAssumption` (items and
  fields are lists), `ParameterAssumption` (a text that is neither fixed nor the
  only one of its parameter is put together from parts: text without an open
  bracket, code without a closing one, no two texts in a row, and no text at the
  end that ends in an escaped open bracket, which the code drops; a parameter is
  evaluated for one of the items) and `CodeAssumption`
  (the two kinds of jobs are told apart).

There is no bound on executions, nodes, requests, workflows, items or callers;
where a theorem needs some fault to be absent, its statement says so.

`WorkflowExecute_proofs`

- `TypeCorrect`: `Spec => []TypeOK`. `TypeOK` is inductive with the shape of
  `pending` and of the entries on the stack (`TypeInv`); one lemma per operator
  that builds run data (`SaveProgress`, `SaveFinal`, `RetryData`, `PushMulti`)
  says what it returns.
- `FinishedRowsAreClean`: `Spec => []FinishedIsClean`. Not inductive as it stands:
  `EngineInv` adds, for memory and row of an execution in the loop, that no
  failed run and no error is recorded yet, and that a row that is not final is
  not finished; otherwise the final save of a clean loop could meet a failed
  run that was saved before, or a retry could inherit one.
- `RowsImplementLifecycle`: `Spec => RowLifecycle`, the refinement of
  `ExecutionLifecycle`: each action maps to one of its steps or a stutter. It
  rests on `EngineInv`: progress and verdict need that the row of an execution
  in the loop is still open.

`WorkflowExecute_data_proofs`

- `MergesAreFed`: `MergeInputsFromSources` without retries (a retry breaks it, see
  `EngineMergeRetry`) and with starters that have at most one input. `FedInv`
  carries it through the three places inputs lie in: the results waiting of a
  node are its own, an entry on the stack has the inputs it should run on, a
  recorded run had them.
- `DeletedExactlyIfAsked`: `DeletedIffAsked` when nobody else deletes rows, the
  database works and nothing is retried. `Wishes` says of a running execution
  that its row is there and that `needDelete` knows of every Delete Execution
  node that ran.
- `RowsAreCheckpoints`: `RowIsCheckpoint` when saves succeed, under retries,
  deletions, cancels and crashes. `Checks` adds who pushed what is still
  pending, and that nothing but disabled nodes was popped before the first save.

`WorkflowExecute_flow_proofs`

- `SiblingsKeepOrder`: `SiblingsInCanvasOrder` in every graph in which no input
  has a disabled source next to an enabled one (`NoBypass`: what a disabled node
  hands on was put out further up, so it could let in a successor of the same
  run at another place), without retries. `Lined` adds that every entry and every
  pending successor names a run that is recorded, so that what the node executed
  next pushes is new, and that a pending successor fits on top of the stack.
- `RetriesRestoreInput`: `RetryRestoresInput` in every `Forest`: one source per
  node, on input 0 and enabled, starters without inputs, no node behind itself
  (`Desc(n)`, the least set that holds the successors of `n` and those of its
  members). The hypothesis is what the code needs, not what the prover does: the
  input is rebuilt from the latest results, so that a second source, a cycle or
  a disabled node in between gives another one (see above). The induction keeps
  the stack in an order in which nothing waits behind what it descends from
  (`Ordered`), so that the results an entry was made from are still there when
  it runs (`Filled`); `Restartable` is what that leaves of a row.
- `NothingIsLost`: `NothingLost` when the saves work, in every graph, and with
  retries in every forest. `Safe` says where an output is: what the latest run of
  a node has put out lies in the waiting map unless the node is to run again,
  and what lies there has been consumed, is on the stack or is about to be
  added. In a row this fails for the node saved last, whose successors are only
  in memory; a retry puts that node back on the stack. `RestartInv` gives it the
  input it consumed before.

`HandleWebhook_proofs`

- `Invariant`: `Spec => []IInv`, with `IInv` the conjunction of `TypeOK`,
  `PhaseInv` and `Counted`. `PhaseInv` says of every request which positions of
  handler, goroutine, stop and `sendOnce` go together (`Phase`), what has been
  written by then (`Answered`), that an intended answer and a written one are
  true (`Intended`, `Truthful`), and when it is listed (`Listed`). `Counted`
  equates the wait group with the number of goroutines in flight; it is the
  only conjunct about several executions, and follows from the lemma that a
  step moves one goroutine in or out of a finite set. `Phase` is needed because
  no property is inductive without it: that a second response is impossible,
  for instance, depends on the goroutine being inside its executable while the
  node holds `sendOnce`.
- `TypeCorrect`, `AnsweredOnce`, `AnswersAreTrue`, `WaitGroupIsExact`,
  `RunningIsListed`, `NothingWrittenLate`: the safety properties of the run
  `WebhookRequests`, each from that invariant.

`WorkflowLifecycle_proofs`

- `NoOrphanedWebhooks`: `Spec => []HookHasWorkflow`, which is inductive: a lemma
  per query says that it keeps the foreign key, and the only insert is guarded
  by it.
- `TypeCorrect`: `Spec => []TypeInv`. What a handler has read or has left to do is
  data of the process, so types alone are not inductive: `Shape` says which calls
  may be left (`LeftOf` for a handler, of which a call is always one that may come
  after the last, `Stage` for start-up: which of its passes it is in, and how many
  calls of that pass are left), which place of which call the process may be at,
  and that it has read what it is going to use.
- `StaticDataIsKept`: `Spec => []StaticDataKept`. `IInv` adds to that: processes
  concerned with one workflow are one, or it is marked disturbed (`Exclusive`); an
  id that was not given out yet occurs nowhere (`FreshWorkflows`); and the row in
  the hands of a registration in its loop has the static data of the table
  (`CopyIsCurrent`), which is what it will write back.

`WorkflowLifecycle_trigger_proofs`

- `TriggersInOrder`: `Spec => []TInv`, the invariant behind the next two. What the
  three stores hold of one workflow is its `View`. A workflow that no process is
  concerned with has its triggers `InOrder`; of one with a handler under way
  `SlotClaim` says, call by call, what the calls so far have left: registrations
  are a subset of those of the nodes while they are taken away or added, those
  still missing are in the list the loop has left (`Registering`), the schedule is
  open or closed as the handler found it (`Scheduling`). `MainClaim` says it of
  start-up for all workflows at once: in each pass a workflow is as it should be
  after that pass or its call lies ahead (`StageClaim`). `armed` agrees with the
  flag (`ArmedIsActive`). A step of a process keeps the views of all workflows but
  one (`ViewKept`); for that one there is a lemma per call, from the claim for
  that call to the claim for the next (`NextClaim`, `MainGoesOn`).
- `WebhooksFollow`: `WebhooksFollowActivation`, for definitions in which nodes
  with one webhook id have one method (`OneMethod`). A node registers one method
  under its own id (`GetWorkflowWebhooks`, `W/core/webhook_helpers.go:41`), and the
  editor draws a new id for each node; if two nodes shared one, which of the
  rows `GetWebhookEntity` returns would be open.
- `ScheduleFollows`: `ScheduleFollowsActivation`, without further hypotheses.

`Services_proofs`

- `NoCrashWhileLive`: `HttpSpec => []CrashOnlyAfterCancel`, and `EveryItemOnce`:
  `HttpSpec => []OneAnswerPerItem`. Both rest on `HttpInv`: the channel is open
  until `Execute` has returned a result (`Place`); in a call that was not cancelled
  the turns of the loop count the goroutines that have sent (`Counting`), so that
  all have when it returns, and what they sent was taken (`Handled`).
- `KeysAreKept`: `SecretsSpec => []KeyNotLost`, for any number of callers and of
  requests that are lost, late or repeated. `SecretsInv` says that what may come
  late is what a caller asked for (`LateAsked`), that the secret is the key of a
  caller that asked to save it (`Sourced`), and that it is there when one was told
  that its key is stored, unless a deletion was asked for (`Readable`): a late
  deletion is what takes it away, a late save puts another asked-for key there.
- `InsertsAccountForAll`: `BigQuerySpec => []RowsAccountedFor`, for any items and
  batch size and any answers of the service. The rows are listed in increasing
  order, so a batch is the next rows of the list; `Filled(i)`, the invariant of
  the loop at row `i`, says that every item that cannot be read has its answer
  (`OwnAnswers`), that the batches so far are apart and leave no row before `i`
  out (`BatchAnswers`), and that what lies in the table are rows of batches that
  were put, once if the batch is a success (`StoredOnce`).
- `ExpressionsKeepPlaces`: `SandboxSpec => []EachInItsPlace`, for a parameter of any
  texts, each fixed or put together from any parts of `ParameterAssumption`. The scanner reads on from
  where it is (`ScannedApart`), so the induction goes over the parts: behind each
  it has closed one chunk per part, but for a text that is still in its buffer
  (`AfterParts`). Chunk and outcome find each other by counting: the place of a
  code among those of its text (`RankInList`), behind those of the texts before
  it (`BeforeIsEarlier`, `RunsInOrder`). `SandboxInv` adds that each outcome is of
  the run of the same number or a timeout, and that there are as many of both
  when the parameter has a value.

`Nodes_proofs`

The loops of nodes are folds. A fold is the last of a sequence of states, one per
turn; a fact about it is an induction over the turns, which is a statement about
a set of numbers without a least element (`Induct`, `Least`) and so needs no
theorem with an operator parameter. That such a sequence exists is the lemma
`Iteration`.

- `PassesShowWhatFollows`: `ParamSpec => []ShownFollowsFromRules`. The property
  compares the passes with a least fixed point (`More`): sound, because what a
  pass keeps follows from what was kept before (`Derived`); complete, because a
  pass that confirms nothing has refused all that remains (`LeftOut`) and no
  property is dropped (`NoneLost`). That a closed set holds the fixed point is an
  induction over its stages.
- `SwitchSendsEachOnce`: `SwitchRoutesOnce`. `Routed`, the invariant of the loop over
  the items, says of each output which of the items so far it holds
  (`ListHolds`) and that they stand in their order.
- `ConditionsSayTheSame`: `ConditionsConsistent`, from `OrderOfConditionsIsFree` (the
  combined verdict is a function of the set of single verdicts, which reversing
  a list leaves as it is) and `OppositesSwap` (per type, both operations of a
  pair convert their operands alike, so that they fail together, and test
  opposite things). A text "NaN" converts to a number in Go that no comparison
  holds of; the model's numbers are integers, so the theorem does not speak of it.
- `TemplatesInOrder`: `TemplatePerItem`. `BoundaryAlwaysNamed`: `PartsHaveBoundary`, for
  any headers a user gives: content made of parts is content of that type
  (`Body`), and its header is written after those of the user.
- `SilenceIsBounded`: `FiresWithinInterval`, for every interval: of `n` successive
  numbers one is divisible by `n` (`NextMultiple`), and where the field starts anew,
  at midnight, on the first of a month or in January, it fires. Of two successive
  months one has 31 days, and so has January, where every step of months begins
  (`MonthsFireEvery`). What the call leaves out is filled with the defaults of the
  node (`IntervalFilled`).

- `JoinMakesThePairs`: `DataSpec => []MergedPairsAgree`. `findMatches` gives, for
  each item of input 1 that has all fields, the positions it agrees with
  (`JoinedIsFound`), and its entries are the pairs of these in order
  (`PairsFound`). Each entry becomes one output that is made of its two items and
  no others (`MergedPairs`): renaming with suffixes changes the heap between
  entries and may hit an item several times, so the induction over the entries
  carries that every item still has keys that end as its own did (`Keyed`).
- `JoinAccountsForAll`: `MergeAccountsForAll`, from the same description of the
  output (`JoinOutcome`): the items handed on are those looked up without success
  and those of input 2 that no lookup found, each once (`TailOnce`), the merged ones
  are made of the others.
- `MergeSparesInputs`: `InputsUntouched`, by the modes of the node; where entries are
  merged, by induction over them (`MergeLeavesHeap`).
- `ColumnsStayAligned`: `ColumnsAligned`. Values that are all kept make lists of
  one element per item, which flattening leaves in order (`Flattened`), and one
  field per name is what the output is built of.

Only model-checked:

- Liveness (`EveryExecutionEnds`, `RequestsEnd`, `TestWebhooksExpire`, `CallsReturn`):
  beyond the prover.
- `PreferredInputWins`: what deep merging makes below the first level is a recursive
  function over all paths, also those that lead nowhere; that there is such a
  function cannot be shown without induction over nested values.

## Not modelled

- The body that `sendResponseUsingLastNodeResult` builds.
- Dates in conditions of Switch, the values of HTTP parameters, the options of a
  BigQuery query, the parsing of HTML: data the properties do not tell apart.
- Clients of AWS other than the secrets manager, the data converter,
  conversions in `shared/util.go`: functions without state or protocol.
- Queries of organisations and identities: nothing in the service calls them.
- Catalogue and dynamic parameters: stateless reads. Logging and the
  organisation header of the middleware.

## Plan

Done: engine and rows, registry and handlers, lifecycle, nodes, services.

1. A workflow edited between an execution and its retry: the graph as part of
   the row (`W/api/execution.go:164`).
