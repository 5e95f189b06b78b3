# TLA+ models of the CloudFormation CLI Python plugin

This directory holds models of the parts of this repository that carry its own
logic: the runtime library that a resource type or a hook written in Python is
run by (`src/cloudformation_cli_python_lib`), and the plugin that generates and
packages such projects (`python/rpdk/python`). TLC checks the
models on small instances; TLAPS proves, for every instance, the invariants and
action properties of all of them but `ModelSerde`, and the refinements; of
`ModelSerde` it proves the casts at the leaves. `PROJECT.json` lists components, runs, mutants, hazards, findings and
theorems, and maps every definition to the lines it models.

## The system

A resource provider is a Lambda function. CloudFormation invokes it with an
event; `Resource.__call__` parses it, sets up logging and metrics with the
provider's credentials, calls the handler registered for the action, and
returns what the handler said as a dictionary. `Hook.__call__` does the same for
hooks. Lambda reuses a container for many invocations, one at a time, and many
containers run at once.

| Component | State | Operations | Works with |
|---|---|---|---|
| `resource.py` | handlers (fixed at import), locals of one call | `__call__`, `_parse_request`, `_cast_resource_request`, `_invoke_handler`, `_ensure_serialize` | all below |
| `hook.py` | the same | the same, `_create_progress_response` | all below, `utils.py` for the payload |
| `utils.py` | none | deserializing requests, download of a hook's payload with retries | a payload store (external) |
| `log_delivery.py`, setup | the log handler and the filter on the root logger, which outlive a call | `setup` of both classes | `logging`, boto3 |
| `log_delivery.py`, emit | sequence token of a handler | `emit`, `_put_log_event`, `_create_log_group`, `_create_log_stream` | CloudWatch Logs (external), shared by containers |
| `metrics.py` | list of publishers, per call | `publish_*_metric` | CloudWatch (external), `LOG` |
| `interface.py`, `exceptions.py` | none | `ProgressEvent`, its serialization, error codes | CloudFormation |
| `recast.py`, `identifier_utils.py` | none | pure functions | generated models, handlers |
| test entrypoints (`resource.py`, `hook.py`) | locals of one call | `test_entrypoint`, `_parse_test_request` | the contract tests |
| `codegen.py`, `resolver.py`, templates | files of a project | `init`, `generate`, `package` | pip, docker |

What is hard about it:

* **Telemetry sits in the path of the answer.** Metrics and log records are sent
  synchronously between the handler and the answer, and any failure of theirs
  but a `ClientError` of a metric is an exception in `__call__`, sometimes inside
  an `except` clause.
* **State outlives a request.** The log handler with its client, its stream and
  its token, and the filter on the platform's handler, belong to the container.
  A request that is rejected early is logged with what an earlier one left.
* **Retries that nobody sees.** botocore sends a put again when its answer is
  lost; `_put_log_event` calls itself; `urllib3` retries a download.
* **Containers that share a stream** invalidate each other's sequence token.
* **A handler's position is in the messages.** What it has done so far is in the
  callback context or the `nextToken` it returned, and comes back with the next
  request if nothing on the way drops it.
* **Types are guessed.** CloudFormation makes strings of all primitives;
  `recast_object` restores them by introspecting type hints, changing the document
  in place, and takes a `KeyError` of one attempt for the sign to make another.
* **Multi-step effects without undo**: setup of logging, creation of group and
  stream, a build directory.

What makes each part correct, and where that is stated:

* an entrypoint answers every request once, with what its handler said or with
  `InternalFailure`, calls the handler at most once and only for an accepted
  request (`InvocationContract`, `KeepsContract`, `AnswerMatchesOutcome`,
  `EveryRequestEnds`);
* the metrics tell what happened (`MetricsMatchOutcome`, `HookMetricsMatchOutcome`);
* the records that go out with an invocation's own credentials are those written after
  logging was set up for it, if its request names a type, and no others (`FreshCredentials`);
  no record is dropped by a filter whose counterpart is missing
  (`FilteredRecordsHaveAHome`);
* a hook's handler judges a target model unless the store refused it
  (`NoModelOnlyIfRefused`), and an answer names its request (`TokenEchoed`);
* a record that `emit` did not raise for is in the stream, in order, and not more
  often than it was sent (`KeepsPromise`, `InOrder`, `DuplicatesOnlyAfterResend`);
* whatever earlier commands left half done, `generate` leaves the models of the
  schemas it read (`GenerateRepairs`), and `package` deploys what the project
  says and nothing of an earlier build (`DeployedCodeIsCurrent`,
  `DeployedDepsAreCurrent`);
* a state that conforms to its schema reaches the handler with its types, or is
  rejected for a reason that lies in the schema (`RestoresTypes`,
  `RejectsJustTheUnsupported`), and comes back from a handler that returns it
  (`AnswerKeepsState`, `OnlySetsAreUnanswered`), again and again (`RecastAgain`);
* an operation does each unit of its handler's work once, says SUCCESS when all is
  done, and ends (`WorkIsDoneOnce`, `SuccessMeansAllDone`, `OperationEnds`);
* what is repeated is repeated for a reason, and not for ever: a put, because of what
  somebody else did to the stream, save where the service leaves no way out
  (`RetriesHaveACause`); the download of a payload, as
  often as it may be (`CallGoesForward`); a handler's invocation, because it is further on
  or an answer was lost (`OperationAdvances`);
* an identifier fits (`IdentifierFits`), and shows what it is for (`BothNamesShow`,
  `CutOnlyForLength`).

## Modules

| Module | Models |
|---|---|
| `Interface` | the vocabulary of `interface.py` and `exceptions.py`; what the runtime reads off an event; the assumptions on the constants |
| `InvocationContract` | abstract: what an entrypoint promises |
| `Invocation` | the part `Resource.__call__` and `Hook.__call__` share, line for line: parsing, the publisher, metrics, the handler's exceptions, the except clauses; the container and its reuse |
| `ResourceInvocation` | the rest of `Resource.__call__`: the check on `IN_PROGRESS`, `ProviderLogHandler.setup`, serialization and its fallback |
| `HookInvocation` | the rest of `Hook.__call__`: the download of the payload, `HookProviderLogHandler.setup`, the answer with its token |
| `LogSink` | abstract: what `emit` promises |
| `LogDelivery` | `emit` in several containers, CloudWatch Logs, botocore |
| `Codegen` | `generate` and `package` on the files of a project, with the developer who edits them |
| `Operation` | the invocations of an operation through each of the four entrypoints, the test entrypoints line for line; the caller and a handler that works in units |
| `Casts` | what `recast_object` does to primitives, and its loops over dicts and lists |
| `Recast` | the rest of `recast_object`, which is recursive; type hints (`translate_type`, `_field_to_type`) |
| `ModelSerde` | a resource's state between template, handler and answer: the generated `_deserialize`, `BaseModel._serialize`, the JSON encoder |
| `ResourceIdentifier` | `generate_resource_identifier` on lengths |
| `ResourceInvocation_proofs`, `HookInvocation_proofs` | theorems about the two entrypoints |
| `Invocation_proofs` | the lemmas they share, about the statements the entrypoints share |
| `LogDelivery_proofs`, `Operation_proofs`, `Codegen_proofs`, `ResourceIdentifier_proofs`, `Casts_proofs` | theorems about these five |
| `MC*` | the instances TLC checks |

### An invocation

`pc` names the next statement of `__call__`; each action is one statement with
everything it calls, so that an exception can leave from each:

| Action | Code |
|---|---|
| `Receive`, `Recycle` | Lambda hands over an event, or stops the container |
| `ParseRequest`, `CastRequest` (`ParseHookRequest`, `Fetch`) | `_parse_request`, `_cast_*_request` (the request's `deserialize`) |
| `SetupLogs`, `SetupRaises`, `SkipTelemetry` | the `if` around `setup`, and its failure |
| `AddPublisher`, `PublishInvocation` | `metrics.add_*`, `publish_invocation_metric` |
| `HandlerReturns`, `HandlerRaises`, `NoHandler` | the three ways out of `_invoke_handler` |
| `PublishDuration`, `PublishException` | the metrics after the handler |
| `Catch` | the three except clauses with `print_or_log` |
| `Serialize`, `FallBack` | `_serialize` and `json.dumps`; the except clause of `_ensure_serialize` |

A call of CloudWatch is one step with each outcome the code tells apart. `emit`
is used as `LogSink` promises it: it returns, or it raises something no caller
expects (`Logged`, `LogFails`). An event is a record of what the code's
conditions ask of it; a progress is its status, its error code and whether it
turns into JSON. `provider`, `filtered` are the container; `published`,
`shipped`, `fault`, `returned`, `raised` are history.

Two assumptions: the runtime of Lambda has a log handler of its own at
`handlers[0]`; and a hook's request that parses has a non-empty account id, so
that its publisher depends on the type's name only.

### Log delivery

`emit` is the loop put / reply. The request's execution in the service and the
handling of its reply are separate steps, so other containers, deletions and
late requests come between them. `DataAlreadyAcceptedException` and
`InvalidSequenceTokenException` are one kind of reply, `badToken`, because the
code treats them alike. Tokens are numbers: `NoToken` is the empty string a handler
starts with, `Null` the word "null", and what the service issues comes after them, no
token twice. A rejection names the token that is expected, by the last word of its
text; when a new stream expects none that word is "null", which the code keeps and sends
like any token, because it is not empty. Nothing in the repository says whether the
service takes it for no token, so `takesNull` is either: the runs and the proofs are
about both services. With one that does not, an `emit` that has a token and
meets a new stream never gets out: every rejection names "null", and "null" is what is
sent next, until Python's recursion limit (`CallFails`). `GoesInCircles` is that
state; `LogSink` has it as `refused` and demands no end of an `emit` that stays in it.

Order rests on the service: a service that ignores tokens is the mutant `MatchesAny`, and it
loses `InOrder`. The code's part in it is to send no token but one it was given: a late
put is then stale for good as soon as another one is taken.

### Generating and packaging

The state of `Codegen` is the disk: what the developer writes (`schema`,
`wanted`, `code`, `reqs`), what `generate` writes (`models`, `modules`), and the
build folder (`copied`, `installed`). Files are versions: `models` is the version of
the schemas it was generated from. Actions are the statements that touch the
disk, in the order of the code:

| Action | Code |
|---|---|
| `Generate`, `WriteModels`, `ClearTargets`, `WriteTarget`, `Generated` | `generate`, `_generate_target_models` |
| `Package`, `RemoveBuildArtifacts` | `package`, `rmtree` of `build/` |
| `Build`, `BuildFails` | pip, in docker or not, and a failure that leaves some of it |
| `CopyHandlers`, `CopyFails` | `copytree`, which does not write over a folder |
| `ZipBuild`, `ZipSources` | the two parts of the archive |
| `Fails` | a statement raises, or the command is killed between two |
| `Edit` | the developer, at any time |

Both `rmtree` calls ignore errors, so they leave any part of what they were to
remove; `stuck` is history and says that they did. A command reads the project
once, at its start (`loaded`). One command runs at a time. Copying and zipping are one
step each: the properties about what is deployed are claimed only if nothing was
edited meanwhile (`edited`).

### An operation

`Operation` follows an operation from its first request to its end. `Invoke`,
`GoOn` and `LoseAnswer` are the caller: CloudFormation, or the contract tests for
the test entrypoints. It sends the callback context of an `IN_PROGRESS` or the token
of a page back, and repeats its request if an answer is lost. The handler does one
unit of work per invocation, a step of a creation or a page of a list, and
returns how far it is; it may also refuse, raise, return what is no JSON, or answer
`IN_PROGRESS` to a LIST.

| Action | Code |
|---|---|
| `ParseTestRequest`, `ParseHookTestRequest` | `_parse_test_request` of both classes |
| `ParseRequest` | `_parse_request` and `_cast_resource_request`, with `CastToken`: no token is handed on |
| `HandlerWorks`, `HandlerRefuses`, `HandlerRaises`, `NoHandler` | `_invoke_handler`, with its check on `IN_PROGRESS` |
| `Catch` | the except clauses |
| `Serialize`, `FallBack` | `_ensure_serialize` |
| `TelemetryRaises` | all that logging and metrics can do to `__call__` |

`__call__` is coarse here, because `ResourceInvocation` and `HookInvocation` show
that it keeps `InvocationContract`; the run `operation` shows that the test
entrypoints keep the same contract. They log too, but their container, a Lambda function of its own, has
no provider log handler that could raise.

### A resource's state

`ModelSerde` is a cycle: a state is stored, sent (`Send`: with strings for its primitives,
as CloudFormation does, or as it is, as the contract tests do), recast in place
(`RecastState`), made a `ResourceModel` (`Build`), and answered by a handler that returns the model it was given
(`Answer`), which stores it again. `Casts` and `Recast` write the Python out on values that
are records: primitives are their type and text, dicts keep their order. `Casts` has
no recursive operator, so that it can be proved about: `Outcome` says what a loop comes to
from what its steps come to, one of which may raise. A call's
outcome is what it raised, what it returned, and what it left of the object it
was called with, since `_recast_nested_dict` goes on with what a failed attempt
left. The schema is a constant; `TranslateType` makes the hints, `FieldToType` and
`OneArm` (its second half) read them. `Restored`, `Pruned` and `Unsupported` are the
reference: they recurse over the schema and know nothing of hints or of the
`KeyError`.

## Runs

| Run | Bounds | Shows |
|---|---|---|
| `resource` | 3 actions (mutating, not mutating, without handler), 3 error codes, 2 streams, 2 invocations | `AnswerMatchesOutcome`, `MetricsMatchOutcome`, `FreshCredentials`, `FilteredRecordsHaveAHome`, refinement of `InvocationContract`, `EveryRequestEnds` |
| `hook` | 2 invocation points, 3 retries (the code's), 2 invocations | the same contract, whose fairness says that requests end; `AnswerMatchesOutcome`, `HookMetricsMatchOutcome`, `NoModelOnlyIfRefused`, `TokenEchoed`, `FreshCredentials`, `CallGoesForward` |
| `delivery` | 2 containers, 2 records each, 1 deletion, 1 request sent again; a service that takes the word null for no token, and one that does not | refinement of `LogSink` with its liveness, `InOrder`, `DuplicatesOnlyAfterResend`, `RetriesHaveACause` |
| `codegen` | 2 targets, 2 distributions, any number of commands, 2 edits | `GenerateRepairs`, `DeployedCodeIsCurrent`, `DeployedDepsAreCurrent` |
| `identifier` | `max_length` 11 to 24, names of 0 to 12 characters | the identifier fits and shows both names; if it is shorter than its limit the stack name is whole, and a logical id that is cut has half of the free characters |
| `models` | a schema with 13 properties of all kinds and objects two levels deep; every state with at most three of them | types, losses, rejections, lost answers |
| `operation` | 4 entrypoints, 3 units, 1 lost answer | the contract for test entrypoints, the handler's position, `OperationEnds`, `OperationAdvances` |
| `recast_names` | as `models`, mappings whose keys are names of properties | a finding: wrong types |
| `next_token` | as `operation` | a finding: a LIST that does not end |
| `hook_filter` | as `hook` | a finding: the filter without a log handler |
| `error_code` | as `resource` | a finding: a raised error's code is lost |
| `packaged_models` | as `codegen` | a finding: `package` generates no models |

Two invocations are enough for what one leaves to the next, since the container
keeps nothing but the handler, of which only its latest credentials and its first
stream matter. `MCEvents` leaves out events that differ only in what the code never
reads of them. Two containers make every token stale that can be; two records
are the least that can change places; one deletion and one resend can each be
at every point of an emit. Two edits let a target or a distribution come and go
again, with any commands before, between and after; targets and distributions do not
interact, and a second one of each lets some be there and some not. Properties of a
state are handled one by one, so three at a time show any influence of one on
another through the loop of `recast_object`; `models` needs no bound on rounds, since a
state stops changing. `IntTexts` has a text that `int()` reads and `str()` does not write
("+7") beside those it does. Three units are the first that have a middle. The limits of
`identifier` lie on both sides of 15, 17 and 18, and the lengths on both sides of every
share. Deadlock is not checked where the system stops: an identifier that is
made, a state that is rejected, an operation that is over.

Fairness: weak fairness on the steps of an invocation (Lambda runs the code it
started; every call of boto3 and requests has a timeout), and on the steps of
each container in `emit`. Nothing is assumed about CloudFormation sending
requests or about the handler beyond its coming back, but in `Operation`, where the caller goes on
with an operation that is not over (what `IN_PROGRESS` and `nextToken` ask it to do). A container that loses
every race for the token is not excluded by fairness but by the bound on
records: each rejection means that another put was taken, so `emit` ends once
the others stop logging. That much needs no bound, and is the theorem `RetriesAreCaused`.
The exception to both is `GoesInCircles`: from there only a put of somebody else, a deletion or
a call that fails gets `emit` out.

## Findings

* `HookProviderLogHandler.setup` installs the filter before it makes the log
  handler (run `hook_filter`). `ProviderLogHandler.setup` has the right order.
* The generated README promises that an exception's failure is passed back to
  CloudFormation; a failure of telemetry turns it into `InternalFailure` (run
  `error_code`). `AnswerMatchesOutcome` says exactly when: if and only if a call
  of telemetry raised. The same happens to a handler that succeeded.
* The generated README says that `package`, like `generate`, overwrites `models.py`. It does
  not, and deploys models of earlier schemas (run `packaged_models`).
* `_cast_resource_request` forgets `nextToken`: a LIST handler behind `__call__`
  answers its first page for ever (run `next_token`). The test entrypoint passes it
  on, so the contract tests do not see it. `OperationEnds` leaves out this case
  only.
* A mapping to objects with a key that is also the name of a property of those
  objects is recast wrongly, or rejected (run `recast_names`). The run `models` has no
  such key, and every type is restored.

What the passing properties say as well, though no document promises otherwise:

* records can go out with the credentials of an earlier request (`FreshCredentials`):
  those of a request that is rejected before logging is set up, and all of a request
  without `resourceType`, which is optional: `setup` then leaves the reused log handler's client
  alone (`log_delivery.py:50`), and `__call__` takes logging for set up (`resource.py:210`);
* if CloudWatch Logs turns the word "null" down as a token, a container that has logged
  before cannot log to its stream again after somebody deleted it and the code made
  it anew: its `emit` recurses until it raises (`KeepsPromise` and `RetriesHaveACause` except just
  this, see `GoesInCircles`);
* a hook's handler that returns what is no progress counts as a success in the metrics,
  while CloudFormation is told `InternalFailure` (`HookMetricsMatchOutcome`);
* a model with a set that is not empty is never answered (`OnlySetsAreUnanswered`):
  `set_or_none` makes a Python set for the handler, and neither `_serialize` nor
  `KitchenSinkEncoder` has anything for it, so a READ that returns such a model ends
  in `InternalFailure`;
* sets of objects, lists of mappings and mappings of mappings are rejected
  whenever they are there (`RejectsJustTheUnsupported`);
* an empty object in a list becomes `null` in the answer, and makes the next
  request that brings it back be rejected (`AnswerKeepsState`,
  `RejectsJustTheUnsupported`).

## Proofs

Every invariant and every action property that a passing run checks is a theorem of its
specification, but for those of `ModelSerde`, and so is the safety part of every
refinement. Each module of proofs about a specification has one inductive invariant, `IInv` (`IdentifierInv` for
identifiers), a conjunction of named parts; a lemma per part has one step per
action; `InvariantHolds` puts them together and the theorems follow from it.
TLC checked each of these invariants on the instance of its run before it was proved.

### `ResourceInvocation_proofs`, `HookInvocation_proofs`

For all constants that satisfy `CodesAssumption`, `NothingAssumption`,
`EventsAssumption` and `MaxAssumption`; for hooks `RetryAssumption` as well (any number of
retries, where the run has the code's three):

| Theorem | States |
|---|---|
| `TypeCorrect`, `HookTypeCorrect` | `TypeOK`; `HookTypeOK`, which bounds the GETs by `RetryLimit + 1` |
| `AnswerIsDetermined`, `HookAnswerIsDetermined` | `AnswerMatchesOutcome` |
| `CredentialsAreFresh`, `HookCredentialsAreFresh` | `FreshCredentials`, both ways: which records have the invocation's own credentials, and which cannot |
| `FilteredRecordsAreKept` | `FilteredRecordsHaveAHome` (false of hooks: run `hook_filter`) |
| `MetricsTellTheOutcome`, `HookMetricsTellTheOutcome` | `MetricsMatchOutcome`; `HookMetricsMatchOutcome` |
| `ModelMissingOnlyIfRefused` | `NoModelOnlyIfRefused` |
| `TokenIsEchoed` | `TokenEchoed` |
| `CallsGoForward` | `CallGoesForward`, and that a call has at most `12 + RetryLimit` statements to run |
| `ImplementsContract`, `HookImplementsContract` | `Contract!Init /\ [][Contract!Next]_(Contract!contractVars)`, the safety part of `KeepsContract` |

These properties speak of the end of an invocation; the invariant carries them
backwards, statement by statement. `ControlInv` says at each `pc` that what the
locals hold (an exception saved or in flight, a progress) is already worth the
answer that is due: `Verdict` turns a progress into its answer and `Due` is the
answer the contract promises of what has happened so far, so an action either
leaves both alone or moves both; `PromiseCases` computes the promise in each
case. `MetricsInv` says at each `pc` which metrics are out, and, between handler and
`PublishException`, that `error` holds an exception just when the metrics will have to tell one.
`CredsInv` says that the client of the log handler has the current invocation's credentials if
and only if `logsSetup` is true and the request names its type. Of hooks, `PayloadInv`
follows the download: while it lasts the target is missing and only transient replies have come, so a request
that gets past it has its target or was refused; `EchoInv` says that only
a handler's own progress is unsound, so an answer of the runtime's keeps its token.
The refinement needs one more fact, `RejectedUncalled`: a request that was turned
down never reached the handler; `ContractStep` maps each action to a step of the
contract or to a stutter.

`CallsGoForward` is what can be said of `EveryRequestEnds` without fairness: `StatementsLeft`
is a natural number that each step makes smaller, so a call that goes on at all is
over after `12 + RetryLimit` statements, whatever fails on the way. That Lambda goes on with
it is the fairness, and the conclusion from both is left to the run.

### `LogDelivery_proofs`

From `BoundsAssumption`, for any set of containers, all bounds and both services: `TypeCorrect`
(`LogTypeOK`), `CopiesAreBounded` (`DuplicatesOnlyAfterResend`), `OrderIsKept`
(`InOrder`), `RetriesAreCaused` (`RetriesHaveACause`), and `ImplementsSink`, the safety
part of `KeepsPromise`.

* Order rests on tokens: no token is issued twice and the stream expects the one
  issued last or none (`TokensInv`), so a put that was late for its token is never
  taken again, unless no token is expected; but then the stream is new and empty. The word
  "null" is below all issued tokens, so it is taken by a new stream at most (`NamedIsTaken`
  says when the token a rejection named is).
  `LateInv` says of the late puts that could still be taken that they are not older
  than what their container has in the stream.
* The bound on copies is a count: the copies of a record in the stream, its late puts, and the
  put at hand are together at most one more than botocore has sent (`CopiesInv`). A
  reply other than `accepted` shows that the put at hand is still to be paid out;
  `accepted` pays it out.
* Retries: `StatementsLeft(c)` counts the statements of a container from where it is to the
  end of its `emit`, with the token it holds, if nobody interferes; there are at most
  nine. Its own steps, but for a put that botocore sends again, make it smaller; others
  can make it larger only by a put that is taken or by a deletion. The step from a rejection to
  the next put is where it takes that `emit` does not go in circles: then the token named is
  one the stream takes. The code's
  recursion has no bound of its own, and this is the one it has.
* Refinement: `emit` leaves without an exception only on `accepted`, and then the
  stream has the record (`RepliesInv`).

### `Operation_proofs`

From `PointsAssumption`, `UnitsAssumption`, `MaxLostAssumption`, `CodesAssumption`,
`NothingAssumption` and `EventsAssumption`, for any number of units and of lost answers:
`OpTypeCorrect` (`OpTypeOK`), `WorkIsNeverRepeated` (`WorkIsDoneOnce`),
`SuccessIsEarned` (`SuccessMeansAllDone`), `EveryStepAdvances` (`OperationAdvances`),
`DeployedListsStayAtTheirFirstPage`, and `EntrypointsKeepContract`, the safety part of
`KeepsContract`.

`WorkInv` follows the position through the messages: all units
below the position of the request, of the handler's cursor and of the answer are
done, and if no answer was lost and no token forgotten (`Exact`) they are the
only ones. `Tells` says what a status and the position that comes with it are worth;
it holds of a progress, and `AnswerTells` of the answer it becomes. `ControlInv` is
that of an invocation with the several answers a test entrypoint may give
(`Allowed`), since a request that does not parse is told more there.

`EveryStepAdvances` counts statements again: eight for each invocation, with one
invocation for each unit that is before the caller and each answer that may be lost. For
it `AdvanceInv` says that the handler takes up its work where the caller has it
(`Cursor = At`) and that any position it hands back is beyond that one. Of a list
through `__call__` this is false, and what is true instead is `FirstPageInv`: its handler
never sees a token. `DeployedListsStayAtTheirFirstPage` follows: whatever the number of
pages, only the first is ever listed, and SUCCESS is answered only if there is no other. That is
the finding of the run `next_token`, for every instance.

`PointsAssumption` says that no invocation point is called LIST, without which a
hook would have pages and `WorkIsDoneOnce` would be false. The code has it so:
the names of `Action` and `HookInvocationPoint` in `interface.py` are disjoint.

### `Codegen_proofs`

From `MaxEditsAssumption`, for any sets of targets and distributions:
`CodegenTypeCorrect` (`CodegenTypeOK`), `GenerateAlwaysRepairs` (`GenerateRepairs`),
`CodeIsCurrent` (`DeployedCodeIsCurrent`), `DepsAreCurrent`
(`DeployedDepsAreCurrent`). `GenerateInv`, `CopyInv` and `InstallInv` say, at each `pc`,
what is behind the command: the targets written so far have the schemas that were
read; what is copied is the source folder unless it was edited; what is
installed is all that is required, with more only if `rmtree` failed. Nothing is
said of the disk between commands, which is why earlier commands that failed or were killed do
not matter.

### `ResourceIdentifier_proofs`

From `LimitsAssumption` and `LengthsAssumption`, for every limit and all lengths:
`IdentifierTypeCorrect` (`IdentifierTypeOK`), `IdentifierIsRight` (`IdentifierFits`),
`NamesAlwaysShow` (`BothNamesShow`), `NothingCutNeedlessly` (`CutOnlyForLength`). The
conjunction is inductive; `Shares` says what the two names get when an identifier
is made at all (at least two characters are free then), and `Returned` that such
an identifier has the properties.

### `Casts_proofs`

From `IntTextsAssumption` (`int()` reads what `str()` writes of its result), for any texts
and any number of entries. The schema's class of each property is a parameter, `classes`, or
the exception that looking for it raises:

| Theorem | States |
|---|---|
| `TypesComeBack` | a primitive of a class is restored from the string CloudFormation makes of it |
| `TypesStay` | a primitive of a class is left as it is |
| `ItemsComeBack` | a list is restored from the strings of its items |
| `PropertiesComeBack` | so are the properties of an object that are primitives, in place, each by its own class |
| `CutShortCastsAreHarmless` | what is left of a dict of primitives, cast to its end or cut short by an exception, is cast like the dict itself |

The first two are `RestoresTypes` and `RecastAgain` for primitives, the others for lists and
dicts of them: the leaves of the recursion of `recast_object`. The loops need no induction:
`Outcome` is stated over all steps at once, with the first that raises as the least
element of a set (`First`, by the library's theorem on well-founded sets).

### Only model-checked

* Liveness, which is out of the prover's reach, as is ENABLED: the fairness of
  `KeepsContract` and `KeepsPromise`, `EveryRequestEnds`, `OperationEnds`. The measures
  above (`CallsGoForward`, `RetriesAreCaused`, `EveryStepAdvances`) are what they rest on
  besides fairness.
* The properties of `ModelSerde`, which are about whole documents. `recast_object` recurses over
  documents and type hints: what it computes for every document takes induction over data,
  for which the library's theorems need a prover that is not used here, and no backend
  reads RECURSIVE operators. `Casts_proofs` has the leaves; that a mapping of objects goes
  wrong where names coincide (`recast_names`) is a matter of the recursion alone.
* The findings: each is a counterexample, which TLC shows.

## Plan

In order of importance; all of it is done.

1. `Invocation`, `ResourceInvocation`, `InvocationContract` and the proofs above.
2. `HookInvocation`.
3. `LogDelivery`, `LogSink`.
4. `Codegen`.
5. `Operation`, with the test entrypoints.
6. `Casts`, `Recast`, `ModelSerde`.
7. `ResourceIdentifier` and its proof.
8. Proofs: `MetricsMatchOutcome`; for hooks the contract, `NoModelOnlyIfRefused` and `TokenEchoed`;
   for `Operation` `WorkIsDoneOnce`, `SuccessMeansAllDone` and the contract;
   for `LogDelivery` the refinement of `LogSink`, the bound on
   copies, and order; for `Codegen` its three invariants; for `ResourceIdentifier` a
   theorem per property; the measures by which calls, retries and operations come to
   an end; the casts of primitives.

## Not modelled

`boto3_proxy.py`, `parser.py`, the templates but `models.py`, and packaging metadata have no
state or no behaviour of their own. The choice between docker and pip, and the
questions `init` asks, only decide which command `Build` runs. Sets in documents
are left out of `Recast`, for JSON has none; so are floats, which are cast like integers. A
dataclass that is called with a primitive is taken to raise, which is right for
all with more than one property (`SchemaAssumption`). Lists of lists of objects are
left out: for them the template names no class. A hook's test entrypoint answers
`status` where `__call__` answers `hookStatus`, and its fallback `hookStatus`; the models tell the value, not the key.
Of metrics, the dimensions and values; of log
records, their text; of requests, the fields that are copied and not looked at; of answers, the
message and delay. `publish_log_delivery_exception_metric` is called by
nobody: a failure of log delivery is never published as a metric, and the
docstring of `MetricsPublisherProxy` lists a method of that name which it lacks.
