----------------------------- MODULE Operation -----------------------------
(* An operation of CloudFormation, or of the contract tests: invocations of   *)
(* one entrypoint, each with what the previous answer gave it to go on with:  *)
(* the callback context of an IN_PROGRESS, the nextToken of a page of a LIST.  *)
(* The handler does its work in units, one per invocation, and finds in the   *)
(* request how far it got.  The test entrypoints are modelled line for line;  *)
(* of __call__ what ResourceInvocation and HookInvocation show is taken: it    *)
(* does the same, and answers InternalFailure whenever telemetry raises.      *)
EXTENDS Interface

CONSTANTS
    Points,  \* the Actions that are invocation points of a hook
    Units,   \* the steps of a creation, the pages of a list
    MaxLost  \* bound: answers that are lost in an operation

\* No invocation point has the name of an Action: a hook has no pages.
ASSUME PointsAssumption == Points \subseteq Actions \ {"LIST"}
ASSUME UnitsAssumption == Units \in Nat \ {0}
ASSUME MaxLostAssumption == MaxLost \in Nat

MUTATING_ACTIONS == {"CREATE", "UPDATE", "DELETE"}
Tests == {"Resource.test_entrypoint", "Hook.test_entrypoint"}
OfResource == {"Resource.__call__", "Resource.test_entrypoint"}
Entries == OfResource \cup Tests \cup {"Hook.__call__"}

VARIABLES
    entry,     \* the entrypoint
    event,     \* what the runtime reads off the requests, the same in all of them
    \* the caller
    request,   \* the units done according to callbackContext and to nextToken
    lost,      \* answers lost so far
    \* an invocation
    pc,        \* the next step, of the entrypoint or of the caller
    callback,  \* the callback context the handler is called with,
    token,     \* and the nextToken of its request
    error, progress,
    next,      \* how far the handler says it is
    answer,    \* what is returned: a dictionary
    returned, raised,   \* history: what the handler did in this invocation
    \* the handler's work
    done,      \* the units that are done
    again      \* history: a unit was done a second time

caller == <<entry, event, request, lost>>
work == <<done, again>>
vars == <<caller, pc, callback, token, error, progress, next, answer, returned, raised, work>>

Cursors == 0..Units   \* 0: no callback context, no token
Running == {"parse", "handler", "except", "serialize", "fallback"}
Paged == event.action = "LIST"

\* A slip: what serialization makes of a progress has no nextToken.
AnswerOfNoToken(p, n) ==
    [status |-> p.status, code |-> p.code, token |-> 0,
     context |-> IF p.status = "IN_PROGRESS" THEN n ELSE 0]

\* The dictionary _serialize makes: the handler says how far it is in nextToken if its
\* answer is a page, in callbackContext if it wants to be called again.
AnswerOf(p, n) ==
    [status |-> p.status, code |-> p.code,
     context |-> IF p.status = "IN_PROGRESS" THEN n ELSE 0,
     token |-> IF p.status = "SUCCESS" THEN n ELSE 0]

NoReply == AnswerOf(NoProgress, 0)

OpTypeOK ==
    /\ entry \in Entries /\ event \in EventType /\ lost \in 0..MaxLost
    /\ request \in [context : Cursors, token : Cursors]
    /\ pc \in Running \cup {"invoke", "answered", "finished"}
    /\ callback \in Cursors /\ token \in Cursors /\ next \in Cursors
    /\ error \in Exceptions \cup {NoError}
    /\ progress \in Progress \cup {NoProgress}
    /\ pc \in {"serialize", "fallback"} => progress \in Progress
    /\ answer \in [status : Statuses, code : Codes \cup {NoCode}, context : Cursors, token : Cursors]
               \cup {NoReply}
    /\ returned \in Progress \cup {NoProgress} /\ raised \in Exceptions \cup {NoError}
    /\ done \subseteq 1..Units /\ again \in BOOLEAN

-----------------------------------------------------------------------------
Init ==
    /\ entry \in Entries /\ event \in Events
    /\ event.action \in Points <=> entry \notin OfResource
    /\ request = [context |-> 0, token |-> 0] /\ lost = 0 /\ pc = "invoke"
    /\ callback = 0 /\ token = 0 /\ next = 0
    /\ error = NoError /\ progress = NoProgress /\ answer = NoReply
    /\ returned = NoProgress /\ raised = NoError
    /\ done = {} /\ again = FALSE

Invoke ==
    /\ pc = "invoke" /\ pc' = "parse"
    /\ callback' = 0 /\ token' = 0 /\ next' = 0
    /\ error' = NoError /\ progress' = NoProgress /\ answer' = NoReply
    /\ returned' = NoProgress /\ raised' = NoError
    /\ UNCHANGED <<caller, work>>

Raise(e) == error' = e /\ pc' = "except" /\ UNCHANGED <<callback, token>>

\* A slip: the handler always gets an empty context.
CallbackOfNew(r) == 0

\* event.callbackContext or {}
CallbackOf(r) == r.context

\* A slip: a field of the request that to_modelled forgets.
TokenOfForgotten(r) == 0

\* UnmodelledRequest(**event.request).to_modelled: every field is handed on.
TokenOf(r) == r.token

HandRequest(new) ==
    /\ event.parses /\ event.casts /\ pc' = "handler"
    /\ callback' = CallbackOf(request) /\ token' = new
    /\ UNCHANGED error

\* Resource._parse_test_request
ParseTestRequest ==
    /\ pc = "parse" /\ entry = "Resource.test_entrypoint"
    /\ \/ HandRequest(TokenOf(request))
       \/ ~(event.parses /\ event.casts) /\ Raise(HandlerError("InternalFailure"))
    /\ UNCHANGED <<caller, progress, next, answer, returned, raised, work>>

\* Hook._parse_test_request builds the type configuration outside its try, where what
\* _deserialize raises goes through: InvalidRequest for a list it cannot read.
ParseHookTestRequest ==
    /\ pc = "parse" /\ entry = "Hook.test_entrypoint"
    /\ \/ HandRequest(0)
       \/ ~event.parses /\ Raise(HandlerError("InternalFailure"))
       \/ /\ event.parses /\ ~event.casts
          /\ \E e \in {OtherException, HandlerError("InvalidRequest")} : Raise(e)
    /\ UNCHANGED <<caller, progress, next, answer, returned, raised, work>>

\* The fields of a HandlerRequest that _cast_resource_request hands on: nextToken is
\* not among them.
CastToken(r) == 0

\* _parse_request and _cast_resource_request, or those of a hook.
ParseRequest ==
    /\ pc = "parse" /\ entry \notin Tests
    /\ \/ HandRequest(CastToken(request))
       \/ ~(event.parses /\ event.casts) /\ Raise(HandlerError("InvalidRequest"))
    /\ UNCHANGED <<caller, progress, next, answer, returned, raised, work>>

\* In __call__, logging or a metric raises: before the handler or after it.
TelemetryRaises ==
    /\ entry \notin Tests /\ pc \in Running \ {"fallback"}
    /\ progress' = Failed("InternalFailure") /\ next' = 0 /\ pc' = "serialize"
    /\ UNCHANGED <<caller, callback, token, error, answer, returned, raised, work>>

NoHandler ==
    /\ pc = "handler" /\ event.action \notin Handled
    /\ progress' = Failed("InternalFailure") /\ pc' = "serialize"
    /\ UNCHANGED <<caller, callback, token, error, next, answer, returned, raised, work>>

\* A slip: the check on IN_PROGRESS is left out.
MustAnswerAtOnceNever(action) == FALSE

\* is_in_progress and not is_mutable; a hook's answer is not looked at.
MustAnswerAtOnce(action) == entry \in OfResource /\ action \notin MUTATING_ACTIONS

\* _invoke_handler, of a handler that returned p and is n units far.
Returns(p, n) ==
    /\ returned' = p
    /\ IF p.status = "IN_PROGRESS" /\ MustAnswerAtOnce(event.action)
       THEN error' = HandlerError("InternalFailure") /\ pc' = "except" /\ UNCHANGED <<progress, next>>
       ELSE progress' = p /\ next' = n /\ pc' = "serialize" /\ UNCHANGED error
    /\ UNCHANGED <<caller, callback, token, answer, raised>>

\* The handler does the unit its request is at.  The last one ends a creation; each is
\* a page of a list, if its author knows that a list is not IN_PROGRESS.  What it
\* returns may be no JSON.
HandlerWorks ==
    LET unit == 1 + IF Paged THEN token ELSE callback
        more == unit < Units
        statuses == CASE Paged -> {"SUCCESS", "IN_PROGRESS"}
                      [] ~Paged /\ more -> {"IN_PROGRESS"}
                      [] OTHER -> {"SUCCESS"}
    IN /\ pc = "handler" /\ event.action \in Handled
       /\ \E s \in statuses, sound \in BOOLEAN :
             Returns([status |-> s, code |-> NoCode, sound |-> sound], IF more THEN unit ELSE 0)
       /\ done' = done \cup {unit} /\ again' = (again \/ unit \in done)

HandlerRefuses(code) ==
    /\ pc = "handler" /\ event.action \in Handled
    /\ Returns(Failed(code), 0)
    /\ UNCHANGED work

HandlerRaises(e) ==
    /\ pc = "handler" /\ event.action \in Handled
    /\ raised' = e /\ Raise(e)
    /\ UNCHANGED <<caller, progress, next, answer, returned, work>>

\* What the except clauses of a test entrypoint make of e: LOG does not raise there, for
\* its container has no provider log handler.
FailureOf(e) == Failed(IF e.kind = "HandlerError" THEN e.code ELSE "InternalFailure")

\* A slip: only a _HandlerError's clause makes a progress.
CatchHandlerError ==
    /\ pc = "except" /\ pc' = "serialize"
    /\ progress' = IF error.kind = "HandlerError" THEN FailureOf(error) ELSE progress
    /\ UNCHANGED <<caller, callback, token, error, next, answer, returned, raised, work>>

\* The except clauses, and what comes after them: in __call__ the same.
Catch ==
    /\ pc = "except" /\ pc' = "serialize"
    /\ progress' = FailureOf(error)
    /\ UNCHANGED <<caller, callback, token, error, next, answer, returned, raised, work>>

\* _ensure_serialize: json.dumps, which calls _serialize.
Serialize ==
    /\ pc = "serialize"
    /\ \/ progress.sound /\ answer' = AnswerOf(progress, next) /\ pc' = "answered"
       \/ ~progress.sound /\ pc' = "fallback" /\ UNCHANGED answer
    /\ UNCHANGED <<caller, callback, token, error, progress, next, returned, raised, work>>

\* Its except clause.
FallBack ==
    /\ pc = "fallback" /\ pc' = "answered"
    /\ answer' = AnswerOf(Failed("InternalFailure"), 0)
    /\ UNCHANGED <<caller, callback, token, error, progress, next, returned, raised, work>>

\* The caller goes on with what the answer gives it, or is done.
GoOn ==
    /\ pc = "answered"
    /\ \/ /\ answer.status = "IN_PROGRESS" /\ pc' = "invoke"
          /\ request' = [request EXCEPT !.context = answer.context]
       \/ /\ answer.status = "SUCCESS" /\ Paged /\ answer.token # 0 /\ pc' = "invoke"
          /\ request' = [context |-> 0, token |-> answer.token]
       \/ /\ answer.status # "IN_PROGRESS" /\ ~(answer.status = "SUCCESS" /\ Paged /\ answer.token # 0)
          /\ pc' = "finished" /\ UNCHANGED request
    /\ UNCHANGED <<entry, event, lost, callback, token, error, progress, next, answer, returned,
                   raised, work>>

\* The answer does not arrive: the caller sends its request again.
LoseAnswer ==
    /\ pc = "answered" /\ lost < MaxLost
    /\ lost' = lost + 1 /\ pc' = "invoke"
    /\ UNCHANGED <<entry, event, request, callback, token, error, progress, next, answer, returned,
                   raised, work>>

Step ==
    \/ ParseTestRequest \/ ParseHookTestRequest \/ ParseRequest \/ TelemetryRaises
    \/ NoHandler \/ HandlerWorks
    \/ \E code \in Codes : HandlerRefuses(code)
    \/ \E e \in Exceptions : HandlerRaises(e)
    \/ Catch \/ Serialize \/ FallBack

Next == Invoke \/ Step \/ GoOn \/ LoseAnswer

\* An invocation that started runs on; the caller goes on with an operation that is
\* not over.
Spec == Init /\ [][Next]_vars /\ WF_vars(Step) /\ WF_vars(Invoke) /\ WF_vars(GoOn)

-----------------------------------------------------------------------------
(* Properties.                                                               *)

Contract ==
    INSTANCE InvocationContract WITH
        Synchronous <- Actions \ (MUTATING_ACTIONS \cup Points),
        response <- Answer(answer),
        phase <- CASE pc \in Running -> "running"
                   [] pc = "invoke" /\ answer = NoReply -> "idle"
                   [] OTHER -> "done"

\* The test entrypoints keep the contract of __call__: what the contract tests are
\* told is what CloudFormation would be told, but for a request that is refused.
KeepsContract == Contract!Spec

DeployedList == Paged /\ entry = "Resource.__call__"

\* What the handler put into its callback context or token comes back to it: no unit
\* of its work is done twice unless an answer was lost, and none is left out.
WorkIsDoneOnce ==
    /\ again /\ ~DeployedList => lost > 0
    /\ \A u \in done : 1..u \subseteq done

\* An operation that ends in SUCCESS has done all of its work.
SuccessMeansAllDone == pc = "finished" /\ answer.status = "SUCCESS" => done = 1..Units

\* Every operation ends, whatever its handler raises or returns and whatever is lost;
\* that of a list with more than one page through __call__ need not.
OperationEnds == pc = "invoke" /\ ~DeployedList ~> pc = "finished"

\* The same of a list through __call__: a handler is given the token it returned with
\* the previous page, as the request has it.
ListingEnds == pc = "invoke" /\ DeployedList ~> pc = "finished"

\* The statements that are still to run, at most: those of this invocation, and as many
\* again for each unit the caller has before it and each answer that may be lost.
At == IF Paged THEN request.token ELSE request.context
StatementsLeft ==
    8 * (Units - At + MaxLost - lost)
        + CASE pc = "invoke" -> 8
            [] pc = "parse" -> 7
            [] pc = "handler" -> 6
            [] pc = "except" -> 5
            [] pc = "serialize" -> IF progress = Failed("InternalFailure") /\ next = 0 THEN 3 ELSE 4
            [] pc = "fallback" -> 2
            [] pc = "answered" -> 1
            [] pc = "finished" -> 0

\* Every answer that asks its caller to go on takes the operation a unit further, so that
\* none goes round in circles, in whatever units the handler works.
OperationAdvances == [][~DeployedList => StatementsLeft' < StatementsLeft]_vars
=============================================================================
