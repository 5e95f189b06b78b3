------------------------- MODULE ResourceInvocation -------------------------
(* Resource.__call__: a resource provider's entrypoint, from the event Lambda *)
(* hands it to the dictionary it returns.                                     *)
EXTENDS Invocation

MUTATING_ACTIONS == {"CREATE", "UPDATE", "DELETE"}

\* A slip: the check on IN_PROGRESS is left out.
MustAnswerAtOnceNever(action) == FALSE

\* is_in_progress and not is_mutable is an error for these.
MustAnswerAtOnce(action) == action \notin MUTATING_ACTIONS

\* The handler returns a progress.  READ and LIST handlers must return
\* synchronously: an IN_PROGRESS of theirs becomes an exception.  What is not
\* a ProgressEvent fails on .status, which HandlerRaises covers.
HandlerReturns(p) ==
    /\ pc = "handler" /\ event.action \in Handled
    /\ returned' = p /\ pc' = "duration"
    /\ IF p.status = "IN_PROGRESS" /\ MustAnswerAtOnce(event.action)
       THEN error' = HandlerError("InternalFailure") /\ UNCHANGED progress
       ELSE progress' = p /\ UNCHANGED error
    /\ MayLog
    /\ UNCHANGED <<container, request, logsSetup, publishing, response, raised, published,
                   fault>>

\* A slip: no name for the stream when the request has no stackId or logical id.
AttachHandlerUnnamed ==
    IF provider = NoProvider
    THEN provider' = [stream |-> Nothing, creds |-> n] /\ filtered' = TRUE
    ELSE provider' = [provider EXCEPT !.creds = n] /\ UNCHANGED filtered

\* A slip: the client of a log handler that is already there is not refreshed.
AttachHandlerStale ==
    IF provider = NoProvider
    THEN provider' = [stream |-> event.stream, creds |-> n] /\ filtered' = TRUE
    ELSE UNCHANGED container

\* ProviderLogHandler.setup: a handler that is there gets a client with the new
\* credentials and keeps its stream; otherwise a new one is put on the root
\* logger, and then the platform's handler gets the filter.
AttachHandler ==
    IF provider = NoProvider
    THEN provider' = [stream |-> event.stream, creds |-> n] /\ filtered' = TRUE
    ELSE provider' = [provider EXCEPT !.creds = n] /\ UNCHANGED filtered

\* A slip in the order of setup: the filter first, as in HookProviderLogHandler.
ClientFailsFiltered == filtered' = TRUE /\ UNCHANGED provider

\* session.client("logs") raises: the container is as it was.
ClientFails == UNCHANGED container

SetupLogs ==
    /\ pc = "setup" /\ event.logs
    /\ \/ event.typed /\ AttachHandler
       \/ ~event.typed /\ UNCHANGED container
    /\ logsSetup' = TRUE /\ pc' = "publisher"
    /\ UNCHANGED <<request, publishing, error, progress, response, outcome, telemetry>>

SetupRaises ==
    /\ pc = "setup" /\ event.logs /\ event.typed
    /\ ClientFails
    /\ Raise(OtherException) /\ fault' = TRUE
    /\ UNCHANGED <<request, logsSetup, publishing, progress, response, outcome, published,
                   shipped>>

\* progress._serialize(), json.dumps, json.loads.
Serialize ==
    /\ pc = "serialize"
    /\ \/ progress.sound /\ response' = Answer(progress) /\ pc' = "done"
       \/ ~progress.sound /\ pc' = "fallback" /\ UNCHANGED response
    /\ UNCHANGED <<container, request, logsSetup, publishing, error, progress, outcome,
                   telemetry>>

\* The except clause of _ensure_serialize.
FallBack ==
    /\ pc = "fallback" /\ pc' = "done"
    /\ response' = Answer(Failed("InternalFailure"))
    /\ UNCHANGED <<container, request, logsSetup, publishing, error, progress, outcome,
                   telemetry>>

\* The statements of one invocation, in program order.
Step ==
    \/ ParseRequest \/ CastRequest
    \/ SetupLogs \/ SetupRaises \/ SkipTelemetry \/ AddPublisher
    \/ PublishInvocation
    \/ NoHandler
    \/ \E p \in Progress : HandlerReturns(p)
    \/ \E e \in Exceptions : HandlerRaises(e)
    \/ PublishDuration \/ PublishException
    \/ Catch \/ Serialize \/ FallBack

Next == (\E e \in Events : Receive(e)) \/ Recycle \/ Step

\* Lambda runs the code it has started; it may stop a container at any time.
Spec == Init /\ [][Next]_vars /\ WF_vars(Step)

-----------------------------------------------------------------------------
(* Properties.                                                               *)

Contract ==
    INSTANCE InvocationContract WITH
        Synchronous <- Actions \ MUTATING_ACTIONS,
        phase <- IF pc \in {"idle", "done"} THEN pc ELSE "running"

\* Resource.__call__ implements the contract: one call of the handler at most,
\* of an accepted request; one answer, the handler's or InternalFailure.
KeepsContract == Contract!Spec

\* What the contract promises of the current request.
Promised ==
    Contract!Promise(~event.parses \/ ~event.casts, event.action, returned, raised)

\* The answer is a function of what the handler did and of whether telemetry
\* raised: InternalFailure if it did (even after the handler had succeeded),
\* the handler's status and error code if it did not.
AnswerMatchesOutcome ==
    pc = "done" =>
        response = IF fault THEN Contract!Internal ELSE Promised

\* A reader of the metrics can reconstruct the invocation: with a publisher and
\* no telemetry failure, duration is published once the handler came back other
\* than by a BaseException, and an exception metric exactly when the handler or
\* the check on its progress raised an Exception.
MetricsMatchOutcome ==
    LET refused == returned.status = "IN_PROGRESS" /\ event.action \notin MUTATING_ACTIONS
        failed == raised \in Exceptions \ {BaseException}
    IN pc = "done" /\ publishing /\ ~fault =>
          published = {"HandlerInvocationCount"}
              \cup (IF raised = BaseException THEN {} ELSE {"HandlerInvocationDuration"})
              \cup (IF failed \/ refused THEN {"HandlerException"} ELSE {})

\* The documented promise of exceptions.py's classes: whichever of them the
\* handler raises, CloudFormation is told its error code.
RaisedErrorIsReported ==
    pc = "done" /\ raised.kind = "HandlerError" => response.code = raised.code
=============================================================================
