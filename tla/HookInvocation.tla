--------------------------- MODULE HookInvocation ---------------------------
(* Hook.__call__: a hook's entrypoint.  It differs from a resource's in the   *)
(* target model, which may have to be downloaded; in the order in which       *)
(* logging is set up; in a handler whose progress is not looked at; and in an *)
(* answer that carries the request's clientRequestToken.                      *)
EXTENDS Invocation

CONSTANT RetryLimit    \* HOOK_REMOTE_PAYLOAD_RETRY_LIMIT

ASSUME RetryAssumption == RetryLimit \in Nat

\* What a GET of the payload comes to: a model; 200 with a body that is not
\* JSON; any other status that is handed back; what is retried as long as a
\* retry is left (a status of HOOK_REMOTE_PAYLOAD_RETRY_STATUSES, a refused
\* connection, a timeout).
Replies == {"model", "garbled", "refused", "transient"}

VARIABLES
    tries,     \* GETs made for this request
    reply,     \* what the last one came to
    target,    \* the target model of the request: "inline", "downloaded", "missing"
    echoed     \* the answer carries the clientRequestToken of the request

hookLocals == <<tries, reply, target, echoed>>
hookVars == <<vars, hookLocals>>

HookTypeOK ==
    /\ TypeOK
    /\ tries \in 0..(RetryLimit + 1)
    /\ reply \in Replies \cup {Nothing}
    /\ target \in {"inline", "downloaded", "missing"}
    /\ echoed \in BOOLEAN

\* The target model of a request before anything is downloaded.
Given(e) == IF e.remote THEN "missing" ELSE "inline"

FreshLocals(e) ==
    /\ tries' = 0 /\ reply' = Nothing /\ target' = Given(e) /\ echoed' = FALSE

HookInit == Init /\ tries = 0 /\ reply = Nothing /\ target = Given(event) /\ echoed = FALSE

HookReceive(e) == Receive(e) /\ FreshLocals(e)
HookRecycle == Recycle /\ FreshLocals(event)

\* The rest of _parse_request, once the request data is there.
ParseRest ==
    \/ event.parses /\ pc' = "cast" /\ UNCHANGED <<error, telemetry>>
    \/ ~event.parses /\ RejectRequest

\* A request that does not parse may fail before its payload is fetched or after.
ParseHookRequest ==
    /\ pc = "parse"
    /\ \/ event.remote /\ pc' = "fetch" /\ UNCHANGED <<error, telemetry>>
       \/ ~event.remote /\ ParseRest
       \/ event.remote /\ ~event.parses /\ RejectRequest
    /\ UNCHANGED <<container, request, logsSetup, publishing, progress, response, outcome,
                   hookLocals>>

\* A slip in the retry policy: raise_on_status=False, so that the last retried
\* status is handed back like any other.
GiveUpQuietly == ParseRest

\* No retry is left: requests raises, and the request is rejected.
GiveUp == RejectRequest

\* A slip: one retry too many.
MayRetryOnceMore == tries <= RetryLimit

\* Retry(total=HOOK_REMOTE_PAYLOAD_RETRY_LIMIT) counts what follows the first GET.
MayRetry == tries < RetryLimit

\* One GET of the payload.  A status that is not retried leaves the request
\* without a target model, and goes on.
Fetch ==
    /\ pc = "fetch" /\ tries' = tries + 1
    /\ \/ reply' = "model" /\ target' = "downloaded" /\ ParseRest
       \/ reply' = "garbled" /\ UNCHANGED target /\ RejectRequest
       \/ reply' = "refused" /\ UNCHANGED target /\ ParseRest
       \/ /\ reply' = "transient" /\ UNCHANGED target
          /\ \/ MayRetry /\ UNCHANGED <<pc, error, telemetry>>
             \/ ~MayRetry /\ GiveUp
    /\ UNCHANGED <<container, request, logsSetup, publishing, progress, response, outcome,
                   echoed>>

\* The handler returns p; whatever it is, it is what progress holds.  What is not
\* a ProgressEvent fails in _create_progress_response, like a p that is not sound.
HookHandlerReturns(p) ==
    /\ pc = "handler" /\ event.action \in Handled
    /\ returned' = p /\ progress' = p /\ pc' = "duration"
    /\ MayLog
    /\ UNCHANGED <<container, request, logsSetup, publishing, error, response, raised,
                   published, fault, hookLocals>>

\* A slip: the client of a log handler that is already there is not refreshed.
AttachHookHandlerStale ==
    IF provider = NoProvider
    THEN provider' = [stream |-> event.stream, creds |-> n] /\ filtered' = TRUE
    ELSE UNCHANGED container

\* HookProviderLogHandler.setup on a container whose client can be made: the
\* platform's handler gets the filter, then the log handler is put on the root.
AttachHookHandler ==
    IF provider = NoProvider
    THEN filtered' = TRUE /\ provider' = [stream |-> event.stream, creds |-> n]
    ELSE provider' = [provider EXCEPT !.creds = n] /\ UNCHANGED filtered

HookSetupLogs ==
    /\ pc = "setup" /\ event.logs
    /\ \/ event.typed /\ AttachHookHandler
       \/ ~event.typed /\ UNCHANGED container
    /\ logsSetup' = TRUE /\ pc' = "publisher"
    /\ UNCHANGED <<request, publishing, error, progress, response, outcome, telemetry,
                   hookLocals>>

\* session.client("logs") raises.  A new log handler's filter is already on the
\* platform's handler, and stays there.
HookSetupRaises ==
    /\ pc = "setup" /\ event.logs /\ event.typed
    /\ filtered' = (filtered \/ provider = NoProvider)
    /\ Raise(OtherException) /\ fault' = TRUE
    /\ UNCHANGED <<provider, request, logsSetup, publishing, progress, response, outcome,
                   published, shipped, hookLocals>>

\* A slip: the branch for the newest status was forgotten.
HookStatusWithoutSkip(status) ==
    IF status \in {"PENDING", "IN_PROGRESS", "SUCCESS"} THEN status ELSE "FAILED"

\* Hook._get_hook_status
HookStatus(status) == IF status \in Statuses \ {"FAILED"} THEN status ELSE "FAILED"

\* A slip in the last statement: the token taken from the parsed request, which
\* there is none of when parsing failed.
TokenOfParsed == event.parses

\* The token is taken from the raw event.
TokenOfEvent == TRUE

\* _create_progress_response(progress, event_data)._serialize(), json.dumps.
HookSerialize ==
    /\ pc = "serialize"
    /\ \/ /\ progress.sound /\ pc' = "done" /\ echoed' = TokenOfEvent
          /\ response' = [status |-> HookStatus(progress.status), code |-> progress.code]
       \/ ~progress.sound /\ pc' = "fallback" /\ UNCHANGED <<response, echoed>>
    /\ UNCHANGED <<container, request, logsSetup, publishing, error, progress, outcome,
                   telemetry, tries, reply, target>>

\* The except clause of _ensure_serialize: _create_progress_response(..., None).
HookFallBack ==
    /\ pc = "fallback" /\ pc' = "done" /\ echoed' = FALSE
    /\ response' = Answer(Failed("InternalFailure"))
    /\ UNCHANGED <<container, request, logsSetup, publishing, error, progress, outcome,
                   telemetry, tries, reply, target>>

\* The statements a hook shares with a resource.
SharedStep ==
    /\ \/ CastRequest \/ SkipTelemetry \/ AddPublisher
       \/ PublishInvocation \/ NoHandler
       \/ \E e \in Exceptions : HandlerRaises(e)
       \/ PublishDuration \/ PublishException \/ Catch
    /\ UNCHANGED hookLocals

HookStep ==
    \/ ParseHookRequest \/ Fetch
    \/ HookSetupLogs \/ HookSetupRaises
    \/ \E p \in Progress : HookHandlerReturns(p)
    \/ SharedStep
    \/ HookSerialize \/ HookFallBack

HookNext == (\E e \in Events : HookReceive(e)) \/ HookRecycle \/ HookStep

\* Lambda runs the code it has started; it may stop a container at any time.
HookSpec == HookInit /\ [][HookNext]_hookVars /\ WF_hookVars(HookStep)

-----------------------------------------------------------------------------
(* Properties.                                                               *)

Contract ==
    INSTANCE InvocationContract WITH
        Synchronous <- {},
        phase <- IF pc \in {"idle", "done"} THEN pc ELSE "running"

\* Hook.__call__ implements the same contract as a resource's entrypoint, with
\* no action that must be answered at once.
KeepsContract == Contract!Spec

\* The request was turned down before the handler could run: it could not be
\* deserialized, its payload not downloaded, or its models not built.
Rejected == ~event.parses \/ ~event.casts \/ reply \in {"garbled", "transient"}

\* The answer is a function of what the handler did, of how the download ended
\* and of whether telemetry raised.
AnswerMatchesOutcome ==
    pc = "done" =>
        response = IF fault THEN Contract!Internal
                   ELSE Contract!Promise(Rejected, event.action, returned, raised)

\* A handler runs without the target model only when the store refused to give
\* it (any status but 200 that is not retried), never because retries ran out
\* or the body was garbled.
NoModelOnlyIfRefused ==
    (returned # NoProgress \/ raised # NoError) => target # "missing" \/ reply = "refused"

\* The answer to a rejected request carries its clientRequestToken, so that the
\* caller can be called back; an answer loses it only when the handler's
\* progress is no JSON or the log handler raised after logging was set up.
TokenEchoed ==
    pc = "done" /\ ~echoed =>
        (returned # NoProgress /\ ~returned.sound) \/ (logsSetup /\ fault)

\* The metrics tell what a hook's handler did, not what was answered: with a publisher
\* and no telemetry failure, the exception metric is out exactly when the handler raised
\* an Exception.  A result that is no usable progress is counted as a success, although
\* it is answered with InternalFailure.
HookMetricsMatchOutcome ==
    pc = "done" /\ publishing /\ ~fault =>
        published = {"HandlerInvocationCount"}
            \cup (IF raised = BaseException THEN {} ELSE {"HandlerInvocationDuration"})
            \cup (IF raised \in Exceptions \ {BaseException} THEN {"HandlerException"} ELSE {})

\* The statements of the call that are still to run, at most.
StatementsLeft ==
    CASE pc = "parse" -> 12 + RetryLimit
      [] pc = "fetch" -> 11 + RetryLimit - tries
      [] pc = "cast" -> 10
      [] pc = "setup" -> 9
      [] pc = "publisher" -> 8
      [] pc = "invocation" -> 7
      [] pc = "handler" -> 6
      [] pc = "duration" -> 5
      [] pc = "exception" -> 4
      [] pc = "except" -> 3
      [] pc = "serialize" -> 2
      [] pc = "fallback" -> 1
      [] OTHER -> 0

\* Whatever the store answers, and whatever raises in an except clause, a call goes
\* forward only: it is over after a fixed number of statements and the GETs it may make.
CallGoesForward == [][(pc \in Running) => StatementsLeft' < StatementsLeft]_hookVars
=============================================================================
