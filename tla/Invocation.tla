----------------------------- MODULE Invocation -----------------------------
(* What Resource.__call__ and Hook.__call__ have in common: one warm Lambda *)
(* container answering one invocation after another, the log handler on its  *)
(* root logger that outlives an invocation, the metrics it publishes, and    *)
(* the exceptions that unwind through it.                                    *)
(*                                                                           *)
(* An invocation is a thread of control: pc names the next statement.  A     *)
(* call of CloudWatch (a metric, a log record) is one step with all the      *)
(* outcomes the code distinguishes: it returns, it raises ClientError, or it *)
(* raises something else.  ResourceInvocation and HookInvocation extend this *)
(* module with their own handlers.                                           *)
EXTENDS Interface

CONSTANT MaxInvocations   \* bound: invocations in a behaviour

ASSUME MaxAssumption == MaxInvocations \in Nat

\* MetricTypes
Metrics == {"HandlerException", "HandlerInvocationCount", "HandlerInvocationDuration"}

\* ProviderLogHandler: the stream it was made for and the invocation whose
\* credentials its client holds.
NoProvider == [stream |-> Nothing, creds |-> 0]
Providers == [stream : Streams, creds : 1..MaxInvocations]

\* A log record, as far as the properties tell it: with whose credentials and to
\* which stream it goes, and whether it was written after logs_setup was set.
LogRecords == [creds : 1..MaxInvocations, stream : Streams, setup : BOOLEAN]

VARIABLES
    provider,    \* the ProviderLogHandler on the root logger
    filtered,    \* the platform's own log handler has a ProviderFilter
    n,           \* invocations received so far; the current one's credentials
    event,       \* the request being answered
    pc,          \* the next statement of __call__
    logsSetup,   \* local variable logs_setup
    publishing,  \* the MetricsPublisherProxy holds a publisher
    error,       \* the exception saved or in flight
    progress,    \* local variable progress
    response,    \* what was returned to Lambda
    \* history of the current invocation
    returned,    \* what the handler returned
    raised,      \* what the handler raised
    published,   \* the put_metric_data calls made
    shipped,     \* the log records handed to the provider log handler
    fault        \* a call of CloudWatch raised out of the telemetry

container == <<provider, filtered>>
request == <<n, event>>
telemetry == <<published, shipped, fault>>
outcome == <<returned, raised>>
vars == <<container, request, pc, logsSetup, publishing, error, progress, response,
          outcome, telemetry>>

Running == {"parse", "fetch", "cast", "setup", "publisher", "invocation", "handler", "duration",
            "exception", "except", "serialize", "fallback"}

TypeOK ==
    /\ provider \in Providers \cup {NoProvider}
    /\ filtered \in BOOLEAN
    /\ n \in 0..MaxInvocations
    /\ event \in EventType
    /\ pc \in Running \cup {"idle", "done"}
    /\ logsSetup \in BOOLEAN
    /\ publishing \in BOOLEAN
    /\ error \in Exceptions \cup {NoError}
    /\ progress \in Progress \cup {NoProgress}
    /\ response \in Answers \cup {NoAnswer}
    /\ returned \in Progress \cup {NoProgress}
    /\ raised \in Exceptions \cup {NoError}
    /\ published \subseteq Metrics
    /\ shipped \subseteq LogRecords
    /\ fault \in BOOLEAN

-----------------------------------------------------------------------------
(* Steps that are part of every action.                                      *)

Raise(e) == error' = e /\ pc' = "except"

\* A log record reaches the provider log handler, if there is one, and is sent
\* with the client it holds.
Ship ==
    shipped' = IF provider = NoProvider THEN shipped
               ELSE shipped \cup {[creds |-> provider.creds, stream |-> provider.stream,
                                   setup |-> logsSetup]}

\* What a handler does with its own logger is up to it.
MayLog == Ship \/ UNCHANGED shipped

\* LOG.exception and LOG.error return: emit delivered the record.
Logged == Ship /\ UNCHANGED fault

\* emit raises what _put_log_event or a create call raised: the exception
\* leaves the LOG call, whatever that call was reporting.
LogFails == provider # NoProvider /\ Ship /\ fault' = TRUE

\* except Exception as e: LOG.exception(...); raise InvalidRequest(...) from e
RejectRequest ==
    /\ \/ Logged /\ Raise(HandlerError("InvalidRequest"))
       \/ LogFails /\ Raise(OtherException)
    /\ UNCHANGED published

\* MetricsPublisherProxy.publish_*: nothing without a publisher; a ClientError
\* is logged and swallowed, any other exception leaves the publisher.
Publish(metric, next) ==
    \/ ~publishing /\ pc' = next /\ UNCHANGED <<error, telemetry>>
    \/ /\ publishing
       /\ published' = published \cup {metric}
       /\ \/ pc' = next /\ UNCHANGED <<error, shipped, fault>>
          \/ Logged /\ pc' = next /\ UNCHANGED error
          \/ LogFails /\ Raise(OtherException)
          \/ fault' = TRUE /\ Raise(OtherException) /\ UNCHANGED shipped

-----------------------------------------------------------------------------
(* The statements of __call__ that Resource and Hook share.                  *)

Init ==
    /\ provider = NoProvider /\ filtered = FALSE
    /\ n = 0 /\ event \in Events
    /\ pc = "idle"
    /\ logsSetup = FALSE /\ publishing = FALSE
    /\ error = NoError /\ progress = NoProgress /\ response = NoAnswer
    /\ returned = NoProgress /\ raised = NoError
    /\ published = {} /\ shipped = {} /\ fault = FALSE

\* Lambda hands the container the next request.  The locals of __call__ are new.
Receive(e) ==
    /\ pc \in {"idle", "done"} /\ n < MaxInvocations
    /\ n' = n + 1 /\ event' = e /\ pc' = "parse"
    /\ logsSetup' = FALSE /\ publishing' = FALSE
    /\ error' = NoError /\ progress' = NoProgress /\ response' = NoAnswer
    /\ returned' = NoProgress /\ raised' = NoError
    /\ published' = {} /\ shipped' = {} /\ fault' = FALSE
    /\ UNCHANGED container

\* Lambda stops the container (a timeout, or idleness) and starts a new one.
Recycle ==
    /\ pc' = "idle" /\ provider' = NoProvider /\ filtered' = FALSE
    /\ logsSetup' = FALSE /\ publishing' = FALSE
    /\ error' = NoError /\ progress' = NoProgress /\ response' = NoAnswer
    /\ returned' = NoProgress /\ raised' = NoError
    /\ published' = {} /\ shipped' = {} /\ fault' = FALSE
    /\ UNCHANGED request

ParseRequest ==
    /\ pc = "parse"
    /\ \/ event.parses /\ pc' = "cast" /\ UNCHANGED <<error, telemetry>>
       \/ ~event.parses /\ RejectRequest
    /\ UNCHANGED <<container, request, logsSetup, publishing, progress, response, outcome>>

CastRequest ==
    /\ pc = "cast"
    /\ \/ event.casts /\ pc' = "setup" /\ UNCHANGED <<error, telemetry>>
       \/ ~event.casts /\ RejectRequest
    /\ UNCHANGED <<container, request, logsSetup, publishing, progress, response, outcome>>

\* The branch that sets up logs and metrics is not taken.
SkipTelemetry ==
    /\ pc = "setup" /\ ~event.logs
    /\ pc' = "invocation"
    /\ UNCHANGED <<container, request, logsSetup, publishing, error, progress, response,
                   outcome, telemetry>>

\* metrics.add_metrics_publisher: no publisher without a type name; making the
\* CloudWatch client may raise.
AddPublisher ==
    /\ pc = "publisher"
    /\ \/ publishing' = event.typed /\ pc' = "invocation" /\ UNCHANGED <<error, fault>>
       \/ event.typed /\ Raise(OtherException) /\ fault' = TRUE /\ UNCHANGED publishing
    /\ UNCHANGED <<container, request, logsSetup, progress, response, outcome, published,
                   shipped>>

PublishInvocation ==
    /\ pc = "invocation"
    /\ Publish("HandlerInvocationCount", "handler")
    /\ UNCHANGED <<container, request, logsSetup, publishing, progress, response, outcome>>

\* _invoke_handler finds no handler: a failed progress is returned, not raised.
NoHandler ==
    /\ pc = "handler" /\ event.action \notin Handled
    /\ progress' = Failed("InternalFailure") /\ pc' = "duration"
    /\ UNCHANGED <<container, request, logsSetup, publishing, error, response, outcome,
                   telemetry>>

\* The handler raises e.  The failure of a log record of its own is among the exceptions
\* it may raise.  A BaseException is not saved: it skips both metrics.
HandlerRaises(e) ==
    /\ pc = "handler" /\ event.action \in Handled
    /\ raised' = e /\ error' = e
    /\ pc' = IF e.kind = "BaseException" THEN "except" ELSE "duration"
    /\ MayLog
    /\ UNCHANGED <<container, request, logsSetup, publishing, progress, response, returned,
                   published, fault>>

\* A slip: only unexpected exceptions get an exception metric.
AfterDurationUnexpected ==
    CASE error = NoError -> "serialize"
      [] error.kind = "HandlerError" -> "except"
      [] OTHER -> "exception"

\* if error: publish_exception_metric
AfterDuration == IF error = NoError THEN "serialize" ELSE "exception"

PublishDuration ==
    /\ pc = "duration"
    /\ Publish("HandlerInvocationDuration", AfterDuration)
    /\ UNCHANGED <<container, request, logsSetup, publishing, progress, response, outcome>>

\* metrics.publish_exception_metric; raise error
PublishException ==
    /\ pc = "exception"
    /\ Publish("HandlerException", "except")
    /\ UNCHANGED <<container, request, logsSetup, publishing, progress, response, outcome>>

\* A slip in the order of the except clauses: Exception before _HandlerError.
FailureForBroadFirst(e) == Failed("InternalFailure")

\* The progress the except clause that catches e answers with.
FailureFor(e) == Failed(IF e.kind = "HandlerError" THEN e.code ELSE "InternalFailure")

\* A slip in the except clauses: none for BaseException.
CatchNoBase ==
    /\ pc = "except" /\ error.kind # "BaseException"
    /\ progress' = FailureFor(error) /\ pc' = "serialize"
    /\ UNCHANGED <<container, request, logsSetup, publishing, error, response, outcome,
                   telemetry>>

\* except ... as e: print_or_log(...); progress = ...  A record that cannot be
\* logged leaves __call__ with the exception of the log handler.
Catch ==
    /\ pc = "except"
    /\ \/ ~logsSetup /\ progress' = FailureFor(error) /\ pc' = "serialize"
          /\ UNCHANGED <<shipped, fault>>
       \/ logsSetup /\ Logged /\ progress' = FailureFor(error) /\ pc' = "serialize"
       \/ logsSetup /\ LogFails /\ pc' = "fallback" /\ UNCHANGED progress
    /\ UNCHANGED <<container, request, logsSetup, publishing, error, response, outcome,
                   published>>

-----------------------------------------------------------------------------
(* Properties of both entrypoints.                                           *)

\* A log record is sent with this invocation's credentials if, and only if, logging
\* was set up for it and its request names a type.  What is written before that, and
\* everything of a request without a type in a container that has a log handler, goes
\* out with the credentials an earlier request left behind: setup leaves the client
\* alone then, and logs_setup is set all the same.
FreshCredentials ==
    \A r \in shipped : r.creds = n <=> r.setup /\ event.typed

\* Records the filter keeps from the platform's log go to the provider's: the
\* platform's handler is filtered only while a provider log handler is there.
FilteredRecordsHaveAHome == filtered => provider # NoProvider

\* Every request Lambda hands over is answered, unless the container is stopped.
EveryRequestEnds == pc \in Running ~> pc \in {"idle", "done"}
=============================================================================
