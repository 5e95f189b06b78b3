-------------------------- MODULE Invocation_proofs --------------------------
(* Lemmas about the statements that Resource.__call__ and Hook.__call__ share: *)
(* what they leave in the variables, and how they leave the log handler and    *)
(* the records it was handed.                                                  *)
EXTENDS Invocation, TLAPS

\* The values the runtime builds have the types the variables hold.
LEMMA Values ==
  /\ \A c \in Codes : Failed(c) \in Progress /\ HandlerError(c) \in Exceptions
  /\ OtherException \in Exceptions /\ BaseException \in Exceptions
  /\ \A p \in Progress : Answer(p) \in Answers
  /\ \A e \in Exceptions \cup {NoError} : FailureFor(e) \in Progress
  /\ "InternalFailure" \in Codes /\ "InvalidRequest" \in Codes
  <1>1. "InternalFailure" \in Codes /\ "InvalidRequest" \in Codes
    BY CodesAssumption
  <1>2. \A c \in Codes : Failed(c) \in Progress /\ HandlerError(c) \in Exceptions
    BY DEF Failed, Progress, Statuses, HandlerError, Exceptions
  <1>3. OtherException \in Exceptions /\ BaseException \in Exceptions
    BY DEF Exceptions
  <1>4. \A p \in Progress : Answer(p) \in Answers
    BY DEF Answer, Progress, Answers
  <1>5. \A e \in Exceptions \cup {NoError} : FailureFor(e) \in Progress
    <2> TAKE e \in Exceptions \cup {NoError}
    <2>1. e.kind = "HandlerError" => e.code \in Codes
      BY DEF Exceptions, HandlerError, OtherException, BaseException, NoError, Nothing
    <2>2. (IF e.kind = "HandlerError" THEN e.code ELSE "InternalFailure") \in Codes
      BY <1>1, <2>1
    <2>. QED
      BY <1>2, <2>2 DEF FailureFor
  <1>. QED
    BY <1>1, <1>2, <1>3, <1>4, <1>5

\* A shipped record is stamped with the handler's stream and credentials.
LEMMA ShipType == TypeOK /\ Ship => shipped' \subseteq LogRecords
  <1> SUFFICES ASSUME TypeOK, Ship PROVE shipped' \subseteq LogRecords
    OBVIOUS
  <1>1. CASE provider = NoProvider
    BY <1>1 DEF TypeOK, Ship
  <1>2. CASE provider # NoProvider
    <2>1. provider \in Providers
      BY <1>2 DEF TypeOK
    <2>2. [creds |-> provider.creds, stream |-> provider.stream,
           setup |-> logsSetup] \in LogRecords
      BY <2>1 DEF TypeOK, Providers, LogRecords
    <2>. QED
      BY <1>2, <2>2 DEF TypeOK, Ship
  <1>. QED
    BY <1>1, <1>2

-----------------------------------------------------------------------------
(* Types.                                                                      *)

\* The current invocation has a number, hence credentials of its own.
Started == pc # "idle" => n \in 1..MaxInvocations

\* The statements that are the same for a resource and for a hook, but for those
\* that parse the request.
SharedStatements ==
    \/ CastRequest \/ SkipTelemetry \/ AddPublisher
    \/ PublishInvocation \/ NoHandler
    \/ \E e \in Exceptions : HandlerRaises(e)
    \/ PublishDuration \/ PublishException \/ Catch

LEMMA TypeInit == Init => TypeOK /\ Started
  <1> SUFFICES ASSUME Init PROVE TypeOK /\ Started
    OBVIOUS
  <1>1. n \in 0..MaxInvocations /\ event \in EventType
    BY MaxAssumption, EventsAssumption DEF Init
  <1>. QED
    BY <1>1 DEF Init, TypeOK, Started

\* A new invocation, or a new container, starts from well-typed variables.
LEMMA ReceiveType ==
  ASSUME TypeOK, Started, Recycle \/ \E e \in Events : Receive(e)
  PROVE  TypeOK' /\ Started'
  <1> USE DEF TypeOK, Started, Running, container, request
  <1>1. CASE Recycle
    BY <1>1 DEF Recycle
  <1>2. ASSUME NEW e \in Events, Receive(e) PROVE TypeOK' /\ Started'
    <2>1. n' \in 0..MaxInvocations /\ n' \in 1..MaxInvocations /\ event' \in EventType
      BY <1>2, MaxAssumption, EventsAssumption DEF Receive
    <2>. QED
      BY <1>2, <2>1 DEF Receive
  <1>. QED
    BY <1>1, <1>2

\* A statement of a running invocation that leaves the container and the request
\* alone keeps the types if what it writes has its type.
LEMMA StatementType ==
  ASSUME TypeOK, Started, pc # "idle",
         UNCHANGED <<container, request, logsSetup, publishing, response, outcome>>,
         pc' \in Running, error' \in Exceptions \cup {NoError},
         progress' \in Progress \cup {NoProgress},
         published' \subseteq Metrics, Ship \/ UNCHANGED shipped, fault' \in BOOLEAN
  PROVE  TypeOK' /\ Started'
  <1>1. shipped' \subseteq LogRecords
    <2>1. CASE Ship
      BY <2>1, ShipType
    <2>2. CASE UNCHANGED shipped
      BY <2>2 DEF TypeOK
    <2>. QED
      BY <2>1, <2>2
  <1>2. /\ provider' \in Providers \cup {NoProvider} /\ filtered' \in BOOLEAN
        /\ n' \in 0..MaxInvocations /\ event' \in EventType
        /\ logsSetup' \in BOOLEAN /\ publishing' \in BOOLEAN
        /\ response' \in Answers \cup {NoAnswer}
        /\ returned' \in Progress \cup {NoProgress} /\ raised' \in Exceptions \cup {NoError}
    BY DEF TypeOK, container, request, outcome
  <1>3. Started'
    BY DEF Started, request
  <1>. QED
    BY <1>1, <1>2, <1>3 DEF TypeOK

\* Turning a request down, and publishing a metric, write no more than that.
LEMMA RejectType ==
  ASSUME TypeOK, RejectRequest
  PROVE  /\ pc' = "except" /\ error' \in Exceptions
         /\ published' \subseteq Metrics /\ Ship /\ fault' \in BOOLEAN
  BY Values DEF RejectRequest, Logged, LogFails, Raise, TypeOK

LEMMA PublishType ==
  ASSUME TypeOK, NEW metric \in Metrics, NEW next \in Running, Publish(metric, next)
  PROVE  /\ pc' \in Running /\ error' \in Exceptions \cup {NoError}
         /\ published' \subseteq Metrics /\ (Ship \/ UNCHANGED shipped) /\ fault' \in BOOLEAN
  <1>1. /\ error \in Exceptions \cup {NoError} /\ OtherException \in Exceptions
        /\ published \subseteq Metrics /\ fault \in BOOLEAN
    BY Values DEF TypeOK
  <1>2. "except" \in Running
    BY DEF Running
  <1>3. CASE ~publishing /\ pc' = next /\ UNCHANGED <<error, telemetry>>
    BY <1>1, <1>3 DEF telemetry
  <1>4. CASE publishing
    BY <1>1, <1>2, <1>4 DEF Publish, Logged, LogFails, Raise
  <1>. QED
    BY <1>3, <1>4 DEF Publish

\* Every shared statement keeps every variable in its type.
LEMMA SharedType ==
  ASSUME TypeOK, Started, SharedStatements
  PROVE  TypeOK' /\ Started'
  <1>t. /\ error \in Exceptions \cup {NoError} /\ progress \in Progress \cup {NoProgress}
        /\ published \subseteq Metrics /\ fault \in BOOLEAN /\ publishing \in BOOLEAN
    BY DEF TypeOK
  <1>r. /\ {"setup", "invocation", "handler", "duration", "exception", "except", "serialize",
            "fallback"} \subseteq Running
        /\ {"HandlerException", "HandlerInvocationCount", "HandlerInvocationDuration"}
             \subseteq Metrics
    BY DEF Running, Metrics
  <1>1. CASE CastRequest
    <2>1. CASE pc' = "setup" /\ UNCHANGED <<error, telemetry>>
      BY <1>1, <1>r, <1>t, <2>1, StatementType DEF CastRequest, telemetry
    <2>2. CASE RejectRequest
      BY <1>1, <1>r, <1>t, <2>2, RejectType, StatementType DEF CastRequest
    <2>. QED
      BY <1>1, <2>1, <2>2 DEF CastRequest
  <1>2. CASE SkipTelemetry
    BY <1>2, <1>r, <1>t, StatementType DEF SkipTelemetry, telemetry
  <1>3. CASE AddPublisher
    <2>1. publishing' \in BOOLEAN /\ fault' \in BOOLEAN
      BY <1>3, <1>t DEF AddPublisher, TypeOK, EventType
    <2>2. pc' \in Running /\ error' \in Exceptions \cup {NoError}
      BY <1>3, <1>r, <1>t, Values DEF AddPublisher, Raise
    <2>. QED
      BY <1>3, <2>1, <2>2 DEF AddPublisher, TypeOK, Started, container, request, outcome
  <1>4. CASE PublishInvocation
    BY <1>4, <1>r, <1>t, PublishType, StatementType DEF PublishInvocation
  <1>5. CASE NoHandler
    <2>1. progress' \in Progress
      BY <1>5, Values DEF NoHandler
    <2>. QED
      BY <1>5, <1>r, <1>t, <2>1, StatementType DEF NoHandler, telemetry
  <1>6. ASSUME NEW e \in Exceptions, HandlerRaises(e) PROVE TypeOK' /\ Started'
    <2>1. shipped' \subseteq LogRecords
      BY <1>6, ShipType DEF HandlerRaises, MayLog, TypeOK
    <2>2. pc' \in Running
      BY <1>6, <1>r DEF HandlerRaises
    <2>. QED
      BY <1>6, <2>1, <2>2 DEF HandlerRaises, TypeOK, Started, container, request
  <1>7. CASE PublishDuration
    <2>1. AfterDuration \in Running
      BY <1>r DEF AfterDuration
    <2>. QED
      BY <1>7, <1>r, <1>t, <2>1, PublishType, StatementType DEF PublishDuration
  <1>8. CASE PublishException
    BY <1>8, <1>r, <1>t, PublishType, StatementType DEF PublishException
  <1>9. CASE Catch
    <2>1. /\ pc # "idle" /\ error' = error /\ published' = published
          /\ UNCHANGED <<container, request, logsSetup, publishing, response, outcome>>
      BY <1>9 DEF Catch
    <2>2. pc' \in Running /\ progress' \in Progress \cup {NoProgress}
      BY <1>9, <1>r, <1>t, Values DEF Catch
    <2>3. (Ship \/ UNCHANGED shipped) /\ fault' \in BOOLEAN
      BY <1>9, <1>t DEF Catch, Logged, LogFails
    <2>. QED
      BY <1>t, <2>1, <2>2, <2>3, StatementType
  <1>. QED
    BY <1>1, <1>2, <1>3, <1>4, <1>5, <1>6, <1>7, <1>8, <1>9 DEF SharedStatements

\* Publishing a metric either goes on with nothing changed but telemetry, and the
\* metric published if there is a publisher, or raises what will be answered with
\* InternalFailure.
LEMMA PublishOutcome ==
  ASSUME TypeOK, NEW metric, NEW next, Publish(metric, next)
  PROVE  \/ /\ pc' = next /\ UNCHANGED <<error, fault>>
            /\ published' = IF publishing THEN published \cup {metric} ELSE published
         \/ pc' = "except" /\ error' = OtherException /\ fault'
  BY DEF Publish, Logged, LogFails, Raise, telemetry, TypeOK

-----------------------------------------------------------------------------
(* Credentials.                                                                *)

\* The client of the log handler holds the credentials of this invocation once
\* logs_setup is set for a request with a type, and those of an earlier one until then.
CredsInv ==
    /\ logsSetup /\ event.typed => provider # NoProvider
    /\ provider # NoProvider =>
          provider.creds <= n /\ (provider.creds = n <=> logsSetup /\ event.typed)
    /\ FreshCredentials

\* A statement that leaves the log handler and the request alone, and hands a
\* record to the handler at most.
OnlyShips == UNCHANGED <<container, request, logsSetup>> /\ (Ship \/ UNCHANGED shipped)

LEMMA SharedOnlyShips == SharedStatements => OnlyShips
  <1> USE DEF OnlyShips, Logged, LogFails, RejectRequest, Publish, telemetry
  <1>1. CastRequest \/ SkipTelemetry \/ AddPublisher => OnlyShips
    BY DEF CastRequest, SkipTelemetry, AddPublisher
  <1>2. PublishInvocation \/ PublishDuration \/ PublishException => OnlyShips
    BY DEF PublishInvocation, PublishDuration, AfterDuration, PublishException
  <1>3. NoHandler \/ Catch => OnlyShips
    BY DEF NoHandler, Catch
  <1>4. (\E e \in Exceptions : HandlerRaises(e)) => OnlyShips
    BY DEF HandlerRaises, MayLog
  <1>. QED
    BY <1>1, <1>2, <1>3, <1>4 DEF SharedStatements

\* Shipping a record with the client at hand keeps what is known of every record.
LEMMA ShipFresh ==
  ASSUME TypeOK, CredsInv, OnlyShips
  PROVE  CredsInv'
  <1> USE DEF OnlyShips, container, request
  <1>1. CASE UNCHANGED shipped
    BY <1>1 DEF CredsInv, FreshCredentials
  <1>2. CASE Ship /\ provider = NoProvider
    BY <1>2 DEF CredsInv, FreshCredentials, Ship
  <1>3. CASE Ship /\ provider # NoProvider
    <2>1. ASSUME NEW r \in shipped' PROVE r.creds = n <=> r.setup /\ event.typed
      <3>1. CASE r \in shipped
        BY <3>1 DEF CredsInv, FreshCredentials
      <3>2. CASE r = [creds |-> provider.creds, stream |-> provider.stream,
                      setup |-> logsSetup]
        BY <1>3, <3>2 DEF CredsInv
      <3>. QED
        BY <1>3, <2>1, <3>1, <3>2 DEF Ship
    <2>. QED
      BY <2>1 DEF CredsInv, FreshCredentials
  <1>. QED
    BY <1>1, <1>2, <1>3

\* A new invocation, or a new container, has written no record.
LEMMA ReceiveFresh ==
  ASSUME TypeOK, CredsInv, Recycle \/ \E e \in Events : Receive(e)
  PROVE  CredsInv'
  <1>1. CASE Recycle
    BY <1>1 DEF Recycle, CredsInv, FreshCredentials
  <1>2. CASE \E e \in Events : Receive(e)
    <2>1. /\ n' = n + 1 /\ ~logsSetup' /\ shipped' = {} /\ provider' = provider
          /\ n \in Nat
      BY <1>2 DEF Receive, container, TypeOK
    <2>2. provider # NoProvider => provider.creds \in Nat /\ provider.creds <= n
      BY DEF TypeOK, Providers, CredsInv
    <2>. QED
      BY <2>1, <2>2 DEF CredsInv, FreshCredentials
  <1>. QED
    BY <1>1, <1>2
=============================================================================
