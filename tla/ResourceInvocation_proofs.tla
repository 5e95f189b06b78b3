---------------------- MODULE ResourceInvocation_proofs ----------------------
(* Proofs about Resource.__call__, for every set of actions, codes, streams   *)
(* and requests, and every number of invocations.                             *)
EXTENDS ResourceInvocation, Invocation_proofs

-----------------------------------------------------------------------------
(* The inductive invariant.                                                   *)

\* Records go out with this invocation's credentials, and the platform's handler
\* is filtered only beside a provider log handler.
TelemetryInv == CredsInv /\ FilteredRecordsHaveAHome

\* What the caller is to be told, given all that has happened so far.
Due == IF fault THEN Contract!Internal ELSE Promised

\* What a progress turns into: itself, or InternalFailure if it is unsound.
Verdict(p) == IF p.sound THEN Answer(p) ELSE Contract!Internal

\* At each statement, the locals of __call__ already determine the answer due.
ControlInv ==
    /\ pc \in {"parse", "cast", "setup", "publisher", "invocation", "handler"} =>
          /\ ~fault /\ error = NoError
          /\ returned = NoProgress /\ raised = NoError
    /\ pc \in {"cast", "setup", "publisher", "invocation", "handler"} => event.parses
    /\ pc \in {"setup", "publisher", "invocation", "handler"} => event.casts
    /\ pc = "duration" =>
          /\ ~fault
          /\ error = NoError => progress \in Progress /\ Verdict(progress) = Due
          /\ error # NoError => error \in Exceptions /\ Verdict(FailureFor(error)) = Due
    /\ pc \in {"exception", "except"} =>
          error \in Exceptions /\ Verdict(FailureFor(error)) = Due
    /\ pc = "exception" => ~fault
    /\ pc = "serialize" => progress \in Progress /\ Verdict(progress) = Due
    /\ pc = "fallback" => Due = Contract!Internal
    /\ AnswerMatchesOutcome

\* The metrics of an invocation that ended as this one, as far as it got.
Failing ==
    \/ raised \in Exceptions \ {BaseException}
    \/ returned.status = "IN_PROGRESS" /\ event.action \notin MUTATING_ACTIONS

Reported ==
    {"HandlerInvocationCount"}
        \cup (IF raised = BaseException THEN {} ELSE {"HandlerInvocationDuration"})
        \cup (IF Failing THEN {"HandlerException"} ELSE {})

\* At each statement, the metrics published are those of the statements behind it,
\* and whether one is still to come is what error says.
MetricsInv ==
    /\ pc \in {"parse", "cast", "setup", "publisher"} => ~publishing
    /\ pc \in {"parse", "cast", "setup", "publisher", "invocation"} => published = {}
    /\ pc \in {"handler", "duration"} /\ publishing => published = {"HandlerInvocationCount"}
    /\ pc = "duration" => raised # BaseException /\ (error # NoError <=> Failing)
    /\ pc = "exception" => raised # BaseException /\ Failing
    /\ pc = "exception" /\ publishing =>
          published = {"HandlerInvocationCount", "HandlerInvocationDuration"}
    /\ pc \in {"except", "serialize", "fallback", "done"} /\ publishing /\ ~fault =>
          published = Reported

IInv == TypeOK /\ Started /\ TelemetryInv /\ ControlInv /\ MetricsInv

-----------------------------------------------------------------------------
(* Types.                                                                     *)

\* Setup leaves a log handler with this invocation's credentials.
LEMMA AttachType ==
  ASSUME TypeOK, Started, pc = "setup", AttachHandler
  PROVE  provider' \in Providers /\ filtered' \in BOOLEAN /\ provider'.creds = n
  <1>1. n \in 1..MaxInvocations /\ event.stream \in Streams /\ filtered \in BOOLEAN
    BY DEF TypeOK, Started, EventType
  <1>2. CASE provider = NoProvider
    BY <1>1, <1>2 DEF AttachHandler, Providers
  <1>3. CASE provider # NoProvider
    <2>1. provider \in Providers
      BY <1>3 DEF TypeOK
    <2>2. provider' = [provider EXCEPT !.creds = n] /\ filtered' = filtered
      BY <1>3 DEF AttachHandler
    <2>. QED
      BY <1>1, <2>1, <2>2 DEF Providers
  <1>. QED
    BY <1>2, <1>3

\* Every step keeps every variable in its type.
LEMMA TypeStep == TypeOK /\ Started /\ [Next]_vars => TypeOK' /\ Started'
  <1> SUFFICES ASSUME TypeOK, Started, [Next]_vars PROVE TypeOK' /\ Started'
    OBVIOUS
  <1> USE DEF TypeOK, Started, Running, container, request, telemetry, outcome
  <1>1. CASE Recycle \/ \E e \in Events : Receive(e)
    BY <1>1, ReceiveType
  <1>2. CASE SharedStatements
    BY <1>2, SharedType
  <1>3. CASE ParseRequest
    <2>1. CASE RejectRequest
      BY <1>3, <2>1, RejectType, StatementType DEF ParseRequest
    <2>2. CASE pc' = "cast" /\ UNCHANGED <<error, telemetry>>
      BY <1>3, <2>2, StatementType DEF ParseRequest
    <2>. QED
      BY <1>3, <2>1, <2>2 DEF ParseRequest
  <1>4. CASE SetupLogs
    <2>1. AttachHandler => provider' \in Providers /\ filtered' \in BOOLEAN
      BY AttachType, <1>4 DEF SetupLogs
    <2>. QED
      BY <1>4, <2>1 DEF SetupLogs
  <1>5. CASE SetupRaises
    BY <1>5, Values DEF SetupRaises, ClientFails, Raise
  <1>6. ASSUME NEW p \in Progress, HandlerReturns(p) PROVE TypeOK' /\ Started'
    BY <1>6, Values, ShipType DEF HandlerReturns, MayLog
  <1>7. CASE Serialize
    <2>1. progress.sound => progress \in Progress
      BY DEF NoProgress
    <2>. QED
      BY <1>7, <2>1, Values DEF Serialize
  <1>8. CASE FallBack
    BY <1>8, Values DEF FallBack
  <1>9. CASE UNCHANGED vars
    BY <1>9 DEF vars
  <1>. QED
    BY <1>1, <1>2, <1>3, <1>4, <1>5, <1>6, <1>7, <1>8, <1>9 DEF Next, Step, SharedStatements

\* TypeOK holds in every state: no statement leaves a variable of __call__, or
\* the log handler it shares, with a value the others do not expect.
THEOREM TypeCorrect == Spec => []TypeOK
  <1>1. TypeOK /\ Started /\ [Next]_vars => (TypeOK /\ Started)'
    BY TypeStep
  <1>. QED
    BY TypeInit, <1>1, PTL DEF Spec

-----------------------------------------------------------------------------
(* Credentials and the filter.                                                *)

\* Every step keeps the client of the log handler this invocation's own, and
\* the platform's handler unfiltered while there is no log handler.
LEMMA TelemetryStep ==
  TypeOK /\ Started /\ TelemetryInv /\ [Next]_vars => TelemetryInv'
  <1> SUFFICES ASSUME TypeOK, Started, TelemetryInv, [Next]_vars PROVE TelemetryInv'
    OBVIOUS
  <1> USE DEF container, request, telemetry, outcome
  <1>1. CASE Recycle \/ \E e \in Events : Receive(e)
    <2>1. CredsInv'
      BY <1>1, ReceiveFresh DEF TelemetryInv
    <2>2. FilteredRecordsHaveAHome'
      BY <1>1 DEF Receive, Recycle, TelemetryInv, FilteredRecordsHaveAHome
    <2>. QED
      BY <2>1, <2>2 DEF TelemetryInv
  <1>2. ASSUME OnlyShips PROVE TelemetryInv'
    BY <1>2, ShipFresh DEF TelemetryInv, OnlyShips, FilteredRecordsHaveAHome
  <1>3. CASE SharedStatements
    BY <1>2, <1>3, SharedOnlyShips
  <1>4. CASE SetupLogs
    <2> USE DEF TelemetryInv, CredsInv, FreshCredentials, FilteredRecordsHaveAHome
    <2>1. CASE event.typed /\ AttachHandler
      <3>1. provider' # NoProvider /\ provider'.creds = n
        BY <1>4, <2>1, AttachType, NothingAssumption
        DEF SetupLogs, Providers, NoProvider
      <3>2. n <= n
        BY DEF TypeOK
      <3>. QED
        BY <1>4, <2>1, <3>1, <3>2 DEF SetupLogs
    <2>2. CASE ~event.typed /\ UNCHANGED container
      BY <1>4, <2>2 DEF SetupLogs
    <2>. QED
      BY <1>4, <2>1, <2>2 DEF SetupLogs
  <1>5. ParseRequest \/ SetupRaises \/ Serialize \/ FallBack => OnlyShips
    BY DEF ParseRequest, RejectRequest, Logged, LogFails, SetupRaises, ClientFails,
           Serialize, FallBack, OnlyShips
  <1>6. (\E p \in Progress : HandlerReturns(p)) => OnlyShips
    BY DEF HandlerReturns, MayLog, OnlyShips
  <1>7. CASE UNCHANGED vars
    BY <1>2, <1>7 DEF vars, OnlyShips
  <1>. QED
    BY <1>1, <1>2, <1>3, <1>4, <1>5, <1>6, <1>7 DEF Next, Step, SharedStatements

-----------------------------------------------------------------------------
(* The answer.                                                                *)

\* The cases of the contract's promise, one for each way to the answer.
LEMMA PromiseCases ==
  /\ \A a, p, x : Contract!Promise(TRUE, a, p, x) =
                    Verdict(FailureFor(HandlerError("InvalidRequest")))
  /\ \A a : Contract!Promise(FALSE, a, NoProgress, NoError) = Contract!Internal
  /\ \A a, x : x \in Exceptions =>
        Contract!Promise(FALSE, a, NoProgress, x) = Verdict(FailureFor(x))
  /\ \A a \in Actions, p \in Progress :
        IF p.status = "IN_PROGRESS" /\ MustAnswerAtOnce(a)
        THEN Contract!Promise(FALSE, a, p, NoError) = Contract!Internal
        ELSE Contract!Promise(FALSE, a, p, NoError) = Verdict(p)
  /\ Verdict(FailureFor(OtherException)) = Contract!Internal
  /\ Verdict(Failed("InternalFailure")) = Contract!Internal
  /\ Verdict(FailureFor(HandlerError("InternalFailure"))) = Contract!Internal
  <1> USE DEF Verdict, Contract!Internal, Contract!Failed, Contract!Answer, Failed, Answer,
              FailureFor, HandlerError, OtherException, BaseException, NoError, Nothing,
              NoCode, Contract!NoError, Contract!Nothing, Contract!NoCode
  <1>1. ASSUME NEW a, NEW p, NEW x
        PROVE  Contract!Promise(TRUE, a, p, x) =
                 Verdict(FailureFor(HandlerError("InvalidRequest")))
    BY DEF Contract!Promise
  <1>2. ASSUME NEW a
        PROVE  Contract!Promise(FALSE, a, NoProgress, NoError) = Contract!Internal
    BY DEF Contract!Promise, NoProgress
  <1>3. ASSUME NEW a, NEW x \in Exceptions
        PROVE  Contract!Promise(FALSE, a, NoProgress, x) = Verdict(FailureFor(x))
    BY <1>3 DEF Contract!Promise, Exceptions, NoProgress
  <1>4. ASSUME NEW a \in Actions, NEW p \in Progress
        PROVE  IF p.status = "IN_PROGRESS" /\ MustAnswerAtOnce(a)
               THEN Contract!Promise(FALSE, a, p, NoError) = Contract!Internal
               ELSE Contract!Promise(FALSE, a, p, NoError) = Verdict(p)
    <2>1. CASE p.status = "IN_PROGRESS" /\ MustAnswerAtOnce(a)
      BY <2>1 DEF MustAnswerAtOnce, Contract!Promise
    <2>2. CASE ~(p.status = "IN_PROGRESS" /\ MustAnswerAtOnce(a)) /\ p.sound
      BY <2>2 DEF MustAnswerAtOnce, Contract!Promise
    <2>3. CASE ~p.sound
      BY <2>3 DEF Contract!Promise
    <2>. QED
      BY <2>1, <2>2, <2>3
  <1>. QED
    BY <1>1, <1>2, <1>3, <1>4

\* An action that touches neither the request nor the handler's outcome leaves
\* the promise as it was.
LEMMA PromisedFrame ==
  UNCHANGED <<event, returned, raised>> => Promised' = Promised
  BY DEF Promised

\* Every step leaves the locals of __call__ agreeing with the answer due.
LEMMA ControlStep ==
  TypeOK /\ Started /\ ControlInv /\ [Next]_vars => ControlInv'
  <1> SUFFICES ASSUME TypeOK, Started, ControlInv, [Next]_vars PROVE ControlInv'
    OBVIOUS
  <1> USE DEF container, request, telemetry, outcome
  <1>e. event.action \in Actions
    BY DEF TypeOK, EventType
  <1>1. ASSUME NEW e \in Events, Receive(e) PROVE ControlInv'
    BY <1>1 DEF Receive, ControlInv, AnswerMatchesOutcome
  <1>2. CASE Recycle
    BY <1>2 DEF Recycle, ControlInv, AnswerMatchesOutcome
  <1>3. ASSUME RejectRequest, ~event.parses \/ ~event.casts, ~fault,
               UNCHANGED <<request, outcome>>
        PROVE  ControlInv'
    <2>1. pc' = "except" /\ error' \in Exceptions
      BY <1>3, Values DEF RejectRequest, Raise
    <2>2. Verdict(FailureFor(error')) = Due'
      <3>1. CASE Logged /\ Raise(HandlerError("InvalidRequest"))
        <4>1. Promised = Verdict(FailureFor(HandlerError("InvalidRequest")))
          BY <1>3, PromiseCases DEF Promised
        <4>2. Promised' = Promised /\ ~fault'
          BY <1>3, <3>1, PromisedFrame DEF Logged
        <4>3. error' = HandlerError("InvalidRequest")
          BY <3>1 DEF Raise
        <4>. QED
          BY <4>1, <4>2, <4>3 DEF Due
      <3>2. CASE LogFails /\ Raise(OtherException)
        BY <1>e, <3>2, PromiseCases DEF LogFails, Raise, Due
      <3>. QED
        BY <1>3, <3>1, <3>2 DEF RejectRequest
    <2>. QED
      BY <2>1, <2>2 DEF ControlInv, AnswerMatchesOutcome
  <1>4. CASE ParseRequest
    <2>1. CASE event.parses /\ pc' = "cast"
      BY <1>4, <2>1 DEF ParseRequest, ControlInv, AnswerMatchesOutcome
    <2>. QED
      BY <1>3, <1>4, <2>1 DEF ParseRequest, ControlInv
  <1>5. CASE CastRequest
    <2>1. CASE event.casts /\ pc' = "setup"
      BY <1>5, <2>1 DEF CastRequest, ControlInv, AnswerMatchesOutcome
    <2>. QED
      BY <1>3, <1>5, <2>1 DEF CastRequest, ControlInv
  <1>6. CASE SetupLogs \/ SkipTelemetry
    BY <1>6 DEF SetupLogs, SkipTelemetry, ControlInv, AnswerMatchesOutcome
  <1>7. ASSUME pc' = "except", error' = OtherException, fault', UNCHANGED request
        PROVE  ControlInv'
    BY <1>e, <1>7, PromiseCases, Values DEF ControlInv, AnswerMatchesOutcome, Due
  <1>8. CASE SetupRaises
    BY <1>7, <1>8 DEF SetupRaises, Raise
  <1>9. CASE AddPublisher
    <2>1. CASE pc' = "invocation" /\ UNCHANGED <<error, fault>>
      BY <1>9, <2>1 DEF AddPublisher, ControlInv, AnswerMatchesOutcome
    <2>. QED
      BY <1>7, <1>9, <2>1 DEF AddPublisher, Raise
  <1>10. CASE PublishInvocation
    <2>1. CASE pc' = "handler" /\ UNCHANGED <<error, fault>>
      BY <1>10, <2>1 DEF PublishInvocation, ControlInv, AnswerMatchesOutcome
    <2>. QED
      BY <1>7, <1>10, <2>1, PublishOutcome DEF PublishInvocation
  <1>11. CASE NoHandler
    <2>1. Promised' = Contract!Internal
      BY <1>11, <1>e, PromiseCases DEF NoHandler, ControlInv, Promised
    <2>2. ~fault' /\ error' = NoError
      BY <1>11 DEF NoHandler, ControlInv
    <2>3. progress' \in Progress /\ Verdict(progress') = Due'
      BY <1>11, <1>e, <2>1, <2>2, PromiseCases, Values DEF NoHandler, Due
    <2>. QED
      BY <1>11, <2>2, <2>3 DEF NoHandler, ControlInv, AnswerMatchesOutcome
  <1>12. ASSUME NEW p \in Progress, HandlerReturns(p) PROVE ControlInv'
    <2>1. /\ pc' = "duration" /\ ~fault' /\ event' = event /\ event.parses /\ event.casts
          /\ returned' = p /\ raised' = NoError
      BY <1>12 DEF HandlerReturns, ControlInv
    <2>2. Promised' = Contract!Promise(FALSE, event.action, p, NoError) /\ Due' = Promised'
      BY <2>1 DEF Promised, Due
    <2>3. CASE p.status = "IN_PROGRESS" /\ MustAnswerAtOnce(event.action)
      <3>1. error' = HandlerError("InternalFailure")
        BY <1>12, <2>3 DEF HandlerReturns
      <3>2. error' \in Exceptions /\ error' # NoError
        BY <3>1, Values DEF HandlerError, NoError, Nothing
      <3>3. Verdict(FailureFor(error')) = Due'
        BY <1>e, <2>1, <2>2, <2>3, <3>1, PromiseCases
      <3>. QED
        BY <2>1, <3>2, <3>3 DEF ControlInv, AnswerMatchesOutcome
    <2>4. CASE ~(p.status = "IN_PROGRESS" /\ MustAnswerAtOnce(event.action))
      <3>1. progress' = p /\ error' = NoError
        BY <1>12, <2>4 DEF HandlerReturns, ControlInv
      <3>2. Verdict(progress') = Due'
        BY <1>e, <2>1, <2>2, <2>4, <3>1, PromiseCases
      <3>. QED
        BY <2>1, <3>1, <3>2 DEF ControlInv, AnswerMatchesOutcome
    <2>. QED
      BY <2>3, <2>4
  <1>13. ASSUME NEW x \in Exceptions, HandlerRaises(x) PROVE ControlInv'
    <2>1. /\ ~fault' /\ event' = event /\ event.parses /\ event.casts
          /\ returned' = NoProgress /\ raised' = x /\ error' = x
          /\ pc' \in {"duration", "except"}
      BY <1>13 DEF HandlerRaises, ControlInv
    <2>2. Verdict(FailureFor(error')) = Due'
      BY <1>e, <2>1, PromiseCases DEF Promised, Due
    <2>3. error' # NoError
      BY <2>1 DEF Exceptions, HandlerError, OtherException, BaseException, NoError, Nothing
    <2>. QED
      BY <2>1, <2>2, <2>3 DEF ControlInv, AnswerMatchesOutcome
  <1>14. ASSUME UNCHANGED <<error, progress, fault, request, outcome>>,
                \/ /\ pc = "duration"
                   /\ pc' = IF error = NoError THEN "serialize" ELSE "exception"
                \/ pc = "exception" /\ pc' = "except"
         PROVE  ControlInv'
    <2>1. Due' = Due
      BY <1>14, PromisedFrame DEF Due
    <2>. QED
      BY <1>14, <2>1 DEF ControlInv, AnswerMatchesOutcome
  <1>15. CASE PublishDuration \/ PublishException
    <2>1. CASE PublishDuration
      <3>1. \/ /\ pc' = IF error = NoError THEN "serialize" ELSE "exception"
               /\ UNCHANGED <<error, fault>>
            \/ pc' = "except" /\ error' = OtherException /\ fault'
        BY <2>1, PublishOutcome DEF PublishDuration, AfterDuration
      <3>. QED
        BY <1>7, <1>14, <2>1, <3>1 DEF PublishDuration, AfterDuration
    <2>2. CASE PublishException
      <3>1. \/ pc' = "except" /\ UNCHANGED <<error, fault>>
            \/ pc' = "except" /\ error' = OtherException /\ fault'
        BY <2>2, PublishOutcome DEF PublishException
      <3>. QED
        BY <1>7, <1>14, <2>2, <3>1 DEF PublishException
    <2>. QED
      BY <1>15, <2>1, <2>2
  <1>16. CASE Catch
    <2>1. UNCHANGED <<request, outcome>> /\ error \in Exceptions
          /\ Verdict(FailureFor(error)) = Due
      BY <1>16 DEF Catch, ControlInv
    <2>2. CASE fault' = fault /\ progress' = FailureFor(error) /\ pc' = "serialize"
      <3>1. Due' = Due
        BY <2>1, <2>2, PromisedFrame DEF Due
      <3>. QED
        BY <2>1, <2>2, <3>1, Values DEF ControlInv, AnswerMatchesOutcome
    <2>3. CASE fault' /\ pc' = "fallback"
      BY <2>3 DEF ControlInv, AnswerMatchesOutcome, Due
    <2>. QED
      BY <1>16, <2>2, <2>3 DEF Catch, Logged, LogFails
  <1>17. CASE Serialize \/ FallBack
    <2>1. Due' = Due /\ Answer(Failed("InternalFailure")) = Contract!Internal
      BY <1>17, PromisedFrame
      DEF Serialize, FallBack, Due, Contract!Internal, Contract!Answer, Contract!Failed,
          Answer, Failed
    <2>2. CASE progress.sound /\ Serialize
      BY <2>1, <2>2 DEF Serialize, ControlInv, AnswerMatchesOutcome, Verdict, Due
    <2>3. CASE ~progress.sound /\ Serialize
      BY <2>1, <2>3 DEF Serialize, ControlInv, AnswerMatchesOutcome, Verdict, Due
    <2>4. CASE FallBack
      BY <2>1, <2>4 DEF FallBack, ControlInv, AnswerMatchesOutcome, Due
    <2>. QED
      BY <1>17, <2>2, <2>3, <2>4
  <1>18. CASE UNCHANGED vars
    <2>1. Due' = Due /\ Promised' = Promised
      BY <1>18, PromisedFrame DEF vars, Due
    <2>. QED
      BY <1>18, <2>1 DEF vars, ControlInv, AnswerMatchesOutcome
  <1>. QED
    BY <1>1, <1>2, <1>4, <1>5, <1>6, <1>8, <1>9, <1>10, <1>11, <1>12, <1>13, <1>15, <1>16,
       <1>17, <1>18 DEF Next, Step

-----------------------------------------------------------------------------
(* The metrics.                                                               *)

\* The three metrics are told apart, and so are the exceptions they report.
LEMMA MetricCases ==
  /\ {"HandlerInvocationCount"} \cup {"HandlerInvocationDuration"}
       = {"HandlerInvocationCount", "HandlerInvocationDuration"}
  /\ \A e \in Exceptions : e # NoError /\ (e.kind = "BaseException" <=> e = BaseException)
  /\ BaseException # NoError /\ NoProgress.status # "IN_PROGRESS"
  BY DEF Exceptions, HandlerError, OtherException, BaseException, NoError, Nothing, NoProgress

\* Every step leaves published what the statements behind it publish.
LEMMA MetricsStep ==
  TypeOK /\ Started /\ ControlInv /\ MetricsInv /\ [Next]_vars => MetricsInv'
  <1> SUFFICES ASSUME TypeOK, Started, ControlInv, MetricsInv, [Next]_vars PROVE MetricsInv'
    OBVIOUS
  <1> USE DEF container, request, telemetry, outcome
  <1>1. CASE Recycle \/ \E e \in Events : Receive(e)
    BY <1>1 DEF Receive, Recycle, MetricsInv
  <1>2. UNCHANGED <<event, outcome>> => Reported' = Reported /\ Failing' = Failing
    BY DEF Reported, Failing
  <1>3. ASSUME fault', pc' = "except" PROVE MetricsInv'
    BY <1>3 DEF MetricsInv
  <1>4. ASSUME RejectRequest, pc \in {"parse", "cast"}, UNCHANGED publishing PROVE MetricsInv'
    BY <1>4 DEF RejectRequest, Raise, MetricsInv
  <1>5. CASE ParseRequest
    BY <1>4, <1>5 DEF ParseRequest, MetricsInv
  <1>6. CASE CastRequest
    BY <1>4, <1>6 DEF CastRequest, MetricsInv
  <1>7. CASE SetupLogs \/ SkipTelemetry
    BY <1>7 DEF SetupLogs, SkipTelemetry, MetricsInv
  <1>8. CASE SetupRaises
    BY <1>3, <1>8 DEF SetupRaises, Raise
  <1>9. CASE AddPublisher
    BY <1>3, <1>9 DEF AddPublisher, Raise, MetricsInv
  <1>10. CASE PublishInvocation
    BY <1>3, <1>10, PublishOutcome DEF PublishInvocation, MetricsInv
  <1>11. CASE NoHandler
    <2>1. raised = NoError /\ returned = NoProgress /\ error = NoError
      BY <1>11 DEF NoHandler, ControlInv
    <2>2. ~Failing
      BY <2>1, MetricCases DEF Failing
    <2>. QED
      BY <1>2, <1>11, <2>1, <2>2, MetricCases DEF NoHandler, MetricsInv
  <1>12. ASSUME NEW p \in Progress, HandlerReturns(p) PROVE MetricsInv'
    <2>1. raised' = NoError /\ error = NoError /\ returned' = p /\ event' = event
      BY <1>12 DEF HandlerReturns, ControlInv
    <2>2. Failing' <=> p.status = "IN_PROGRESS" /\ MustAnswerAtOnce(event.action)
      BY <2>1, MetricCases DEF Failing, MustAnswerAtOnce
    <2>3. error' # NoError <=> Failing'
      BY <1>12, <2>1, <2>2 DEF HandlerReturns, HandlerError, NoError, Nothing
    <2>. QED
      BY <1>12, <2>1, <2>3, MetricCases DEF HandlerReturns, MetricsInv
  <1>13. ASSUME NEW e \in Exceptions, HandlerRaises(e) PROVE MetricsInv'
    <2>1. raised' = e /\ error' = e /\ returned' = NoProgress /\ UNCHANGED published
      BY <1>13 DEF HandlerRaises, ControlInv
    <2>2. Failing' <=> e # BaseException
      BY <2>1, MetricCases DEF Failing
    <2>3. CASE e = BaseException
      <3>1. pc' = "except" /\ Reported' = {"HandlerInvocationCount"}
        BY <1>13, <2>1, <2>2, <2>3, MetricCases DEF HandlerRaises, Reported
      <3>. QED
        BY <1>13, <2>1, <3>1 DEF HandlerRaises, MetricsInv
    <2>4. CASE e # BaseException
      <3>1. pc' = "duration" /\ error' # NoError
        BY <1>13, <2>1, <2>4, MetricCases DEF HandlerRaises
      <3>. QED
        BY <1>13, <2>1, <2>2, <2>4, <3>1 DEF HandlerRaises, MetricsInv
    <2>. QED
      BY <2>3, <2>4
  <1>14. CASE PublishDuration
    <2>1. CASE pc' = AfterDuration /\ UNCHANGED <<error, fault>>
      <3>1. raised # BaseException /\ UNCHANGED publishing
        BY <1>14 DEF PublishDuration, MetricsInv
      <3>2. publishing => published' = {"HandlerInvocationCount", "HandlerInvocationDuration"}
        <4>1. ~fault' /\ published' = IF publishing
                                     THEN published \cup {"HandlerInvocationDuration"}
                                     ELSE published
          BY <1>14, <2>1, PublishOutcome DEF PublishDuration, ControlInv
        <4>. QED
          BY <1>14, <4>1, MetricCases DEF PublishDuration, MetricsInv
      <3>. QED
        BY <1>2, <1>14, <2>1, <3>1, <3>2
        DEF PublishDuration, AfterDuration, MetricsInv, Reported
    <2>. QED
      BY <1>3, <1>14, <2>1, PublishOutcome DEF PublishDuration
  <1>15. CASE PublishException
    <2>1. CASE pc' = "except" /\ UNCHANGED <<error, fault>>
      <3>1. raised # BaseException /\ Failing /\ UNCHANGED publishing
        BY <1>15 DEF PublishException, MetricsInv
      <3>2. publishing => published' = Reported
        <4>1. ~fault' /\ published' = IF publishing THEN published \cup {"HandlerException"}
                                                  ELSE published
          BY <1>15, <2>1, PublishOutcome DEF PublishException, ControlInv
        <4>. QED
          BY <1>15, <3>1, <4>1, MetricCases DEF PublishException, MetricsInv, Reported
      <3>. QED
        BY <1>2, <1>15, <2>1, <3>1, <3>2 DEF PublishException, MetricsInv
    <2>. QED
      BY <1>3, <1>15, <2>1, PublishOutcome DEF PublishException
  <1>16. CASE Catch
    BY <1>2, <1>16 DEF Catch, Logged, LogFails, MetricsInv
  <1>17. CASE Serialize \/ FallBack
    BY <1>2, <1>17 DEF Serialize, FallBack, MetricsInv
  <1>18. CASE UNCHANGED vars
    BY <1>2, <1>18 DEF vars, MetricsInv
  <1>. QED
    BY <1>1, <1>5, <1>6, <1>7, <1>8, <1>9, <1>10, <1>11, <1>12, <1>13, <1>14, <1>15, <1>16,
       <1>17, <1>18 DEF Next, Step

-----------------------------------------------------------------------------
(* The theorems.                                                              *)

LEMMA InvariantHolds == Spec => []IInv
  <1>1. Init => IInv
    <2>1. Init => TelemetryInv
      BY DEF Init, TelemetryInv, CredsInv, FreshCredentials, FilteredRecordsHaveAHome
    <2>2. Init => ControlInv
      BY DEF Init, ControlInv, AnswerMatchesOutcome
    <2>3. Init => MetricsInv
      BY DEF Init, MetricsInv
    <2>. QED
      BY <2>1, <2>2, <2>3, TypeInit DEF IInv
  <1>2. IInv /\ [Next]_vars => IInv'
    BY TypeStep, TelemetryStep, ControlStep, MetricsStep DEF IInv
  <1>. QED
    BY <1>1, <1>2, PTL DEF Spec

\* CloudFormation is told exactly what the handler said, or InternalFailure if
\* and only if logging or metrics raised or the handler's word was unusable.
THEOREM AnswerIsDetermined == Spec => []AnswerMatchesOutcome
  <1>1. IInv => AnswerMatchesOutcome
    BY DEF IInv, ControlInv
  <1>. QED
    BY <1>1, InvariantHolds, PTL

\* The metrics tell what the handler did, for every invocation that published any
\* and none of whose calls of CloudWatch raised.
THEOREM MetricsTellTheOutcome == Spec => []MetricsMatchOutcome
  <1>1. IInv => MetricsMatchOutcome
    BY DEF IInv, MetricsInv, MetricsMatchOutcome, Reported, Failing
  <1>. QED
    BY <1>1, InvariantHolds, PTL

\* The records an invocation sends with its own credentials are exactly those written
\* after logging was set up, of a request that names its type: the others go out with
\* credentials an earlier request left in the container.
THEOREM CredentialsAreFresh == Spec => []FreshCredentials
  <1>1. IInv => FreshCredentials
    BY DEF IInv, TelemetryInv, CredsInv
  <1>. QED
    BY <1>1, InvariantHolds, PTL

\* The platform's log is filtered only when the provider's log is there to take
\* the records.
THEOREM FilteredRecordsAreKept == Spec => []FilteredRecordsHaveAHome
  <1>1. IInv => FilteredRecordsHaveAHome
    BY DEF IInv, TelemetryInv
  <1>. QED
    BY <1>1, InvariantHolds, PTL
-----------------------------------------------------------------------------
(* The entrypoint implements the contract.                                    *)

\* A request that was turned down never reached the handler.
RejectedUncalled ==
    ~event.parses \/ ~event.casts => returned = NoProgress /\ raised = NoError

LEMMA RejectedStep == IInv /\ RejectedUncalled /\ [Next]_vars => RejectedUncalled'
  <1> SUFFICES ASSUME IInv, RejectedUncalled, [Next]_vars PROVE RejectedUncalled'
    OBVIOUS
  <1> USE DEF RejectedUncalled, container, request, telemetry, outcome
  <1>1. ASSUME NEW e \in Events, Receive(e) PROVE RejectedUncalled'
    BY <1>1 DEF Receive
  <1>2. CASE Recycle
    BY <1>2 DEF Recycle
  <1>3. ASSUME NEW p \in Progress, HandlerReturns(p) PROVE RejectedUncalled'
    BY <1>3 DEF HandlerReturns, IInv, ControlInv
  <1>4. ASSUME NEW e \in Exceptions, HandlerRaises(e) PROVE RejectedUncalled'
    BY <1>4 DEF HandlerRaises, IInv, ControlInv
  <1>5. CASE UNCHANGED <<request, outcome>>
    BY <1>5
  <1>6. CASE UNCHANGED vars
    BY <1>6 DEF vars
  <1>. QED
    BY <1>1, <1>2, <1>3, <1>4, <1>5, <1>6
    DEF Next, Step, ParseRequest, CastRequest, SetupLogs, SetupRaises, SkipTelemetry,
        AddPublisher, PublishInvocation, NoHandler, PublishDuration, PublishException, Catch,
        Serialize, FallBack

\* The contract's vocabulary is the runtime's.
LEMMA SameWords ==
  /\ Contract!NoProgress = NoProgress /\ Contract!NoError = NoError
  /\ Contract!NoAnswer = NoAnswer
  /\ Contract!Progress = Progress /\ Contract!Exceptions = Exceptions
  <1>1. Contract!NoCode = NoCode /\ Contract!Nothing = Nothing /\ Contract!Statuses = Statuses
    BY DEF Contract!NoCode, NoCode, Contract!Nothing, Nothing, Contract!Statuses, Statuses
  <1>2. Contract!NoProgress = NoProgress /\ Contract!NoError = NoError
    BY <1>1 DEF Contract!NoProgress, NoProgress, Contract!NoError, NoError
  <1>3. Contract!NoAnswer = NoAnswer
    BY <1>2 DEF Contract!NoAnswer, NoAnswer, Contract!Answer, Answer
  <1>4. Contract!Progress = Progress
    BY <1>1 DEF Contract!Progress, Progress
  <1>5. Contract!Exceptions = Exceptions
    BY <1>1 DEF Contract!Exceptions, Exceptions, Contract!HandlerError, HandlerError,
                Contract!OtherException, OtherException, Contract!BaseException, BaseException
  <1>. QED
    BY <1>2, <1>3, <1>4, <1>5

\* Every step is one of the contract's, or leaves all it speaks of unchanged.
LEMMA ContractStep ==
  IInv /\ RejectedUncalled /\ [Next]_vars => [Contract!Next]_(Contract!contractVars)
  <1> SUFFICES ASSUME IInv, RejectedUncalled, [Next]_vars
               PROVE  [Contract!Next]_(Contract!contractVars)
    OBVIOUS
  <1> USE DEF container, request, telemetry, outcome
  <1>1. ASSUME NEW e \in Events, Receive(e) PROVE Contract!Receive
    BY <1>1, SameWords DEF Receive, Contract!Receive
  <1>2. CASE Recycle
    BY <1>2, SameWords DEF Recycle, Contract!Abandon, Contract!Next
  <1>3. ASSUME pc \notin {"idle", "done"}, pc' \notin {"idle", "done"},
               UNCHANGED <<request, outcome, response>>
        PROVE  UNCHANGED Contract!contractVars
    BY <1>3 DEF Contract!contractVars
  <1>4. ASSUME NEW p \in Progress, HandlerReturns(p) PROVE Contract!CallHandler
    <2>1. event.parses /\ event.casts /\ returned = NoProgress /\ raised = NoError
      BY <1>4 DEF HandlerReturns, IInv, ControlInv
    <2>2. ~Contract!Called
      BY <2>1, SameWords DEF Contract!Called
    <2>. QED
      BY <1>4, <2>1, <2>2, SameWords DEF HandlerReturns, Contract!CallHandler
  <1>5. ASSUME NEW e \in Exceptions, HandlerRaises(e) PROVE Contract!CallHandler
    <2>1. event.parses /\ event.casts /\ returned = NoProgress /\ raised = NoError
      BY <1>5 DEF HandlerRaises, IInv, ControlInv
    <2>2. ~Contract!Called
      BY <2>1, SameWords DEF Contract!Called
    <2>. QED
      BY <1>5, <2>1, <2>2, SameWords DEF HandlerRaises, Contract!CallHandler
  <1>6. ASSUME pc \notin {"idle", "done"}, pc' = "done", UNCHANGED <<request, outcome>>
        PROVE  Contract!Reply
    <2> DEFINE rejected == ~event.parses \/ ~event.casts
    <2>1. rejected => ~Contract!Called
      BY SameWords DEF RejectedUncalled, Contract!Called
    <2>2. IInv'
      BY TypeStep, TelemetryStep, ControlStep, MetricsStep DEF IInv
    <2>3. response' = Due'
      BY <1>6, <2>2 DEF IInv, ControlInv, AnswerMatchesOutcome, Due
    <2>4. Due' \in {Promised, Contract!Internal}
      BY <1>6, PromisedFrame DEF Due
    <2>5. Promised = Contract!Promise(rejected, event.action, returned, raised)
      BY DEF Promised
    <2>6. rejected \in BOOLEAN
      OBVIOUS
    <2>7. response' \in {Contract!Promise(rejected, event.action, returned, raised),
                         Contract!Internal}
      BY <2>3, <2>4, <2>5
    <2> HIDE DEF rejected
    <2>. QED
      BY <1>6, <2>1, <2>6, <2>7 DEF Contract!Reply
  <1>7. CASE ParseRequest \/ CastRequest
    BY <1>3, <1>7 DEF ParseRequest, CastRequest, RejectRequest, Raise
  <1>8. CASE SetupLogs \/ SetupRaises \/ SkipTelemetry \/ AddPublisher
    BY <1>3, <1>8 DEF SetupLogs, SetupRaises, SkipTelemetry, AddPublisher, Raise
  <1>9. CASE PublishInvocation
    BY <1>3, <1>9 DEF PublishInvocation, Publish, Raise
  <1>10. CASE PublishDuration
    BY <1>3, <1>10 DEF PublishDuration, AfterDuration, Publish, Raise
  <1>11. CASE PublishException
    BY <1>3, <1>11 DEF PublishException, Publish, Raise
  <1>12. CASE NoHandler \/ Catch
    BY <1>3, <1>12 DEF NoHandler, Catch
  <1>13. CASE Serialize
    <2>1. CASE progress.sound
      BY <1>6, <1>13, <2>1 DEF Serialize, Contract!Next
    <2>2. CASE ~progress.sound
      BY <1>3, <1>13, <2>2 DEF Serialize
    <2>. QED
      BY <2>1, <2>2
  <1>14. CASE FallBack
    BY <1>6, <1>14 DEF FallBack, Contract!Next
  <1>15. CASE UNCHANGED vars
    BY <1>15 DEF vars, Contract!contractVars
  <1>. QED
    BY <1>1, <1>2, <1>4, <1>5, <1>7, <1>8, <1>9, <1>10, <1>11, <1>12, <1>13, <1>14, <1>15
    DEF Next, Step, Contract!Next

\* The safety part of KeepsContract: Resource.__call__ calls the handler at most
\* once, only for an accepted request, and answers as the contract allows.
THEOREM ImplementsContract ==
  Spec => Contract!Init /\ [][Contract!Next]_(Contract!contractVars)
  <1>1. Init => Contract!Init /\ RejectedUncalled
    BY SameWords DEF Init, Contract!Init, RejectedUncalled
  <1>2. IInv /\ RejectedUncalled /\ [Next]_vars => RejectedUncalled'
    BY RejectedStep
  <1>3. IInv /\ RejectedUncalled /\ [Next]_vars => [Contract!Next]_(Contract!contractVars)
    BY ContractStep
  <1>. QED
    BY <1>1, <1>2, <1>3, InvariantHolds, PTL DEF Spec
=============================================================================
