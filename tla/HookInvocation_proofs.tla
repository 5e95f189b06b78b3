------------------------ MODULE HookInvocation_proofs ------------------------
(* Proofs about Hook.__call__, for every set of invocation points, codes,     *)
(* streams and requests, every number of invocations and every number of      *)
(* retries of the payload's download.                                         *)
EXTENDS HookInvocation, Invocation_proofs

-----------------------------------------------------------------------------
(* The inductive invariant.                                                   *)

\* What the caller is to be told, given all that has happened so far.
Due == IF fault THEN Contract!Internal
       ELSE Contract!Promise(Rejected, event.action, returned, raised)

\* What a progress turns into: itself, or InternalFailure if it is unsound.
Verdict(p) == IF p.sound THEN Answer(p) ELSE Contract!Internal

\* The statements that run for accepted requests only, and those before the handler
\* has returned.
Accepted == {"cast", "setup", "publisher", "invocation", "handler"}
Early == {"parse", "fetch"} \cup Accepted

\* A request that was turned down never reached the handler.
RejectedUncalled == Rejected => returned = NoProgress /\ raised = NoError

\* At each statement, the locals of __call__ already determine the answer due.
ControlInv ==
    /\ pc \in Early =>
          ~fault /\ error = NoError /\ returned = NoProgress /\ raised = NoError
    /\ pc \in Accepted => event.parses /\ reply \notin {"garbled", "transient"}
    /\ pc \in Accepted \ {"cast"} => event.casts
    /\ pc = "duration" =>
          /\ ~fault
          /\ error = NoError => progress \in Progress /\ Verdict(progress) = Due
          /\ error # NoError => error \in Exceptions /\ Verdict(FailureFor(error)) = Due
    /\ pc \in {"exception", "except"} =>
          error \in Exceptions /\ Verdict(FailureFor(error)) = Due
    /\ pc = "exception" => ~fault
    /\ pc = "serialize" => progress \in Progress /\ Verdict(progress) = Due
    /\ pc = "fallback" => Due = Contract!Internal
    /\ RejectedUncalled
    /\ AnswerMatchesOutcome

\* The download is made once per request, before the request is parsed any further,
\* and one retry at a time; what it came to is what the handler has to go by.
PayloadInv ==
    /\ pc = "parse" => tries = 0 /\ reply = Nothing /\ target = Given(event)
    /\ pc = "fetch" =>
          /\ event.remote /\ target = "missing"
          /\ tries <= RetryLimit /\ reply \in {Nothing, "transient"}
    /\ pc \in Accepted => target # "missing" \/ reply = "refused"
    /\ NoModelOnlyIfRefused

\* Only a progress of the handler's is unsound: what the runtime answers with on its
\* own behalf can be serialized, token included.
EchoInv ==
    /\ pc = "serialize" \/ (pc = "duration" /\ error = NoError) =>
          progress.sound \/ (returned # NoProgress /\ ~returned.sound)
    /\ pc = "fallback" =>
          (returned # NoProgress /\ ~returned.sound) \/ (logsSetup /\ fault)
    /\ TokenEchoed

\* The metrics of an invocation that ended as this one, as far as it got.
Reported ==
    {"HandlerInvocationCount"}
        \cup (IF raised = BaseException THEN {} ELSE {"HandlerInvocationDuration"})
        \cup (IF raised \in Exceptions \ {BaseException} THEN {"HandlerException"} ELSE {})

\* At each statement, the metrics published are those of the statements behind it,
\* and the error at hand is the exception the handler raised, if it raised one.
MetricsInv ==
    /\ pc \in Early \ {"invocation", "handler"} => ~publishing
    /\ pc \in Early \ {"handler"} => published = {}
    /\ pc \in {"handler", "duration"} /\ publishing => published = {"HandlerInvocationCount"}
    /\ pc = "duration" => raised # BaseException /\ error = raised
    /\ pc = "exception" => raised \in Exceptions \ {BaseException}
    /\ pc = "exception" /\ publishing =>
          published = {"HandlerInvocationCount", "HandlerInvocationDuration"}
    /\ pc \in {"except", "serialize", "fallback", "done"} /\ publishing /\ ~fault =>
          published = Reported

IInv ==
    /\ HookTypeOK /\ Started /\ CredsInv
    /\ ControlInv /\ MetricsInv /\ PayloadInv /\ EchoInv

-----------------------------------------------------------------------------
(* Types.                                                                     *)

\* What is particular to a hook, and what a hook shares with a resource.
LEMMA SharedIs == SharedStep <=> SharedStatements /\ UNCHANGED hookLocals
  BY DEF SharedStep, SharedStatements

\* Setup leaves a log handler with this invocation's credentials.
LEMMA AttachType ==
  ASSUME TypeOK, Started, pc = "setup", AttachHookHandler
  PROVE  provider' \in Providers /\ filtered' \in BOOLEAN /\ provider'.creds = n
  <1>1. n \in 1..MaxInvocations /\ event.stream \in Streams /\ filtered \in BOOLEAN
    BY DEF TypeOK, Started, EventType
  <1>2. CASE provider = NoProvider
    BY <1>1, <1>2 DEF AttachHookHandler, Providers
  <1>3. CASE provider # NoProvider
    <2>1. provider \in Providers
      BY <1>3 DEF TypeOK
    <2>2. provider' = [provider EXCEPT !.creds = n] /\ filtered' = filtered
      BY <1>3 DEF AttachHookHandler
    <2>. QED
      BY <1>1, <2>1, <2>2 DEF Providers
  <1>. QED
    BY <1>2, <1>3

\* Parsing goes on to the cast, or raises; either way the types are kept.
LEMMA ParseType ==
  ASSUME TypeOK, Started, pc # "idle", ParseRest \/ RejectRequest,
         UNCHANGED <<container, request, logsSetup, publishing, progress, response, outcome>>
  PROVE  TypeOK' /\ Started'
  <1>t. /\ error \in Exceptions \cup {NoError} /\ progress \in Progress \cup {NoProgress}
        /\ published \subseteq Metrics /\ fault \in BOOLEAN
        /\ {"except", "cast"} \subseteq Running
    BY DEF TypeOK, Running
  <1>1. CASE RejectRequest
    BY <1>1, <1>t, RejectType, StatementType
  <1>2. CASE event.parses /\ pc' = "cast" /\ UNCHANGED <<error, telemetry>>
    BY <1>2, <1>t, StatementType DEF telemetry
  <1>. QED
    BY <1>1, <1>2 DEF ParseRest

\* Every step keeps every variable that a hook shares with a resource in its type.
LEMMA TypeStep ==
  HookTypeOK /\ Started /\ [HookNext]_hookVars => TypeOK' /\ Started'
  <1> SUFFICES ASSUME HookTypeOK, Started, [HookNext]_hookVars PROVE TypeOK' /\ Started'
    OBVIOUS
  <1>t. TypeOK
    BY DEF HookTypeOK
  <1>1. CASE HookRecycle \/ \E e \in Events : HookReceive(e)
    BY <1>1, <1>t, ReceiveType DEF HookRecycle, HookReceive
  <1>2. CASE SharedStep
    BY <1>2, <1>t, SharedType, SharedIs
  <1>3. CASE ParseHookRequest
    <2>1. CASE event.remote /\ pc' = "fetch" /\ UNCHANGED <<error, telemetry>>
      BY <1>3, <1>t, <2>1
      DEF ParseHookRequest, TypeOK, Started, Running, container, request, telemetry, outcome
    <2>. QED
      BY <1>3, <1>t, <2>1, ParseType DEF ParseHookRequest
  <1>4. CASE Fetch
    <2>1. CASE UNCHANGED <<pc, error, telemetry>>
      BY <1>4, <1>t, <2>1
      DEF Fetch, TypeOK, Started, Running, container, request, telemetry, outcome
    <2>. QED
      BY <1>4, <1>t, <2>1, ParseType DEF Fetch, GiveUp
  <1> USE DEF TypeOK, Started, Running, container, request, telemetry, outcome
  <1>5. CASE HookSetupLogs
    <2>1. AttachHookHandler => provider' \in Providers /\ filtered' \in BOOLEAN
      BY AttachType, <1>t, <1>5 DEF HookSetupLogs
    <2>. QED
      BY <1>5, <1>t, <2>1 DEF HookSetupLogs
  <1>6. CASE HookSetupRaises
    BY <1>6, <1>t, Values DEF HookSetupRaises, Raise
  <1>7. ASSUME NEW p \in Progress, HookHandlerReturns(p) PROVE TypeOK' /\ Started'
    BY <1>7, <1>t, Values, ShipType DEF HookHandlerReturns, MayLog
  <1>8. CASE HookSerialize
    <2>1. progress.sound => progress \in Progress
      BY <1>t DEF NoProgress
    <2>2. progress \in Progress =>
            [status |-> HookStatus(progress.status), code |-> progress.code] \in Answers
      BY DEF HookStatus, Progress, Answers, Statuses
    <2>. QED
      BY <1>8, <1>t, <2>1, <2>2 DEF HookSerialize
  <1>9. CASE HookFallBack
    BY <1>9, <1>t, Values DEF HookFallBack
  <1>10. CASE UNCHANGED hookVars
    BY <1>10, <1>t DEF hookVars, vars
  <1>. QED
    BY <1>1, <1>2, <1>3, <1>4, <1>5, <1>6, <1>7, <1>8, <1>9, <1>10 DEF HookNext, HookStep

\* The download stays within its retries, so that the locals of its own keep their
\* types too.
LEMMA LocalsStep ==
  HookTypeOK /\ Started /\ PayloadInv /\ [HookNext]_hookVars => HookTypeOK'
  <1> SUFFICES ASSUME HookTypeOK, Started, PayloadInv, [HookNext]_hookVars PROVE HookTypeOK'
    OBVIOUS
  <1>1. TypeOK'
    BY TypeStep
  <1> DEFINE LocalsOK == /\ tries \in 0..(RetryLimit + 1) /\ reply \in Replies \cup {Nothing}
                         /\ target \in {"inline", "downloaded", "missing"}
                         /\ echoed \in BOOLEAN
  <1>2. LocalsOK /\ RetryLimit \in Nat
    BY RetryAssumption DEF HookTypeOK
  <1>3. ASSUME NEW e, FreshLocals(e) PROVE LocalsOK'
    <2>1. Given(e) \in {"inline", "downloaded", "missing"}
      BY DEF Given
    <2>2. 0 \in 0..(RetryLimit + 1)
      BY <1>2
    <2>. QED
      BY <1>3, <2>1, <2>2 DEF FreshLocals
  <1>4. CASE Fetch
    <2>1. tries \in 0..RetryLimit
      BY <1>2, <1>4 DEF Fetch, PayloadInv
    <2>. QED
      BY <1>1, <1>2, <1>4, <2>1 DEF Fetch, Replies, HookTypeOK
  <1>5. CASE UNCHANGED <<tries, reply, target>> /\ echoed' \in {echoed, TRUE, FALSE}
    BY <1>1, <1>2, <1>5 DEF HookTypeOK
  <1>6. CASE HookRecycle \/ \E e \in Events : HookReceive(e)
    BY <1>1, <1>3, <1>6 DEF HookRecycle, HookReceive, HookTypeOK
  <1>7. ParseHookRequest \/ HookSetupLogs \/ HookSetupRaises \/ SharedStep
          \/ (\E p \in Progress : HookHandlerReturns(p))
          \/ HookSerialize \/ HookFallBack \/ UNCHANGED hookVars
          => UNCHANGED <<tries, reply, target>> /\ echoed' \in {echoed, TRUE, FALSE}
    BY DEF ParseHookRequest, HookSetupLogs, HookSetupRaises, SharedStep, HookHandlerReturns,
           HookSerialize, HookFallBack, TokenOfEvent, hookLocals, hookVars
  <1>. QED
    BY <1>4, <1>5, <1>6, <1>7 DEF HookNext, HookStep
-----------------------------------------------------------------------------
(* Credentials.                                                               *)

\* Every step keeps the client of the log handler this invocation's own.  A hook
\* puts the filter on before it makes the client, which is why nothing is said
\* here of FilteredRecordsHaveAHome.
LEMMA CredsStep ==
  HookTypeOK /\ Started /\ CredsInv /\ [HookNext]_hookVars => CredsInv'
  <1> SUFFICES ASSUME HookTypeOK, Started, CredsInv, [HookNext]_hookVars PROVE CredsInv'
    OBVIOUS
  <1>t. TypeOK
    BY DEF HookTypeOK
  <1>1. CASE HookRecycle \/ \E e \in Events : HookReceive(e)
    BY <1>1, <1>t, ReceiveFresh DEF HookRecycle, HookReceive
  <1>2. ASSUME OnlyShips PROVE CredsInv'
    BY <1>2, <1>t, ShipFresh
  <1>3. SharedStep => OnlyShips
    BY SharedIs, SharedOnlyShips
  <1> USE DEF container, request, telemetry, outcome
  <1>4. CASE HookSetupLogs
    <2>1. CASE event.typed /\ AttachHookHandler
      <3>1. provider' # NoProvider /\ provider'.creds = n
        BY <1>4, <1>t, <2>1, AttachType, NothingAssumption
        DEF HookSetupLogs, Providers, NoProvider
      <3>2. n <= n
        BY <1>t DEF TypeOK
      <3>. QED
        BY <1>4, <2>1, <3>1, <3>2 DEF HookSetupLogs, CredsInv, FreshCredentials
    <2>2. CASE ~event.typed /\ UNCHANGED container
      BY <1>4, <2>2 DEF HookSetupLogs, CredsInv, FreshCredentials
    <2>. QED
      BY <1>4, <2>1, <2>2 DEF HookSetupLogs
  <1>5. CASE HookSetupRaises
    BY <1>5 DEF HookSetupRaises, CredsInv, FreshCredentials
  <1>6. RejectRequest \/ UNCHANGED telemetry => Ship \/ UNCHANGED shipped
    BY DEF RejectRequest, Logged, LogFails
  <1>7. ParseHookRequest \/ Fetch => OnlyShips
    BY <1>6 DEF ParseHookRequest, ParseRest, Fetch, GiveUp, OnlyShips
  <1>8. HookSerialize \/ HookFallBack => OnlyShips
    BY DEF HookSerialize, HookFallBack, OnlyShips
  <1>9. (\E p \in Progress : HookHandlerReturns(p)) => OnlyShips
    BY DEF HookHandlerReturns, MayLog, OnlyShips
  <1>10. UNCHANGED hookVars => OnlyShips
    BY DEF hookVars, vars, OnlyShips
  <1>. QED
    BY <1>1, <1>2, <1>3, <1>4, <1>5, <1>7, <1>8, <1>9, <1>10 DEF HookNext, HookStep

-----------------------------------------------------------------------------
(* The payload.                                                               *)

\* Every step keeps what is known of the target model: a request goes on without
\* one only if the store refused it.
LEMMA PayloadStep ==
  HookTypeOK /\ Started /\ ControlInv /\ PayloadInv /\ [HookNext]_hookVars => PayloadInv'
  <1> SUFFICES ASSUME HookTypeOK, Started, ControlInv, PayloadInv, [HookNext]_hookVars
               PROVE  PayloadInv'
    OBVIOUS
  <1> USE DEF container, request, telemetry, outcome, hookLocals, Accepted, Early
  <1>1. CASE HookRecycle \/ \E e \in Events : HookReceive(e)
    BY <1>1 DEF HookRecycle, HookReceive, Recycle, Receive, FreshLocals, PayloadInv,
                NoModelOnlyIfRefused
  <1>2. CASE ParseHookRequest
    <2>1. /\ tries = 0 /\ reply = Nothing /\ target = Given(event)
          /\ returned = NoProgress /\ raised = NoError
      BY <1>2 DEF ParseHookRequest, PayloadInv, ControlInv
    <2>2. 0 <= RetryLimit
      BY RetryAssumption
    <2>. QED
      BY <1>2, <2>1, <2>2
      DEF ParseHookRequest, ParseRest, RejectRequest, Raise, Given, PayloadInv,
          NoModelOnlyIfRefused
  <1>3. CASE Fetch
    <2>1. event.remote /\ target = "missing" /\ returned = NoProgress /\ raised = NoError
      BY <1>3 DEF Fetch, PayloadInv, ControlInv
    <2>2. tries \in Nat /\ RetryLimit \in Nat
      BY RetryAssumption DEF HookTypeOK
    <2>3. MayRetry => tries + 1 <= RetryLimit
      BY <2>2 DEF MayRetry
    <2>. QED
      BY <1>3, <2>1, <2>3
      DEF Fetch, GiveUp, ParseRest, RejectRequest, Raise, PayloadInv, NoModelOnlyIfRefused
  <1>4. ASSUME pc' \notin {"parse", "fetch"}, pc' \in Accepted => pc \in Accepted,
               UNCHANGED <<request, tries, reply, target>>,
               UNCHANGED outcome \/ pc \in Accepted
        PROVE  PayloadInv'
    BY <1>4 DEF PayloadInv, NoModelOnlyIfRefused
  <1>5. CASE CastRequest /\ UNCHANGED hookLocals
    BY <1>4, <1>5 DEF CastRequest, RejectRequest, Raise
  <1>6. CASE (SkipTelemetry \/ AddPublisher) /\ UNCHANGED hookLocals
    BY <1>4, <1>6 DEF SkipTelemetry, AddPublisher, Raise
  <1>7. CASE (PublishInvocation \/ PublishDuration \/ PublishException) /\ UNCHANGED hookLocals
    BY <1>4, <1>7 DEF PublishInvocation, PublishDuration, AfterDuration, PublishException,
                      Publish, Raise
  <1>8. CASE (NoHandler \/ Catch) /\ UNCHANGED hookLocals
    BY <1>4, <1>8 DEF NoHandler, Catch
  <1>9. CASE (\E e \in Exceptions : HandlerRaises(e)) /\ UNCHANGED hookLocals
    BY <1>4, <1>9 DEF HandlerRaises
  <1>10. CASE HookSetupLogs \/ HookSetupRaises
    BY <1>4, <1>10 DEF HookSetupLogs, HookSetupRaises, Raise
  <1>11. CASE \E p \in Progress : HookHandlerReturns(p)
    BY <1>4, <1>11 DEF HookHandlerReturns
  <1>12. CASE HookSerialize \/ HookFallBack
    BY <1>4, <1>12 DEF HookSerialize, HookFallBack
  <1>13. CASE UNCHANGED hookVars
    BY <1>13 DEF hookVars, vars, PayloadInv, NoModelOnlyIfRefused
  <1>. QED
    BY <1>1, <1>2, <1>3, <1>5, <1>6, <1>7, <1>8, <1>9, <1>10, <1>11, <1>12, <1>13
    DEF HookNext, HookStep, SharedStep
-----------------------------------------------------------------------------
(* The answer.                                                                *)

\* The cases of the contract's promise, one for each way to the answer.
LEMMA PromiseCases ==
  /\ \A a, p, x : Contract!Promise(TRUE, a, p, x) =
                    Verdict(FailureFor(HandlerError("InvalidRequest")))
  /\ \A a : Contract!Promise(FALSE, a, NoProgress, NoError) = Contract!Internal
  /\ \A a, x : x \in Exceptions =>
        Contract!Promise(FALSE, a, NoProgress, x) = Verdict(FailureFor(x))
  /\ \A a, p : p \in Progress => Contract!Promise(FALSE, a, p, NoError) = Verdict(p)
  /\ Verdict(FailureFor(OtherException)) = Contract!Internal
  /\ Verdict(Failed("InternalFailure")) = Contract!Internal
  <1> USE DEF Verdict, Contract!Internal, Contract!Failed, Contract!Answer, Failed, Answer,
              FailureFor, HandlerError, OtherException, BaseException, NoError, Nothing,
              NoCode, Contract!NoError, Contract!Nothing, Contract!NoCode
  <1>1. ASSUME NEW a, NEW p, NEW x
        PROVE  Contract!Promise(TRUE, a, p, x) =
                 Verdict(FailureFor(HandlerError("InvalidRequest")))
    BY DEF Contract!Promise
  <1>2. ASSUME NEW a
        PROVE  Contract!Promise(FALSE, a, NoProgress, NoError) = Contract!Internal
    BY DEF Contract!Promise, NoProgress
  <1>3. ASSUME NEW a, NEW x \in Exceptions
        PROVE  Contract!Promise(FALSE, a, NoProgress, x) = Verdict(FailureFor(x))
    BY <1>3 DEF Contract!Promise, Exceptions, NoProgress
  <1>4. ASSUME NEW a, NEW p \in Progress
        PROVE  Contract!Promise(FALSE, a, p, NoError) = Verdict(p)
    <2>1. CASE p.sound
      BY <2>1 DEF Contract!Promise
    <2>2. CASE ~p.sound
      BY <2>2 DEF Contract!Promise
    <2>. QED
      BY <2>1, <2>2
  <1>. QED
    BY <1>1, <1>2, <1>3, <1>4

\* An action that touches neither the request, nor its payload, nor the handler's
\* outcome leaves the promise as it was.
LEMMA DueFrame ==
  UNCHANGED <<event, reply, returned, raised>> =>
    /\ Rejected' = Rejected
    /\ RejectedUncalled' = RejectedUncalled
    /\ fault' = fault => Due' = Due
  BY DEF Rejected, RejectedUncalled, Due

\* The status a hook answers with has the name of its progress's.
LEMMA HookAnswer ==
  ASSUME NEW p \in Progress
  PROVE  [status |-> HookStatus(p.status), code |-> p.code] = Answer(p)
  <1>1. HookStatus(p.status) = p.status
    BY DEF HookStatus, Progress
  <1>. QED
    BY <1>1 DEF Answer

\* A request that is turned down is answered with InvalidRequest, or, if the log
\* of that fails, with InternalFailure.
LEMMA RejectControl ==
  ASSUME HookTypeOK, ControlInv, RejectRequest, pc \in Early, Rejected',
         UNCHANGED <<request, outcome>>
  PROVE  ControlInv'
  <1> USE DEF request, outcome
  <1>1. pc' = "except" /\ error' \in Exceptions
    BY Values DEF RejectRequest, Raise
  <1>2. ~fault /\ returned' = NoProgress /\ raised' = NoError
    BY DEF ControlInv
  <1>3. Verdict(FailureFor(error')) = Due'
    <2>1. CASE Logged /\ Raise(HandlerError("InvalidRequest"))
      <3>1. ~fault' /\ error' = HandlerError("InvalidRequest")
        BY <1>2, <2>1 DEF Logged, Raise
      <3>2. Due' = Contract!Promise(TRUE, event'.action, returned', raised')
        BY <3>1 DEF Due, Rejected
      <3>3. Due' = Verdict(FailureFor(HandlerError("InvalidRequest")))
        BY <3>2, PromiseCases
      <3>. QED
        BY <3>1, <3>3
    <2>2. CASE LogFails /\ Raise(OtherException)
      BY <2>2, PromiseCases DEF LogFails, Raise, Due
    <2>. QED
      BY <2>1, <2>2 DEF RejectRequest
  <1>. QED
    BY <1>1, <1>2, <1>3
    DEF ControlInv, AnswerMatchesOutcome, RejectedUncalled, Early, Accepted

\* Telemetry raised: whatever follows is answered with InternalFailure.
LEMMA FaultControl ==
  ASSUME ControlInv, pc' = "except", error' = OtherException, fault',
         UNCHANGED <<request, reply, outcome>>
  PROVE  ControlInv'
  <1>1. RejectedUncalled'
    BY DueFrame DEF ControlInv, request, outcome
  <1>. QED
    BY <1>1, PromiseCases, Values DEF ControlInv, AnswerMatchesOutcome, Due, Early, Accepted
\* Every step leaves the locals of __call__ agreeing with the answer due.
LEMMA ControlStep ==
  HookTypeOK /\ Started /\ ControlInv /\ PayloadInv /\ [HookNext]_hookVars => ControlInv'
  <1> SUFFICES ASSUME HookTypeOK, Started, ControlInv, PayloadInv, [HookNext]_hookVars
               PROVE  ControlInv'
    OBVIOUS
  <1>t. TypeOK
    BY DEF HookTypeOK
  <1> USE DEF container, request, telemetry, outcome, hookLocals
  <1>1. CASE HookRecycle \/ \E e \in Events : HookReceive(e)
    BY <1>1 DEF HookRecycle, HookReceive, Recycle, Receive, ControlInv, AnswerMatchesOutcome,
                RejectedUncalled, Early, Accepted
  <1>2. ASSUME pc \in Early, pc' \in Early, UNCHANGED <<request, outcome, error, fault>>,
               pc' \in Accepted => event.parses /\ reply' \notin {"garbled", "transient"},
               pc' \in Accepted \ {"cast"} => event.casts
        PROVE  ControlInv'
    BY <1>2 DEF ControlInv, AnswerMatchesOutcome, RejectedUncalled, Early, Accepted
  <1>3. CASE ParseHookRequest
    <2>1. CASE RejectRequest /\ ~event.parses
      BY <1>3, <2>1, RejectControl DEF ParseHookRequest, Rejected, Early
    <2>2. CASE event.remote /\ pc' = "fetch" /\ UNCHANGED <<error, telemetry>>
      BY <1>2, <1>3, <2>2 DEF ParseHookRequest, Early, Accepted
    <2>3. CASE event.parses /\ pc' = "cast" /\ UNCHANGED <<error, telemetry>>
      <3>1. reply' = Nothing
        BY <1>3 DEF ParseHookRequest, PayloadInv
      <3>. QED
        BY <1>2, <1>3, <2>3, <3>1 DEF ParseHookRequest, Nothing, Early, Accepted
    <2>. QED
      BY <1>3, <2>1, <2>2, <2>3 DEF ParseHookRequest, ParseRest
  <1>4. CASE Fetch
    <2>1. CASE RejectRequest /\ (~event.parses \/ reply' \in {"garbled", "transient"})
      BY <1>4, <2>1, RejectControl DEF Fetch, Rejected, Early
    <2>2. CASE UNCHANGED <<pc, error, telemetry>>
      BY <1>2, <1>4, <2>2 DEF Fetch, Early, Accepted
    <2>3. CASE /\ event.parses /\ pc' = "cast" /\ UNCHANGED <<error, telemetry>>
               /\ reply' \in {"model", "refused"}
      BY <1>2, <1>4, <2>3 DEF Fetch, Early, Accepted
    <2>. QED
      BY <1>4, <2>1, <2>2, <2>3 DEF Fetch, ParseRest, GiveUp
  <1>5. CASE CastRequest /\ UNCHANGED hookLocals
    <2>1. CASE event.casts /\ pc' = "setup" /\ UNCHANGED <<error, telemetry>>
      <3>1. pc = "cast" /\ event.parses /\ reply' \notin {"garbled", "transient"}
        BY <1>5 DEF CastRequest, ControlInv, Accepted
      <3>. QED
        BY <1>2, <1>5, <2>1, <3>1 DEF CastRequest, Early, Accepted
    <2>2. CASE ~event.casts /\ RejectRequest
      BY <1>5, <2>2, RejectControl DEF CastRequest, Rejected, Early, Accepted
    <2>. QED
      BY <1>5, <2>1, <2>2 DEF CastRequest
  <1>6. CASE (HookSetupLogs \/ SkipTelemetry) /\ UNCHANGED hookLocals
    <2>1. /\ pc = "setup" /\ event.parses /\ event.casts
          /\ reply' \notin {"garbled", "transient"}
      BY <1>6 DEF HookSetupLogs, SkipTelemetry, ControlInv, Accepted
    <2>. QED
      BY <1>2, <1>6, <2>1 DEF HookSetupLogs, SkipTelemetry, Early, Accepted
  <1>7. CASE HookSetupRaises
    BY <1>7, FaultControl DEF HookSetupRaises, Raise
  <1>8. CASE AddPublisher /\ UNCHANGED hookLocals
    <2>1. CASE pc' = "invocation" /\ UNCHANGED <<error, fault>>
      <3>1. /\ pc = "publisher" /\ event.parses /\ event.casts
            /\ reply' \notin {"garbled", "transient"}
        BY <1>8 DEF AddPublisher, ControlInv, Accepted
      <3>. QED
        BY <1>2, <1>8, <2>1, <3>1 DEF AddPublisher, Early, Accepted
    <2>. QED
      BY <1>8, <2>1, FaultControl DEF AddPublisher, Raise
  <1>9. CASE PublishInvocation /\ UNCHANGED hookLocals
    <2>1. CASE pc' = "handler" /\ UNCHANGED <<error, fault>>
      <3>1. /\ pc = "invocation" /\ event.parses /\ event.casts
            /\ reply' \notin {"garbled", "transient"}
        BY <1>9 DEF PublishInvocation, ControlInv, Accepted
      <3>. QED
        BY <1>2, <1>9, <2>1, <3>1 DEF PublishInvocation, Early, Accepted
    <2>. QED
      BY <1>9, <1>t, <2>1, PublishOutcome, FaultControl DEF PublishInvocation
  <1>h. pc = "handler" => /\ Rejected = FALSE /\ ~fault /\ error = NoError
                          /\ returned = NoProgress /\ raised = NoError
    BY DEF ControlInv, Rejected, Early, Accepted
  <1>10. CASE NoHandler /\ UNCHANGED hookLocals
    <2>1. Due' = Contract!Internal /\ RejectedUncalled'
      BY <1>10, <1>h, DueFrame, PromiseCases DEF NoHandler, Due, RejectedUncalled
    <2>. QED
      BY <1>10, <1>h, <2>1, PromiseCases, Values
      DEF NoHandler, ControlInv, AnswerMatchesOutcome, Early, Accepted
  <1>11. ASSUME NEW p \in Progress, HookHandlerReturns(p) PROVE ControlInv'
    <2>1. /\ pc' = "duration" /\ ~fault' /\ Rejected' = FALSE /\ error' = NoError
          /\ returned' = p /\ raised' = NoError /\ progress' = p
      BY <1>11, <1>h DEF HookHandlerReturns, Rejected
    <2>2. Verdict(progress') = Due'
      BY <2>1, PromiseCases DEF Due
    <2>. QED
      BY <2>1, <2>2 DEF ControlInv, AnswerMatchesOutcome, RejectedUncalled, Early, Accepted
  <1>12. ASSUME NEW e \in Exceptions, HandlerRaises(e), UNCHANGED hookLocals PROVE ControlInv'
    <2>1. /\ ~fault' /\ Rejected' = FALSE /\ error' = e /\ returned' = NoProgress /\ raised' = e
          /\ pc' \in {"duration", "except"}
      BY <1>12, <1>h DEF HandlerRaises, Rejected
    <2>2. Verdict(FailureFor(error')) = Due'
      BY <2>1, PromiseCases DEF Due
    <2>3. error' # NoError
      BY <2>1 DEF Exceptions, HandlerError, OtherException, BaseException, NoError, Nothing
    <2>. QED
      BY <2>1, <2>2, <2>3
      DEF ControlInv, AnswerMatchesOutcome, RejectedUncalled, Early, Accepted
  <1>13. CASE PublishDuration /\ UNCHANGED hookLocals
    <2>1. CASE pc' = AfterDuration /\ UNCHANGED <<error, fault>>
      <3>1. Due' = Due /\ RejectedUncalled' /\ ~fault' /\ pc = "duration"
        BY <1>13, <2>1, DueFrame DEF PublishDuration, ControlInv
      <3>. QED
        BY <1>13, <2>1, <3>1
        DEF PublishDuration, AfterDuration, ControlInv, AnswerMatchesOutcome, Early, Accepted
    <2>. QED
      BY <1>13, <1>t, <2>1, PublishOutcome, FaultControl DEF PublishDuration
  <1>14. CASE PublishException /\ UNCHANGED hookLocals
    <2>1. CASE pc' = "except" /\ UNCHANGED <<error, fault>>
      <3>1. Due' = Due /\ RejectedUncalled' /\ pc = "exception"
        BY <1>14, <2>1, DueFrame DEF PublishException, ControlInv
      <3>. QED
        BY <1>14, <2>1, <3>1
        DEF PublishException, ControlInv, AnswerMatchesOutcome, Early, Accepted
    <2>. QED
      BY <1>14, <1>t, <2>1, PublishOutcome, FaultControl DEF PublishException
  <1>15. CASE Catch /\ UNCHANGED hookLocals
    <2>1. /\ error \in Exceptions /\ Verdict(FailureFor(error)) = Due
          /\ RejectedUncalled'
      BY <1>15, DueFrame DEF Catch, ControlInv
    <2>2. CASE fault' = fault /\ progress' = FailureFor(error) /\ pc' = "serialize"
      <3>1. Due' = Due
        BY <1>15, <2>2, DueFrame DEF Catch
      <3>. QED
        BY <2>1, <2>2, <3>1, Values DEF ControlInv, AnswerMatchesOutcome, Early, Accepted
    <2>3. CASE fault' /\ pc' = "fallback"
      BY <2>1, <2>3 DEF ControlInv, AnswerMatchesOutcome, Due, Early, Accepted
    <2>. QED
      BY <1>15, <2>2, <2>3 DEF Catch, Logged, LogFails
  <1>16. CASE HookSerialize \/ HookFallBack
    <2>1. /\ Due' = Due /\ RejectedUncalled'
          /\ Answer(Failed("InternalFailure")) = Contract!Internal
      BY <1>16, DueFrame
      DEF HookSerialize, HookFallBack, ControlInv, Contract!Internal, Contract!Answer,
          Contract!Failed, Answer, Failed
    <2>2. pc' = "done" /\ response' = Due' => ControlInv'
      BY <2>1 DEF ControlInv, AnswerMatchesOutcome, Due, Early, Accepted
    <2>3. CASE progress.sound /\ HookSerialize
      <3>1. progress \in Progress /\ Verdict(progress) = Due
        BY <2>3 DEF HookSerialize, ControlInv
      <3>2. response' = Due'
        BY <2>1, <2>3, <3>1, HookAnswer DEF HookSerialize, Verdict
      <3>. QED
        BY <2>2, <2>3, <3>2 DEF HookSerialize
    <2>4. CASE ~progress.sound /\ HookSerialize
      BY <2>1, <2>4
      DEF HookSerialize, ControlInv, AnswerMatchesOutcome, Verdict, Early, Accepted
    <2>5. CASE HookFallBack
      BY <2>1, <2>2, <2>5 DEF HookFallBack, ControlInv
    <2>. QED
      BY <1>16, <2>3, <2>4, <2>5
  <1>17. CASE UNCHANGED hookVars
    <2>1. Due' = Due /\ RejectedUncalled' = RejectedUncalled
      BY <1>17, DueFrame DEF hookVars, vars
    <2>. QED
      BY <1>17, <2>1 DEF hookVars, vars, ControlInv, AnswerMatchesOutcome, Due
  <1>. QED
    BY <1>1, <1>3, <1>4, <1>5, <1>6, <1>7, <1>8, <1>9, <1>10, <1>11, <1>12, <1>13, <1>14,
       <1>15, <1>16, <1>17 DEF HookNext, HookStep, HookSetupLogs, SharedStep
-----------------------------------------------------------------------------
(* The token.                                                                 *)

\* Every step that can lead to an answer without the token comes from a progress
\* that is no JSON, or from a log handler that raised after logging was set up.
LEMMA EchoStep ==
  HookTypeOK /\ EchoInv /\ [HookNext]_hookVars => EchoInv'
  <1> SUFFICES ASSUME HookTypeOK, EchoInv, [HookNext]_hookVars PROVE EchoInv'
    OBVIOUS
  <1>t. TypeOK
    BY DEF HookTypeOK
  <1> USE DEF container, request, telemetry, outcome, hookLocals
  <1>1. ASSUME pc' \notin {"duration", "serialize", "fallback", "done"} PROVE EchoInv'
    BY <1>1 DEF EchoInv, TokenEchoed
  <1>2. CASE HookRecycle \/ \E e \in Events : HookReceive(e)
    BY <1>1, <1>2 DEF HookRecycle, HookReceive, Recycle, Receive
  <1>3. CASE ParseHookRequest \/ CastRequest
    BY <1>1, <1>3 DEF ParseHookRequest, ParseRest, CastRequest, RejectRequest, Raise
  <1>4. CASE Fetch
    BY <1>1, <1>4 DEF Fetch, ParseRest, GiveUp, RejectRequest, Raise
  <1>5. CASE HookSetupLogs \/ HookSetupRaises \/ SkipTelemetry \/ AddPublisher
    BY <1>1, <1>5 DEF HookSetupLogs, HookSetupRaises, SkipTelemetry, AddPublisher, Raise
  <1>6. CASE PublishInvocation \/ PublishException
    BY <1>1, <1>6 DEF PublishInvocation, PublishException, Publish, Raise
  <1>7. CASE NoHandler
    BY <1>7 DEF NoHandler, Failed, EchoInv, TokenEchoed
  <1>8. ASSUME NEW p \in Progress, HookHandlerReturns(p) PROVE EchoInv'
    <2>1. p # NoProgress
      BY DEF Progress, NoProgress, Statuses, Nothing
    <2>. QED
      BY <1>8, <2>1 DEF HookHandlerReturns, EchoInv, TokenEchoed
  <1>9. ASSUME NEW e \in Exceptions, HandlerRaises(e) PROVE EchoInv'
    <2>1. error' # NoError /\ pc' \in {"duration", "except"}
      BY <1>9
      DEF HandlerRaises, Exceptions, HandlerError, OtherException, BaseException, NoError,
          Nothing
    <2>. QED
      BY <2>1 DEF EchoInv, TokenEchoed
  <1>10. CASE PublishDuration
    <2>1. \/ pc' = AfterDuration /\ UNCHANGED <<error, fault>>
          \/ pc' = "except"
      BY <1>10, <1>t, PublishOutcome DEF PublishDuration
    <2>. QED
      BY <1>1, <1>10, <2>1 DEF PublishDuration, AfterDuration, EchoInv, TokenEchoed
  <1>11. CASE Catch
    <2>1. CASE progress' = FailureFor(error) /\ pc' = "serialize"
      BY <2>1 DEF FailureFor, Failed, EchoInv, TokenEchoed
    <2>2. CASE logsSetup /\ fault' /\ pc' = "fallback"
      BY <1>11, <2>2 DEF Catch, EchoInv, TokenEchoed
    <2>. QED
      BY <1>11, <2>1, <2>2 DEF Catch, LogFails
  <1>12. CASE HookSerialize \/ HookFallBack
    BY <1>12 DEF HookSerialize, HookFallBack, TokenOfEvent, EchoInv, TokenEchoed
  <1>13. CASE UNCHANGED hookVars
    BY <1>13 DEF hookVars, vars, EchoInv, TokenEchoed
  <1>. QED
    BY <1>2, <1>3, <1>4, <1>5, <1>6, <1>7, <1>8, <1>9, <1>10, <1>11, <1>12, <1>13
    DEF HookNext, HookStep, SharedStep

-----------------------------------------------------------------------------
(* The metrics.                                                               *)

\* The metrics are told apart, and so are the exceptions they report.
LEMMA MetricCases ==
  /\ {"HandlerInvocationCount"} \cup {"HandlerInvocationDuration"}
       = {"HandlerInvocationCount", "HandlerInvocationDuration"}
  /\ \A e \in Exceptions : e # NoError /\ (e.kind = "BaseException" <=> e = BaseException)
  /\ BaseException # NoError
  BY DEF Exceptions, HandlerError, OtherException, BaseException, NoError, Nothing

\* Every step leaves published what the statements behind it publish.
LEMMA MetricsStep ==
  HookTypeOK /\ Started /\ ControlInv /\ MetricsInv /\ [HookNext]_hookVars => MetricsInv'
  <1> SUFFICES ASSUME HookTypeOK, Started, ControlInv, MetricsInv, [HookNext]_hookVars
               PROVE  MetricsInv'
    OBVIOUS
  <1> USE DEF container, request, telemetry, outcome, hookLocals, Early, Accepted
  <1>1. CASE HookRecycle \/ \E e \in Events : HookReceive(e)
    BY <1>1 DEF HookRecycle, HookReceive, Receive, Recycle, MetricsInv
  <1>2. UNCHANGED outcome => Reported' = Reported
    BY DEF Reported
  <1>3. ASSUME fault', pc' = "except" PROVE MetricsInv'
    BY <1>3 DEF MetricsInv
  <1>4. ASSUME RejectRequest, pc \in {"parse", "fetch", "cast"}, UNCHANGED publishing
        PROVE  MetricsInv'
    BY <1>4 DEF RejectRequest, Raise, MetricsInv
  <1>5. CASE ParseHookRequest \/ Fetch
    BY <1>4, <1>5 DEF ParseHookRequest, Fetch, GiveUp, ParseRest, MetricsInv
  <1>6. CASE CastRequest
    BY <1>4, <1>6 DEF CastRequest, MetricsInv
  <1>7. CASE HookSetupLogs \/ SkipTelemetry
    BY <1>7 DEF HookSetupLogs, SkipTelemetry, MetricsInv
  <1>8. CASE HookSetupRaises
    BY <1>3, <1>8 DEF HookSetupRaises, Raise
  <1>9. CASE AddPublisher
    BY <1>3, <1>9 DEF AddPublisher, Raise, MetricsInv
  <1>10. CASE PublishInvocation
    BY <1>3, <1>10, PublishOutcome DEF PublishInvocation, MetricsInv, HookTypeOK
  <1>11. CASE NoHandler
    <2>1. raised = NoError /\ error = NoError /\ UNCHANGED outcome
      BY <1>11 DEF NoHandler, ControlInv
    <2>. QED
      BY <1>11, <2>1, MetricCases DEF NoHandler, MetricsInv
  <1>12. ASSUME NEW p \in Progress, HookHandlerReturns(p) PROVE MetricsInv'
    <2>1. raised' = NoError /\ error' = NoError
      BY <1>12 DEF HookHandlerReturns, ControlInv
    <2>. QED
      BY <1>12, <2>1, MetricCases DEF HookHandlerReturns, MetricsInv
  <1>13. ASSUME NEW e \in Exceptions, HandlerRaises(e) PROVE MetricsInv'
    <2>1. raised' = e /\ error' = e /\ UNCHANGED <<published, publishing>> /\ pc = "handler"
      BY <1>13 DEF HandlerRaises
    <2>2. CASE e = BaseException
      <3>1. pc' = "except" /\ Reported' = {"HandlerInvocationCount"}
        BY <1>13, <2>1, <2>2, MetricCases DEF HandlerRaises, Reported
      <3>. QED
        BY <2>1, <3>1 DEF MetricsInv
    <2>3. CASE e # BaseException
      <3>1. pc' = "duration"
        BY <1>13, <2>3, MetricCases DEF HandlerRaises
      <3>. QED
        BY <2>1, <2>3, <3>1 DEF MetricsInv
    <2>. QED
      BY <2>2, <2>3
  <1>14. CASE PublishDuration
    <2>1. CASE pc' = AfterDuration /\ UNCHANGED <<error, fault>>
      <3>1. /\ pc = "duration" /\ UNCHANGED <<publishing, outcome>> /\ error = raised
            /\ raised # BaseException /\ error \in Exceptions \cup {NoError}
        BY <1>14 DEF PublishDuration, MetricsInv, HookTypeOK, TypeOK
      <3>2. publishing => published' = {"HandlerInvocationCount", "HandlerInvocationDuration"}
        <4>1. ~fault' /\ published' = IF publishing
                                     THEN published \cup {"HandlerInvocationDuration"}
                                     ELSE published
          BY <1>14, <2>1, PublishOutcome DEF PublishDuration, ControlInv, HookTypeOK
        <4>. QED
          BY <3>1, <4>1, MetricCases DEF MetricsInv
      <3>. QED
        BY <1>2, <2>1, <3>1, <3>2, MetricCases DEF AfterDuration, MetricsInv, Reported
    <2>. QED
      BY <1>3, <1>14, <2>1, PublishOutcome DEF PublishDuration, HookTypeOK
  <1>15. CASE PublishException
    <2>1. CASE pc' = "except" /\ UNCHANGED <<error, fault>>
      <3>1. /\ raised \in Exceptions \ {BaseException} /\ UNCHANGED <<publishing, outcome>>
            /\ pc = "exception"
        BY <1>15 DEF PublishException, MetricsInv
      <3>2. publishing => published' = Reported
        <4>1. ~fault' /\ published' = IF publishing THEN published \cup {"HandlerException"}
                                                  ELSE published
          BY <1>15, <2>1, PublishOutcome DEF PublishException, ControlInv, HookTypeOK
        <4>. QED
          BY <3>1, <4>1, MetricCases DEF MetricsInv, Reported
      <3>. QED
        BY <1>2, <2>1, <3>1, <3>2 DEF MetricsInv
    <2>. QED
      BY <1>3, <1>15, <2>1, PublishOutcome DEF PublishException, HookTypeOK
  <1>16. CASE Catch
    BY <1>2, <1>16 DEF Catch, Logged, LogFails, MetricsInv
  <1>17. CASE HookSerialize \/ HookFallBack
    BY <1>2, <1>17 DEF HookSerialize, HookFallBack, MetricsInv
  <1>18. CASE UNCHANGED hookVars
    BY <1>2, <1>18 DEF hookVars, vars, MetricsInv
  <1>. QED
    BY <1>1, <1>5, <1>6, <1>7, <1>8, <1>9, <1>10, <1>11, <1>12, <1>13, <1>14, <1>15, <1>16,
       <1>17, <1>18 DEF HookNext, HookStep, SharedStep

-----------------------------------------------------------------------------
(* The theorems.                                                              *)

LEMMA InvariantInit == HookInit => IInv
  <1> SUFFICES ASSUME HookInit PROVE IInv
    OBVIOUS
  <1>1. TypeOK /\ Started
    BY TypeInit DEF HookInit
  <1>2. HookTypeOK
    <2>1. Given(event) \in {"inline", "downloaded", "missing"}
      BY DEF Given
    <2>2. 0 \in 0..(RetryLimit + 1)
      BY RetryAssumption
    <2>. QED
      BY <1>1, <2>1, <2>2 DEF HookInit, HookTypeOK
  <1>3. CredsInv
    BY DEF HookInit, Init, CredsInv, FreshCredentials
  <1>4. ControlInv /\ MetricsInv
    BY DEF HookInit, Init, ControlInv, AnswerMatchesOutcome, RejectedUncalled, MetricsInv, Early,
           Accepted
  <1>5. PayloadInv /\ EchoInv
    BY DEF HookInit, Init, PayloadInv, NoModelOnlyIfRefused, EchoInv, TokenEchoed, Accepted
  <1>. QED
    BY <1>1, <1>2, <1>3, <1>4, <1>5 DEF IInv

LEMMA InvariantStep == IInv /\ [HookNext]_hookVars => IInv'
  <1> SUFFICES ASSUME IInv, [HookNext]_hookVars PROVE IInv'
    OBVIOUS
  <1>1. HookTypeOK' /\ Started'
    BY TypeStep, LocalsStep DEF IInv
  <1>2. CredsInv' /\ ControlInv' /\ MetricsInv' /\ PayloadInv' /\ EchoInv'
    BY CredsStep, ControlStep, MetricsStep, PayloadStep, EchoStep DEF IInv
  <1>. QED
    BY <1>1, <1>2 DEF IInv

LEMMA InvariantHolds == HookSpec => []IInv
  <1>1. HookInit => IInv
    BY InvariantInit
  <1>2. IInv /\ [HookNext]_hookVars => IInv'
    BY InvariantStep
  <1>. QED
    BY <1>1, <1>2, PTL DEF HookSpec

\* HookTypeOK holds in every state; the download of a payload never takes more than
\* one GET and RetryLimit retries.
THEOREM HookTypeCorrect == HookSpec => []HookTypeOK
  <1>1. IInv => HookTypeOK
    BY DEF IInv
  <1>. QED
    BY <1>1, InvariantHolds, PTL

\* CloudFormation is told exactly what the hook's handler said, or InvalidRequest if
\* the request or its payload could not be read, or InternalFailure if and only if
\* logging or metrics raised or the handler's word was unusable.
THEOREM HookAnswerIsDetermined == HookSpec => []AnswerMatchesOutcome
  <1>1. IInv => AnswerMatchesOutcome
    BY DEF IInv, ControlInv
  <1>. QED
    BY <1>1, InvariantHolds, PTL

\* A handler is called without a target model only if the store refused it: when the
\* retries ran out or the body was garbled it is not called at all.
THEOREM ModelMissingOnlyIfRefused == HookSpec => []NoModelOnlyIfRefused
  <1>1. IInv => NoModelOnlyIfRefused
    BY DEF IInv, PayloadInv
  <1>. QED
    BY <1>1, InvariantHolds, PTL

\* An answer without the clientRequestToken comes only of an unusable progress, or
\* of a log handler that raised after logging was set up.
THEOREM TokenIsEchoed == HookSpec => []TokenEchoed
  <1>1. IInv => TokenEchoed
    BY DEF IInv, EchoInv
  <1>. QED
    BY <1>1, InvariantHolds, PTL

\* The metrics tell what a hook's handler did, for every invocation that published any
\* and none of whose calls of CloudWatch raised; a result that is no usable progress
\* counts as a success.
THEOREM HookMetricsTellTheOutcome == HookSpec => []HookMetricsMatchOutcome
  <1>1. IInv => HookMetricsMatchOutcome
    BY DEF IInv, MetricsInv, HookMetricsMatchOutcome, Reported
  <1>. QED
    BY <1>1, InvariantHolds, PTL

\* The records a hook's invocation sends with its own credentials are exactly those
\* written after logging was set up, of a request that names its type: the others go
\* out with credentials an earlier request left in the container.
THEOREM HookCredentialsAreFresh == HookSpec => []FreshCredentials
  <1>1. IInv => FreshCredentials
    BY DEF IInv, CredsInv
  <1>. QED
    BY <1>1, InvariantHolds, PTL
-----------------------------------------------------------------------------
(* The entrypoint implements the contract.                                    *)

\* The contract's vocabulary is the runtime's.
LEMMA SameWords ==
  /\ Contract!NoProgress = NoProgress /\ Contract!NoError = NoError
  /\ Contract!NoAnswer = NoAnswer
  /\ Contract!Progress = Progress /\ Contract!Exceptions = Exceptions
  <1>1. Contract!NoCode = NoCode /\ Contract!Nothing = Nothing /\ Contract!Statuses = Statuses
    BY DEF Contract!NoCode, NoCode, Contract!Nothing, Nothing, Contract!Statuses, Statuses
  <1>2. Contract!NoProgress = NoProgress /\ Contract!NoError = NoError
    BY <1>1 DEF Contract!NoProgress, NoProgress, Contract!NoError, NoError
  <1>3. Contract!NoAnswer = NoAnswer
    BY <1>2 DEF Contract!NoAnswer, NoAnswer, Contract!Answer, Answer
  <1>4. Contract!Progress = Progress
    BY <1>1 DEF Contract!Progress, Progress
  <1>5. Contract!Exceptions = Exceptions
    BY <1>1 DEF Contract!Exceptions, Exceptions, Contract!HandlerError, HandlerError,
                Contract!OtherException, OtherException, Contract!BaseException, BaseException
  <1>. QED
    BY <1>2, <1>3, <1>4, <1>5

\* Every step is one of the contract's, or leaves all it speaks of unchanged.
LEMMA ContractStep ==
  IInv /\ [HookNext]_hookVars => [Contract!Next]_(Contract!contractVars)
  <1> SUFFICES ASSUME IInv, [HookNext]_hookVars
               PROVE  [Contract!Next]_(Contract!contractVars)
    OBVIOUS
  <1> USE DEF container, request, telemetry, outcome, hookLocals
  <1>1. ASSUME NEW e \in Events, HookReceive(e) PROVE Contract!Receive
    BY <1>1, SameWords DEF HookReceive, Receive, Contract!Receive
  <1>2. CASE HookRecycle
    BY <1>2, SameWords DEF HookRecycle, Recycle, Contract!Abandon, Contract!Next
  <1>3. ASSUME pc \notin {"idle", "done"}, pc' \notin {"idle", "done"},
               UNCHANGED <<request, outcome, response>>
        PROVE  UNCHANGED Contract!contractVars
    BY <1>3 DEF Contract!contractVars
  <1>4. pc = "handler" => /\ ~Contract!Called /\ event.parses /\ event.casts
                          /\ returned = NoProgress /\ raised = NoError
    BY SameWords DEF Contract!Called, IInv, ControlInv, Early, Accepted
  <1>5. ASSUME NEW p \in Progress, HookHandlerReturns(p) PROVE Contract!CallHandler
    BY <1>4, <1>5, SameWords DEF HookHandlerReturns, Contract!CallHandler
  <1>6. ASSUME NEW e \in Exceptions, HandlerRaises(e) PROVE Contract!CallHandler
    BY <1>4, <1>6, SameWords DEF HandlerRaises, Contract!CallHandler
  <1>7. ASSUME pc \notin {"idle", "done"}, pc' = "done",
               UNCHANGED <<request, outcome, fault, reply>>
        PROVE  Contract!Reply
    <2>1. Rejected => ~Contract!Called
      BY SameWords DEF IInv, ControlInv, RejectedUncalled, Contract!Called
    <2>2. IInv'
      BY InvariantStep
    <2>3. response' = Due'
      BY <1>7, <2>2 DEF IInv, ControlInv, AnswerMatchesOutcome, Due
    <2>4. Due' = Due /\ Rejected \in BOOLEAN
      BY <1>7, DueFrame DEF Rejected
    <2>5. response' \in {Contract!Promise(Rejected, event.action, returned, raised),
                         Contract!Internal}
      BY <2>3, <2>4 DEF Due
    <2>. QED
      BY <1>7, <2>1, <2>4, <2>5 DEF Contract!Reply
  <1>8. CASE ParseHookRequest \/ Fetch
    BY <1>3, <1>8 DEF ParseHookRequest, Fetch, GiveUp, ParseRest, RejectRequest, Raise
  <1>9. CASE CastRequest \/ HookSetupLogs \/ HookSetupRaises
    BY <1>3, <1>9 DEF CastRequest, RejectRequest, HookSetupLogs, HookSetupRaises, Raise
  <1>10. CASE SkipTelemetry \/ AddPublisher
    BY <1>3, <1>10 DEF SkipTelemetry, AddPublisher, Raise
  <1>11. CASE PublishInvocation
    BY <1>3, <1>11 DEF PublishInvocation, Publish, Raise
  <1>12. CASE PublishDuration
    BY <1>3, <1>12 DEF PublishDuration, AfterDuration, Publish, Raise
  <1>13. CASE PublishException
    BY <1>3, <1>13 DEF PublishException, Publish, Raise
  <1>14. CASE NoHandler \/ Catch
    BY <1>3, <1>14 DEF NoHandler, Catch
  <1>15. CASE HookSerialize
    <2>1. CASE progress.sound
      BY <1>7, <1>15, <2>1 DEF HookSerialize, Contract!Next
    <2>2. CASE ~progress.sound
      BY <1>3, <1>15, <2>2 DEF HookSerialize
    <2>. QED
      BY <2>1, <2>2
  <1>16. CASE HookFallBack
    BY <1>7, <1>16 DEF HookFallBack, Contract!Next
  <1>17. CASE UNCHANGED hookVars
    BY <1>17 DEF hookVars, vars, Contract!contractVars
  <1>. QED
    BY <1>1, <1>2, <1>5, <1>6, <1>8, <1>9, <1>10, <1>11, <1>12, <1>13, <1>14, <1>15, <1>16,
       <1>17 DEF HookNext, HookStep, SharedStep, Contract!Next

\* The safety part of KeepsContract: Hook.__call__ calls the handler at most once,
\* only for an accepted request, and answers as the contract allows.
THEOREM HookImplementsContract ==
  HookSpec => Contract!Init /\ [][Contract!Next]_(Contract!contractVars)
  <1>1. HookInit => Contract!Init
    BY SameWords DEF HookInit, Init, Contract!Init
  <1>2. IInv /\ [HookNext]_hookVars => [Contract!Next]_(Contract!contractVars)
    BY ContractStep
  <1>. QED
    BY <1>1, <1>2, InvariantHolds, PTL DEF HookSpec
-----------------------------------------------------------------------------
(* Progress.                                                                  *)

\* What is left is a number of statements, the GETs that may still be made among them.
LEMMA StatementsLeftRange ==
  HookTypeOK /\ PayloadInv => StatementsLeft \in 0..(12 + RetryLimit)
  <1> SUFFICES ASSUME HookTypeOK, PayloadInv PROVE StatementsLeft \in 0..(12 + RetryLimit)
    OBVIOUS
  <1>1. RetryLimit \in Nat /\ tries \in Nat
    BY RetryAssumption DEF HookTypeOK
  <1>2. pc = "fetch" => tries <= RetryLimit
    BY DEF PayloadInv
  <1>. QED
    BY <1>1, <1>2 DEF StatementsLeft

\* A statement that runs when the target model is there, or given up.
LEMMA SharedForward ==
  ASSUME SharedStep
  PROVE  StatementsLeft' < StatementsLeft
  <1> USE DEF StatementsLeft, Raise, Publish
  <1>1. CASE CastRequest
    BY <1>1 DEF CastRequest, RejectRequest
  <1>2. CASE SkipTelemetry \/ AddPublisher
    BY <1>2 DEF SkipTelemetry, AddPublisher
  <1>3. CASE PublishInvocation
    BY <1>3 DEF PublishInvocation
  <1>4. CASE NoHandler
    BY <1>4 DEF NoHandler
  <1>5. ASSUME NEW e \in Exceptions, HandlerRaises(e) PROVE StatementsLeft' < StatementsLeft
    BY <1>5 DEF HandlerRaises
  <1>6. CASE PublishDuration
    BY <1>6 DEF PublishDuration, AfterDuration
  <1>7. CASE PublishException
    BY <1>7 DEF PublishException
  <1>8. CASE Catch
    BY <1>8 DEF Catch
  <1>. QED
    BY <1>1, <1>2, <1>3, <1>4, <1>5, <1>6, <1>7, <1>8 DEF SharedStep

\* Every statement takes the call nearer to its answer.  A request that fails to parse
\* goes to the except clauses, and a retry uses up a GET: the download cannot go on for
\* longer than the retries last, whatever the store answers.
LEMMA ForwardStep ==
  ASSUME HookTypeOK, HookTypeOK', PayloadInv, PayloadInv', HookStep
  PROVE  StatementsLeft' < StatementsLeft
  <1>n. RetryLimit \in Nat /\ tries \in Nat /\ tries' \in Nat
    BY RetryAssumption DEF HookTypeOK
  <1>r. ParseRest => pc' \in {"cast", "except"}
    BY DEF ParseRest, RejectRequest, Raise
  <1>l. pc' \in {"cast", "except"} => StatementsLeft' <= 10 /\ StatementsLeft' \in Nat
    BY DEF StatementsLeft
  <1>1. CASE ParseHookRequest
    <2>1. pc = "parse" /\ tries = 0 /\ tries' = tries /\ pc' \in {"fetch", "cast", "except"}
      BY <1>1, <1>r DEF ParseHookRequest, PayloadInv, hookLocals, RejectRequest, Raise
    <2>2. StatementsLeft = 12 + RetryLimit
      BY <2>1 DEF StatementsLeft
    <2>3. pc' = "fetch" => StatementsLeft' = 11 + RetryLimit - tries'
      BY DEF StatementsLeft
    <2>. QED
      BY <1>n, <1>l, <2>1, <2>2, <2>3
  <1>2. CASE Fetch
    <2>1. /\ pc = "fetch" /\ tries' = tries + 1 /\ tries <= RetryLimit
          /\ pc' \in {"cast", "except"} \/ pc' = "fetch"
      BY <1>2, <1>r DEF Fetch, PayloadInv, GiveUp, RejectRequest, Raise
    <2>2. StatementsLeft = 11 + RetryLimit - tries
      BY <2>1 DEF StatementsLeft
    <2>3. pc' = "fetch" => StatementsLeft' = 11 + RetryLimit - tries'
      BY DEF StatementsLeft
    <2>. QED
      BY <1>n, <1>l, <2>1, <2>2, <2>3
  <1>3. CASE HookSetupLogs \/ HookSetupRaises
    BY <1>3 DEF HookSetupLogs, HookSetupRaises, Raise, StatementsLeft
  <1>4. ASSUME NEW p \in Progress, HookHandlerReturns(p) PROVE StatementsLeft' < StatementsLeft
    BY <1>4 DEF HookHandlerReturns, StatementsLeft
  <1>5. CASE SharedStep
    BY <1>5, SharedForward
  <1>6. CASE HookSerialize \/ HookFallBack
    BY <1>6 DEF HookSerialize, HookFallBack, StatementsLeft
  <1>. QED
    BY <1>1, <1>2, <1>3, <1>4, <1>5, <1>6 DEF HookStep

\* For any limit on retries, a call that Lambda does not stop is over after at most 12
\* statements and as many more as there are retries.
THEOREM CallsGoForward ==
  HookSpec => CallGoesForward /\ [](StatementsLeft \in 0..(12 + RetryLimit))
  <1>1. IInv /\ IInv' /\ [HookNext]_hookVars =>
           [(pc \in Running) => StatementsLeft' < StatementsLeft]_hookVars
    <2> SUFFICES ASSUME IInv, IInv', HookNext, pc \in Running
                 PROVE  StatementsLeft' < StatementsLeft
      OBVIOUS
    <2>0. HookTypeOK /\ HookTypeOK' /\ PayloadInv /\ PayloadInv'
      BY DEF IInv
    <2>1. ASSUME NEW e \in Events, HookReceive(e) PROVE FALSE
      BY <2>1 DEF HookReceive, Receive, Running
    <2>2. CASE HookRecycle
      <3>1. StatementsLeft' = 0
        BY <2>2 DEF HookRecycle, Recycle, StatementsLeft
      <3>2. StatementsLeft > 0
        BY <2>0, RetryAssumption DEF StatementsLeft, Running, HookTypeOK, PayloadInv
      <3>. QED
        BY <3>1, <3>2
    <2>. QED
      BY <2>0, <2>1, <2>2, ForwardStep DEF HookNext
  <1>2. IInv => StatementsLeft \in 0..(12 + RetryLimit)
    BY StatementsLeftRange DEF IInv
  <1>. QED
    BY <1>1, <1>2, InvariantHolds, PTL DEF HookSpec, CallGoesForward
=============================================================================
