--------------------------- MODULE Operation_proofs ---------------------------
(* Proofs about an operation, for every number of units and of lost answers,   *)
(* every set of actions, invocation points, codes and requests.                *)
EXTENDS Operation, TLAPS

-----------------------------------------------------------------------------
(* The inductive invariant.                                                    *)

\* What stays as it is throughout an operation: a hook's entrypoints get invocation
\* points, a resource's get actions.
Fixed == event \in Events /\ (event.action \in Points <=> entry \notin OfResource)

\* Units a request can be at: there is one left to do.
Positions == 0..(Units - 1)

PositionsInv ==
    /\ request \in [context : Positions, token : Positions]
    /\ callback \in Positions /\ token \in Positions /\ next \in Positions
    /\ answer.context \in Positions /\ answer.token \in Positions

\* Where the caller's request is, and where the handler takes up its work.
Cursor == IF Paged THEN token ELSE callback

\* No answer was lost and no token forgotten.
Exact == lost = 0 /\ ~DeployedList

\* The first c units are done, and nothing else if nothing went amiss.
Reached(c) == 1..c \subseteq done /\ (Exact => done = 1..c)

\* What a status other than FAILED and the position that comes with it say.
Tells(status, c) ==
    /\ status = "IN_PROGRESS" => ~Paged /\ c # 0 /\ Reached(c)
    /\ status = "SUCCESS" => IF c = 0 THEN done = 1..Units ELSE Paged /\ Reached(c)
    /\ status \in {"IN_PROGRESS", "SUCCESS", "FAILED"}

AnswerTells ==
    /\ answer.status = "IN_PROGRESS" => Tells("IN_PROGRESS", answer.context)
    /\ answer.status = "SUCCESS" => Tells("SUCCESS", answer.token)
    /\ answer.status \in {"IN_PROGRESS", "SUCCESS", "FAILED"}

\* The caller is never ahead of the work, and at its head unless something went amiss.
WorkInv ==
    /\ 1..At \subseteq done
    /\ pc \in {"invoke", "parse", "handler"} => Reached(At)
    /\ pc = "handler" => Reached(Cursor)
    /\ pc = "serialize" => Tells(progress.status, next)
    /\ pc = "answered" => AnswerTells
    /\ Exact => ~again
    /\ \A u \in done : 1..u \subseteq done
    /\ SuccessMeansAllDone

\* What a progress turns into: itself, or InternalFailure if it is unsound.
Verdict(p) == IF p.sound THEN Answer(p) ELSE Contract!Internal

\* The answers that the contract allows, given what the handler did.
Allowed ==
    {Contract!Internal, Contract!Promise(FALSE, event.action, returned, raised)}
        \cup {a \in {Answer(Failed("InvalidRequest"))} :
                  returned = NoProgress /\ raised = NoError}

\* At each step, the locals of the entrypoint lead to an answer that is allowed.
ControlInv ==
    /\ pc \in {"parse", "handler"} => returned = NoProgress /\ raised = NoError
    /\ pc = "handler" => event.parses /\ event.casts
    /\ pc = "except" => error \in Exceptions /\ Verdict(FailureOf(error)) \in Allowed
    /\ pc = "serialize" => Verdict(progress) \in Allowed
    /\ pc \in {"answered", "finished"} => answer.status \in Statuses

\* The handler takes up its work where the caller has it, and a position it hands back
\* lies beyond that one.
AdvanceInv ==
    ~DeployedList =>
        /\ pc = "handler" => Cursor = At
        /\ pc = "serialize" /\ progress.status # "FAILED" /\ next # 0 => next > At
        /\ pc = "answered" /\ answer.status = "IN_PROGRESS" => answer.context > At
        /\ pc = "answered" /\ answer.status = "SUCCESS" /\ answer.token # 0 => answer.token > At

\* A list through __call__ is at its first page whenever its handler is called.
FirstPageInv == DeployedList => done \subseteq {1} /\ (pc = "handler" => token = 0)

IInv ==
    /\ OpTypeOK /\ Fixed /\ PositionsInv /\ WorkInv /\ ControlInv
    /\ AdvanceInv /\ FirstPageInv

-----------------------------------------------------------------------------
(* Types.                                                                      *)

\* The values an operation is made of have the types the variables hold.
LEMMA Values ==
  /\ \A c \in Codes : Failed(c) \in Progress /\ HandlerError(c) \in Exceptions
  /\ OtherException \in Exceptions
  /\ \A e \in Exceptions \cup {NoError} : FailureOf(e) \in Progress /\ FailureOf(e).sound
  /\ "InternalFailure" \in Codes /\ "InvalidRequest" \in Codes
  /\ \A c \in Codes : Failed(c).status = "FAILED"
  /\ \A e : FailureOf(e).status = "FAILED"
  <1>1. "InternalFailure" \in Codes /\ "InvalidRequest" \in Codes
    BY CodesAssumption
  <1>2. \A c \in Codes : Failed(c) \in Progress /\ HandlerError(c) \in Exceptions
    BY DEF Failed, Progress, Statuses, HandlerError, Exceptions
  <1>3. OtherException \in Exceptions
    BY DEF Exceptions
  <1>4. ASSUME NEW e \in Exceptions \cup {NoError}
        PROVE  FailureOf(e) \in Progress /\ FailureOf(e).sound
    <2>1. e.kind = "HandlerError" => e.code \in Codes
      BY DEF Exceptions, HandlerError, OtherException, BaseException, NoError, Nothing
    <2>2. (IF e.kind = "HandlerError" THEN e.code ELSE "InternalFailure") \in Codes
      BY <1>1, <2>1
    <2>. QED
      BY <1>2, <2>2 DEF FailureOf, Failed
  <1>5. \A c \in Codes : Failed(c).status = "FAILED"
    BY DEF Failed
  <1>6. \A e : FailureOf(e).status = "FAILED"
    BY DEF FailureOf, Failed
  <1>. QED
    BY <1>1, <1>2, <1>3, <1>4, <1>5, <1>6

\* The dictionaries an entrypoint returns.
Dictionaries == [status : Statuses, code : Codes \cup {NoCode}, context : Cursors, token : Cursors]

LEMMA AnswerFacts ==
  ASSUME NEW p, NEW c
  PROVE  /\ AnswerOf(p, c).status = p.status
         /\ AnswerOf(p, c).context = IF p.status = "IN_PROGRESS" THEN c ELSE 0
         /\ AnswerOf(p, c).token = IF p.status = "SUCCESS" THEN c ELSE 0
         /\ Answer(AnswerOf(p, c)) = Answer(p)
         /\ p \in Progress /\ c \in Positions => AnswerOf(p, c) \in Dictionaries
  <1>1. Units \in Nat \ {0}
    BY UnitsAssumption
  <1>2. 0 \in Cursors /\ Positions \subseteq Cursors
    BY <1>1 DEF Cursors, Positions
  <1>3. p \in Progress /\ c \in Positions => AnswerOf(p, c) \in Dictionaries
    BY <1>2 DEF AnswerOf, Progress, Dictionaries
  <1>. QED
    BY <1>3 DEF AnswerOf, Answer

\* Zero is a position, and all positions are cursors.
LEMMA PositionFacts ==
  /\ Units \in Nat \ {0} /\ 0 \in Positions /\ Positions \subseteq Cursors /\ Positions \subseteq Nat
  BY UnitsAssumption DEF Positions, Cursors

\* A handler that works does the unit after the one it is told of.
LEMMA HandlerFacts ==
  ASSUME Fixed, PositionsInv, HandlerWorks
  PROVE  \E p \in Progress :
            /\ p.status \in {"IN_PROGRESS", "SUCCESS"} /\ p.code = NoCode
            /\ Returns(p, IF Cursor + 1 < Units THEN Cursor + 1 ELSE 0)
            /\ ~Paged => (p.status = "IN_PROGRESS" <=> Cursor + 1 < Units)
            /\ Cursor + 1 \in 1..Units
            /\ done' = done \cup {Cursor + 1}
            /\ again' = (again \/ Cursor + 1 \in done)
  <1> DEFINE unit == Cursor + 1
             more == unit < Units
             statuses == CASE Paged -> {"SUCCESS", "IN_PROGRESS"}
                           [] ~Paged /\ more -> {"IN_PROGRESS"}
                           [] OTHER -> {"SUCCESS"}
  <1>1. 1 + (IF Paged THEN token ELSE callback) = unit /\ unit \in 1..Units
    BY PositionFacts DEF PositionsInv, Positions, Cursor
  <1>2. PICK s \in statuses, sound \in BOOLEAN :
           Returns([status |-> s, code |-> NoCode, sound |-> sound], IF more THEN unit ELSE 0)
    BY <1>1 DEF HandlerWorks
  <1>3. done' = done \cup {unit} /\ again' = (again \/ unit \in done)
    BY <1>1 DEF HandlerWorks
  <1>4. s \in {"IN_PROGRESS", "SUCCESS"} /\ (~Paged => (s = "IN_PROGRESS" <=> more))
    OBVIOUS
  <1>5. [status |-> s, code |-> NoCode, sound |-> sound] \in Progress
    BY <1>4 DEF Progress, Statuses
  <1>. QED
    BY <1>1, <1>2, <1>3, <1>4, <1>5
\* What the three ways to parse a request have in common.
Parses == ParseTestRequest \/ ParseHookTestRequest \/ ParseRequest

\* A request is handed on at the position it has, but for the token of a list through
\* __call__; or an exception is raised that is answered with one of two codes.
LEMMA ParseFacts ==
  ASSUME Fixed, PositionsInv, Parses
  PROVE  /\ pc = "parse"
         /\ UNCHANGED <<entry, event, request, lost, progress, next, answer, returned, raised,
                        done, again>>
         /\ \/ /\ pc' = "handler" /\ event.parses /\ event.casts /\ error' = error
               /\ callback' = request.context /\ token' \in {0, request.token}
               /\ Paged /\ ~DeployedList => token' = request.token
            \/ /\ pc' = "except" /\ UNCHANGED <<callback, token>>
               /\ error' \in {HandlerError("InternalFailure"), OtherException,
                              HandlerError("InvalidRequest")}
  <1> USE DEF caller, work, HandRequest, Raise, CallbackOf
  <1>1. Paged => entry \in OfResource
    BY PointsAssumption DEF Fixed, Paged
  <1>2. CASE ParseTestRequest
    BY <1>2 DEF ParseTestRequest, TokenOf
  <1>3. CASE ParseHookTestRequest
    BY <1>1, <1>3 DEF ParseHookTestRequest, OfResource
  <1>4. CASE ParseRequest
    BY <1>1, <1>4 DEF ParseRequest, CastToken, Tests, OfResource, DeployedList
  <1>. QED
    BY <1>2, <1>3, <1>4 DEF Parses

\* The request, the answer and the cursors stay within the work to be done.
LEMMA PositionsStep ==
  OpTypeOK /\ Fixed /\ PositionsInv /\ [Next]_vars => Fixed' /\ PositionsInv'
  <1> SUFFICES ASSUME OpTypeOK, Fixed, PositionsInv, [Next]_vars PROVE Fixed' /\ PositionsInv'
    OBVIOUS
  <1>1. UNCHANGED <<entry, event>>
    BY DEF Next, Step, Invoke, ParseTestRequest, ParseHookTestRequest, ParseRequest,
           TelemetryRaises, NoHandler, HandlerWorks, HandlerRefuses, HandlerRaises, Returns,
           Catch, Serialize, FallBack, GoOn, LoseAnswer, caller, vars
  <1>2. Fixed'
    BY <1>1 DEF Fixed
  <1> SUFFICES PositionsInv'
    BY <1>2
  <1> USE DEF caller, work
  <1>3. ASSUME request' = request, answer' = answer, callback' \in Positions,
               token' \in Positions, next' \in Positions
        PROVE  PositionsInv'
    BY <1>3 DEF PositionsInv
  <1>4. CASE Invoke
    <2>1. answer'.context = 0 /\ answer'.token = 0
      BY <1>4, AnswerFacts DEF Invoke, NoReply, NoProgress, Nothing
    <2>. QED
      BY <1>4, <2>1, PositionFacts DEF Invoke, PositionsInv
  <1>5. CASE Parses
    <2>1. request.context \in Positions /\ request.token \in Positions
      BY DEF PositionsInv
    <2>2. callback' \in Positions /\ token' \in Positions
      BY <1>5, <2>1, ParseFacts, PositionFacts DEF PositionsInv
    <2>. QED
      BY <1>3, <1>5, <2>2, ParseFacts DEF PositionsInv
  <1>6. CASE TelemetryRaises \/ NoHandler \/ Catch
    BY <1>3, <1>6, PositionFacts DEF TelemetryRaises, NoHandler, Catch, PositionsInv
  <1>7. ASSUME NEW p, NEW c \in Positions, Returns(p, c) PROVE PositionsInv'
    BY <1>3, <1>7 DEF Returns, PositionsInv
  <1>8. CASE HandlerWorks
    <2>1. (IF Cursor + 1 < Units THEN Cursor + 1 ELSE 0) \in Positions
      BY PositionFacts DEF PositionsInv, Positions, Cursor
    <2>. QED
      BY <1>7, <1>8, <2>1, HandlerFacts
  <1>9. ASSUME NEW code \in Codes, HandlerRefuses(code) PROVE PositionsInv'
    BY <1>7, <1>9, PositionFacts DEF HandlerRefuses
  <1>10. ASSUME NEW e \in Exceptions, HandlerRaises(e) PROVE PositionsInv'
    BY <1>3, <1>10 DEF HandlerRaises, Raise, PositionsInv
  <1>11. ASSUME NEW p, NEW c \in Positions, answer' = AnswerOf(p, c),
                UNCHANGED <<request, callback, token, next>>
         PROVE  PositionsInv'
    BY <1>11, AnswerFacts, PositionFacts DEF PositionsInv
  <1>12. CASE Serialize
    <2>1. CASE answer' = answer
      BY <1>3, <1>12, <2>1 DEF Serialize, PositionsInv
    <2>. QED
      BY <1>11, <1>12, <2>1 DEF Serialize, PositionsInv
  <1>13. CASE FallBack
    BY <1>11, <1>13, PositionFacts DEF FallBack
  <1>14. CASE GoOn
    <2>1. request' \in [context : Positions, token : Positions]
      <3>1. answer.context \in Positions /\ answer.token \in Positions /\ 0 \in Positions
        BY PositionFacts DEF PositionsInv
      <3>2. request \in [context : Positions, token : Positions]
        BY DEF PositionsInv
      <3>. QED
        BY <1>14, <3>1, <3>2 DEF GoOn
    <2>. QED
      BY <1>14, <2>1 DEF GoOn, PositionsInv
  <1>15. CASE LoseAnswer \/ UNCHANGED vars
    BY <1>3, <1>15 DEF LoseAnswer, vars, PositionsInv
  <1>. QED
    BY <1>4, <1>5, <1>6, <1>8, <1>9, <1>10, <1>12, <1>13, <1>14, <1>15
    DEF Next, Step, Parses
\* Every step keeps every variable in its type.
LEMMA TypeStep ==
  OpTypeOK /\ Fixed /\ PositionsInv /\ [Next]_vars => OpTypeOK'
  <1> SUFFICES ASSUME OpTypeOK, Fixed, PositionsInv, [Next]_vars PROVE OpTypeOK'
    OBVIOUS
  <1>1. /\ entry' \in Entries /\ event' \in EventType
        /\ request' \in [context : Cursors, token : Cursors]
        /\ callback' \in Cursors /\ token' \in Cursors /\ next' \in Cursors
    <2>1. UNCHANGED <<entry, event>>
      BY DEF Next, Step, Invoke, ParseTestRequest, ParseHookTestRequest, ParseRequest,
             TelemetryRaises, NoHandler, HandlerWorks, HandlerRefuses, HandlerRaises, Returns,
             Catch, Serialize, FallBack, GoOn, LoseAnswer, caller, vars
    <2>2. PositionsInv'
      BY PositionsStep
    <2>. QED
      BY <2>1, <2>2, PositionFacts DEF OpTypeOK, PositionsInv
  <1> DEFINE AnswerOK == answer \in Dictionaries \cup {NoReply}
             OutcomeOK == /\ returned \in Progress \cup {NoProgress}
                          /\ raised \in Exceptions \cup {NoError}
             LocalsOK == /\ error \in Exceptions \cup {NoError}
                         /\ progress \in Progress \cup {NoProgress}
                         /\ pc \in {"serialize", "fallback"} => progress \in Progress
             RestOK == /\ lost \in 0..MaxLost
                       /\ pc \in Running \cup {"invoke", "answered", "finished"}
                       /\ done \subseteq 1..Units /\ again \in BOOLEAN
  <1>2. AnswerOK /\ OutcomeOK /\ LocalsOK /\ RestOK
    BY DEF OpTypeOK, Dictionaries
  <1> SUFFICES AnswerOK' /\ OutcomeOK' /\ LocalsOK' /\ RestOK'
    BY <1>1 DEF OpTypeOK, Dictionaries
  <1> USE DEF caller, work, Running
  <1>3. CASE Invoke
    BY <1>2, <1>3 DEF Invoke
  <1>4. CASE Parses
    BY <1>2, <1>4, ParseFacts, Values
  <1>5. CASE TelemetryRaises \/ NoHandler
    BY <1>2, <1>5, Values DEF TelemetryRaises, NoHandler
  <1>6. ASSUME NEW p \in Progress, NEW c, Returns(p, c)
        PROVE  /\ AnswerOK' /\ OutcomeOK' /\ LocalsOK' /\ lost' = lost
               /\ pc' \in {"except", "serialize"}
    BY <1>2, <1>6, Values DEF Returns
  <1>7. CASE HandlerWorks
    <2>1. done' \subseteq 1..Units /\ again' \in BOOLEAN
      BY <1>2, <1>7, HandlerFacts
    <2>2. AnswerOK' /\ OutcomeOK' /\ LocalsOK' /\ lost' = lost /\ pc' \in {"except", "serialize"}
      BY <1>6, <1>7, HandlerFacts
    <2>. QED
      BY <1>2, <2>1, <2>2
  <1>8. ASSUME NEW code \in Codes, HandlerRefuses(code)
        PROVE  AnswerOK' /\ OutcomeOK' /\ LocalsOK' /\ RestOK'
    BY <1>2, <1>6, <1>8, Values DEF HandlerRefuses
  <1>9. ASSUME NEW e \in Exceptions, HandlerRaises(e)
        PROVE  AnswerOK' /\ OutcomeOK' /\ LocalsOK' /\ RestOK'
    BY <1>2, <1>9 DEF HandlerRaises, Raise
  <1>10. CASE Catch
    BY <1>2, <1>10, Values DEF Catch
  <1>11. CASE Serialize
    <2>1. progress \in Progress /\ next \in Positions
      BY <1>2, <1>11 DEF Serialize, PositionsInv
    <2>. QED
      BY <1>2, <1>11, <2>1, AnswerFacts DEF Serialize
  <1>12. CASE FallBack
    BY <1>2, <1>12, Values, AnswerFacts, PositionFacts DEF FallBack
  <1>13. CASE GoOn
    BY <1>2, <1>13 DEF GoOn
  <1>14. CASE LoseAnswer
    BY <1>2, <1>14, MaxLostAssumption DEF LoseAnswer
  <1>15. CASE UNCHANGED vars
    BY <1>2, <1>15 DEF vars
  <1>. QED
    BY <1>3, <1>4, <1>5, <1>7, <1>8, <1>9, <1>10, <1>11, <1>12, <1>13, <1>14, <1>15
    DEF Next, Step, Parses
-----------------------------------------------------------------------------
(* The work.                                                                   *)

\* One more unit of a work whose first c are done.
LEMMA OneMore ==
  ASSUME NEW c \in Nat, NEW D, 1..c \subseteq D, \A u \in D : 1..u \subseteq D
  PROVE  /\ 1..(c + 1) \subseteq D \cup {c + 1}
         /\ D = 1..c => D \cup {c + 1} = 1..(c + 1) /\ c + 1 \notin D
         /\ \A u \in D \cup {c + 1} : 1..u \subseteq D \cup {c + 1}
  OBVIOUS

\* A step that does no work, and moves the caller nowhere, leaves what is known of
\* the work as it was; it is left to see what the next step is told.
LEMMA WorkFrame ==
  ASSUME WorkInv, UNCHANGED <<entry, event, request, lost, done, again>>,
         pc' \in {"invoke", "parse"} => pc \in {"invoke", "parse", "handler"},
         pc' = "handler" => pc \in {"invoke", "parse", "handler"} /\ Reached(Cursor)',
         pc' = "serialize" => Tells(progress.status, next)',
         pc' = "answered" => AnswerTells',
         pc' = "finished" => SuccessMeansAllDone'
  PROVE  WorkInv'
  <1>1. At' = At /\ Exact' = Exact
    BY DEF At, Paged, Exact, DeployedList
  <1>2. (pc \in {"invoke", "parse", "handler"} => Reached(At)) =>
           (pc \in {"invoke", "parse", "handler"} => Reached(At)')
    BY <1>1 DEF Reached
  <1>3. (1..At \subseteq done)' /\ (Exact => ~again)' /\ (\A u \in done : 1..u \subseteq done)'
    BY <1>1 DEF WorkInv
  <1>4. SuccessMeansAllDone'
    BY DEF SuccessMeansAllDone
  <1>. QED
    BY <1>2, <1>3, <1>4 DEF WorkInv

\* A progress that failed says nothing of the work.
LEMMA FailedTells == \A c : Tells("FAILED", c)
  BY DEF Tells

\* Every step keeps the caller's request, the handler's cursor and the answer in
\* agreement with the units that are done.
LEMMA WorkStep ==
  OpTypeOK /\ Fixed /\ PositionsInv /\ WorkInv /\ [Next]_vars => WorkInv'
  <1> SUFFICES ASSUME OpTypeOK, Fixed, PositionsInv, WorkInv, [Next]_vars PROVE WorkInv'
    OBVIOUS
  <1> USE DEF caller, work
  <1>1. CASE Invoke
    BY <1>1, WorkFrame DEF Invoke
  <1>2. CASE Parses
    <2>1. CASE pc' = "except"
      BY <1>2, <2>1, ParseFacts, WorkFrame
    <2>2. CASE pc' = "handler"
      <3>1. 1..At \subseteq done /\ (Exact => done = 1..At)
        BY <1>2, <2>2, ParseFacts DEF WorkInv, Reached
      <3>2. Exact \/ ~Paged => Cursor' = At
        BY <1>2, <2>2, ParseFacts DEF Cursor, At, Paged, Exact
      <3>3. Cursor' \in {0, At}
        BY <1>2, <2>2, ParseFacts DEF Cursor, At, Paged
      <3>4. Exact' = Exact /\ done' = done /\ 1..0 = {}
        BY <1>2, ParseFacts DEF Exact, DeployedList, Paged
      <3>5. Reached(Cursor)'
        BY <3>1, <3>2, <3>3, <3>4 DEF Reached
      <3>. QED
        BY <1>2, <2>2, <3>5, ParseFacts, WorkFrame
    <2>. QED
      BY <1>2, <2>1, <2>2, ParseFacts
  <1>3. ASSUME UNCHANGED <<entry, event, request, lost, done, again>>, pc' = "serialize",
               progress'.status = "FAILED"
        PROVE  WorkInv'
    <2>1. Tells(progress.status, next)'
      BY <1>3 DEF Tells
    <2>. QED
      BY <1>3, <2>1, WorkFrame
  <1>4. CASE TelemetryRaises \/ NoHandler
    BY <1>3, <1>4, Values DEF TelemetryRaises, NoHandler
  <1>5. CASE Catch
    BY <1>3, <1>5, Values DEF Catch
  <1>6. ASSUME NEW code \in Codes, HandlerRefuses(code) PROVE WorkInv'
    BY <1>3, <1>6, Values DEF HandlerRefuses, Returns
  <1>7. ASSUME NEW e \in Exceptions, HandlerRaises(e) PROVE WorkInv'
    BY <1>7, WorkFrame DEF HandlerRaises, Raise
  <1>8. CASE Serialize
    <2>1. CASE pc' = "fallback"
      BY <1>8, <2>1, WorkFrame DEF Serialize
    <2>2. CASE pc' = "answered"
      <3>1. Tells(progress.status, next)
        BY <1>8 DEF Serialize, WorkInv
      <3>2. answer'.status = progress.status
            /\ (progress.status = "IN_PROGRESS" => answer'.context = next)
            /\ (progress.status = "SUCCESS" => answer'.token = next)
        BY <1>8, <2>2, AnswerFacts DEF Serialize
      <3>3. UNCHANGED <<entry, event, request, lost, done, again>>
        BY <1>8 DEF Serialize
      <3>4. AnswerTells'
        BY <3>1, <3>2, <3>3 DEF AnswerTells, Tells, Reached, Exact, DeployedList, Paged
      <3>. QED
        BY <2>2, <3>3, <3>4, WorkFrame
    <2>. QED
      BY <1>8, <2>1, <2>2 DEF Serialize
  <1>9. CASE FallBack
    <2>1. answer'.status = "FAILED"
      BY <1>9, AnswerFacts DEF FallBack, Failed
    <2>2. AnswerTells'
      BY <2>1 DEF AnswerTells
    <2>. QED
      BY <1>9, <2>2, WorkFrame DEF FallBack
  <1>10. CASE LoseAnswer
    <2>1. ~Exact'
      BY <1>10, MaxLostAssumption DEF LoseAnswer, OpTypeOK, Exact
    <2>2. At' = At /\ done' = done /\ pc' = "invoke"
      BY <1>10 DEF LoseAnswer, At, Paged
    <2>. QED
      BY <2>1, <2>2 DEF WorkInv, Reached, SuccessMeansAllDone
  <1>11. CASE GoOn
    <2>1. AnswerTells /\ UNCHANGED <<entry, event, lost, done, again, answer>>
      BY <1>11 DEF GoOn, WorkInv
    <2>2. Exact' = Exact
      BY <2>1 DEF Exact, DeployedList, Paged
    <2>3. CASE pc' = "finished"
      <3>1. answer.status = "SUCCESS" => done = 1..Units
        BY <1>11, <2>1, <2>3 DEF GoOn, AnswerTells, Tells
      <3>. QED
        BY <1>11, <2>1, <2>3, <3>1, WorkFrame DEF GoOn, SuccessMeansAllDone
    <2>4. CASE pc' = "invoke"
      <3>1. At' = IF Paged THEN answer.token ELSE answer.context
        BY <1>11, <2>1, <2>4 DEF GoOn, At, AnswerTells, Tells, Paged, OpTypeOK
      <3>2. Reached(At')
        BY <1>11, <2>1, <2>4, <3>1 DEF GoOn, AnswerTells, Tells
      <3>. QED
        BY <2>1, <2>2, <2>4, <3>2 DEF WorkInv, Reached, SuccessMeansAllDone
    <2>. QED
      BY <1>11, <2>3, <2>4 DEF GoOn
  <1>12. CASE HandlerWorks
    <2>1. pc = "handler" /\ UNCHANGED <<entry, event, request, lost>>
      BY <1>12 DEF HandlerWorks, Returns
    <2>2. Exact' = Exact /\ At' = At
      BY <2>1 DEF Exact, DeployedList, Paged, At
    <2>3. PICK p \in Progress :
            /\ p.status \in {"IN_PROGRESS", "SUCCESS"}
            /\ Returns(p, IF Cursor + 1 < Units THEN Cursor + 1 ELSE 0)
            /\ ~Paged => (p.status = "IN_PROGRESS" <=> Cursor + 1 < Units)
            /\ Cursor + 1 \in 1..Units
            /\ done' = done \cup {Cursor + 1}
            /\ again' = (again \/ Cursor + 1 \in done)
      BY <1>12, HandlerFacts
    <2> DEFINE c == Cursor
               far == IF c + 1 < Units THEN c + 1 ELSE 0
    <2>4. c \in Nat /\ Units \in Nat /\ (c + 1 < Units \/ c + 1 = Units)
      BY <2>3, PositionFacts DEF PositionsInv, Positions, Cursor
    <2>5. 1..c \subseteq done /\ (Exact => done = 1..c)
      BY <2>1 DEF WorkInv, Reached
    <2>6. /\ 1..(c + 1) \subseteq done'
          /\ Exact => done' = 1..(c + 1) /\ c + 1 \notin done
          /\ \A u \in done' : 1..u \subseteq done'
      BY <2>3, <2>4, <2>5, OneMore DEF WorkInv
    <2>7. done' \subseteq 1..Units
      BY <2>3 DEF OpTypeOK
    <2>8. 1..(c + 1) \subseteq done' /\ (Exact' => done' = 1..(c + 1)) /\ (Exact' => ~again')
      BY <2>2, <2>3, <2>6 DEF WorkInv
    <2>9. pc' = "serialize" => Tells(progress.status, next)'
      <3> SUFFICES ASSUME pc' = "serialize" PROVE Tells(progress.status, next)'
        OBVIOUS
      <3>1. /\ progress' = p /\ next' = far /\ Paged' = Paged
            /\ ~(p.status = "IN_PROGRESS" /\ MustAnswerAtOnce(event.action))
        BY <2>1, <2>3 DEF Returns, Paged
      <3>2. p.status = "IN_PROGRESS" => ~Paged
        BY <3>1, PointsAssumption DEF Paged, MustAnswerAtOnce, MUTATING_ACTIONS, Fixed
      <3>3. far = 0 => done' = 1..Units
        <4>1. far = 0 => c + 1 = Units
          BY <2>4
        <4>2. 1..(c + 1) \subseteq done'
          BY <2>8
        <4> HIDE DEF c, far
        <4>. QED
          BY <2>7, <4>1, <4>2
      <3>4. far # 0 => far = c + 1 /\ c + 1 < Units
        BY <2>4
      <3>5. p.status = "SUCCESS" /\ far # 0 => Paged
        BY <2>3, <3>4
      <3>6. p.status = "IN_PROGRESS" => far # 0
        BY <2>3, <2>4, <3>2
      <3>. QED
        BY <2>3, <2>8, <3>1, <3>2, <3>3, <3>4, <3>5, <3>6 DEF Tells, Reached
    <2>10. pc' \in {"serialize", "except"} /\ (1..At \subseteq done)'
      BY <2>2, <2>3 DEF Returns, WorkInv
    <2>11. (Exact => ~again)' /\ (\A u \in done : 1..u \subseteq done)'
      BY <2>6, <2>8
    <2> HIDE DEF c, far
    <2>. QED
      BY <2>9, <2>10, <2>11 DEF WorkInv, SuccessMeansAllDone
  <1>13. CASE UNCHANGED vars
    <2>1. At' = At /\ Cursor' = Cursor /\ Exact' = Exact /\ Paged' = Paged
      BY <1>13 DEF vars, At, Cursor, Paged, Exact, DeployedList
    <2>. QED
      BY <1>13, <2>1 DEF vars, WorkInv, Reached, Tells, AnswerTells, SuccessMeansAllDone
  <1>. QED
    BY <1>1, <1>2, <1>4, <1>5, <1>6, <1>7, <1>8, <1>9, <1>10, <1>11, <1>12, <1>13
    DEF Next, Step, Parses
-----------------------------------------------------------------------------
(* The answer.                                                                 *)

\* The cases of the contract's promise, one for each way to the answer.
LEMMA PromiseCases ==
  /\ \A a, x : x \in Exceptions =>
        Contract!Promise(FALSE, a, NoProgress, x) = Verdict(FailureOf(x))
  /\ OpTypeOK /\ Fixed => \A p \in Progress :
        Contract!Promise(FALSE, event.action, p, NoError) =
          IF p.status = "IN_PROGRESS" /\ MustAnswerAtOnce(event.action)
          THEN Contract!Internal ELSE Verdict(p)
  /\ Verdict(Failed("InternalFailure")) = Contract!Internal
  /\ Verdict(FailureOf(OtherException)) = Contract!Internal
  /\ Verdict(FailureOf(HandlerError("InternalFailure"))) = Contract!Internal
  /\ Verdict(FailureOf(HandlerError("InvalidRequest"))) = Answer(Failed("InvalidRequest"))
  /\ Answer(Failed("InternalFailure")) = Contract!Internal
  <1> USE DEF Verdict, Contract!Internal, Contract!Failed, Contract!Answer, Failed, Answer,
              FailureOf, HandlerError, OtherException, BaseException, NoError, Nothing,
              NoCode, Contract!NoError, Contract!Nothing, Contract!NoCode
  <1>1. ASSUME NEW a, NEW x \in Exceptions
        PROVE  Contract!Promise(FALSE, a, NoProgress, x) = Verdict(FailureOf(x))
    BY <1>1 DEF Contract!Promise, Exceptions, NoProgress
  <1>2. ASSUME OpTypeOK, Fixed, NEW p \in Progress
        PROVE  Contract!Promise(FALSE, event.action, p, NoError) =
                 IF p.status = "IN_PROGRESS" /\ MustAnswerAtOnce(event.action)
                 THEN Contract!Internal ELSE Verdict(p)
    <2>1. MustAnswerAtOnce(event.action) <=>
            event.action \in Actions \ (MUTATING_ACTIONS \cup Points)
      BY <1>2, PointsAssumption
      DEF OpTypeOK, Fixed, EventType, MustAnswerAtOnce
    <2>2. CASE p.status = "IN_PROGRESS" /\ MustAnswerAtOnce(event.action)
      BY <2>1, <2>2 DEF Contract!Promise
    <2>3. CASE ~(p.status = "IN_PROGRESS" /\ MustAnswerAtOnce(event.action)) /\ p.sound
      BY <2>1, <2>3 DEF Contract!Promise
    <2>4. CASE ~p.sound
      BY <2>4 DEF Contract!Promise
    <2>. QED
      BY <2>2, <2>3, <2>4
  <1>. QED
    BY <1>1, <1>2

\* What was allowed is allowed still, as long as the handler does nothing more.
LEMMA AllowedFrame == UNCHANGED <<event, returned, raised>> => Allowed' = Allowed
  BY DEF Allowed

\* Every step leaves the locals of the entrypoint agreeing with what is allowed.
LEMMA ControlStep ==
  OpTypeOK /\ Fixed /\ PositionsInv /\ ControlInv /\ [Next]_vars => ControlInv'
  <1> SUFFICES ASSUME OpTypeOK, Fixed, PositionsInv, ControlInv, [Next]_vars PROVE ControlInv'
    OBVIOUS
  <1>i. Contract!Internal \in Allowed /\ (Contract!Internal \in Allowed)'
    BY DEF Allowed
  <1> USE DEF caller, work
  <1>1. CASE Invoke
    BY <1>1 DEF Invoke, ControlInv
  <1>2. CASE Parses
    <2>1. CASE pc' = "handler" /\ event.parses /\ event.casts
      BY <1>2, <2>1, ParseFacts DEF ControlInv
    <2>2. CASE /\ pc' = "except"
               /\ error' \in {HandlerError("InternalFailure"), OtherException,
                              HandlerError("InvalidRequest")}
      <3>1. UNCHANGED <<event, returned, raised>> /\ returned = NoProgress /\ raised = NoError
        BY <1>2, ParseFacts DEF ControlInv
      <3>2. Answer(Failed("InvalidRequest")) \in Allowed
        BY <3>1 DEF Allowed
      <3>3. error' \in Exceptions /\ Verdict(FailureOf(error')) \in Allowed
        BY <1>i, <2>2, <3>2, PromiseCases, Values
      <3>. QED
        BY <2>2, <3>1, <3>3, AllowedFrame DEF ControlInv
    <2>. QED
      BY <1>2, <2>1, <2>2, ParseFacts
  <1>3. CASE TelemetryRaises \/ NoHandler
    <2>1. progress' = Failed("InternalFailure") /\ pc' = "serialize"
      BY <1>3 DEF TelemetryRaises, NoHandler
    <2>2. Verdict(progress') = Contract!Internal
      BY <2>1, PromiseCases
    <2>. QED
      BY <1>i, <2>1, <2>2 DEF ControlInv, Allowed
  <1>4. ASSUME NEW p \in Progress, NEW c, Returns(p, c), pc = "handler" PROVE ControlInv'
    <2>1. returned' = p /\ raised' = NoError /\ event' = event
      BY <1>4 DEF Returns, ControlInv
    <2>2. CASE p.status = "IN_PROGRESS" /\ MustAnswerAtOnce(event.action)
      <3>1. error' = HandlerError("InternalFailure") /\ pc' = "except"
        BY <1>4, <2>2 DEF Returns
      <3>2. error' \in Exceptions /\ Verdict(FailureOf(error')) = Contract!Internal
        BY <3>1, PromiseCases, Values
      <3>. QED
        BY <1>i, <3>1, <3>2 DEF ControlInv, Allowed
    <2>3. CASE ~(p.status = "IN_PROGRESS" /\ MustAnswerAtOnce(event.action))
      <3>1. progress' = p /\ pc' = "serialize"
        BY <1>4, <2>3 DEF Returns
      <3>2. Contract!Promise(FALSE, event'.action, returned', raised') = Verdict(progress')
        BY <2>1, <2>3, <3>1, PromiseCases
      <3>. QED
        BY <3>1, <3>2 DEF ControlInv, Allowed
    <2>. QED
      BY <2>2, <2>3
  <1>5. CASE HandlerWorks
    BY <1>4, <1>5, HandlerFacts DEF HandlerWorks
  <1>6. ASSUME NEW code \in Codes, HandlerRefuses(code) PROVE ControlInv'
    BY <1>4, <1>6, Values DEF HandlerRefuses
  <1>7. ASSUME NEW e \in Exceptions, HandlerRaises(e) PROVE ControlInv'
    <2>1. /\ returned' = NoProgress /\ raised' = e /\ error' = e /\ event' = event
          /\ pc' = "except"
      BY <1>7 DEF HandlerRaises, Raise, ControlInv
    <2>2. Contract!Promise(FALSE, event'.action, returned', raised') = Verdict(FailureOf(error'))
      BY <2>1, PromiseCases
    <2>. QED
      BY <2>1, <2>2 DEF ControlInv, Allowed
  <1>8. CASE Catch
    <2>1. error \in Exceptions /\ Verdict(FailureOf(error)) \in Allowed /\ Allowed' = Allowed
          /\ pc' = "serialize" /\ progress' = FailureOf(error)
      BY <1>8, AllowedFrame DEF Catch, ControlInv
    <2>. QED
      BY <2>1 DEF ControlInv
  <1>9. CASE Serialize
    <2>1. progress.status \in Statuses
      BY <1>9 DEF Serialize, OpTypeOK, Progress
    <2>. QED
      BY <1>9, <2>1, AnswerFacts DEF Serialize, ControlInv
  <1>10. CASE FallBack
    <2>1. Failed("InternalFailure").status \in Statuses
      BY DEF Failed, Statuses
    <2>. QED
      BY <1>10, <2>1, AnswerFacts DEF FallBack, ControlInv
  <1>11. CASE GoOn \/ LoseAnswer
    BY <1>11 DEF GoOn, LoseAnswer, ControlInv
  <1>12. CASE UNCHANGED vars
    BY <1>12, AllowedFrame DEF vars, ControlInv
  <1>. QED
    BY <1>1, <1>2, <1>3, <1>5, <1>6, <1>7, <1>8, <1>9, <1>10, <1>11, <1>12
    DEF Next, Step, Parses
-----------------------------------------------------------------------------
(* The pace.                                                                   *)

\* What a step that leaves the caller and its request alone has to show.
LEMMA AdvanceFrame ==
  ASSUME UNCHANGED <<entry, event, request>>,
         pc' = "handler" => DeployedList \/ Cursor' = At,
         pc' = "serialize" => progress'.status = "FAILED" \/ next' = 0 \/ next' > At,
         pc' # "answered"
  PROVE  AdvanceInv'
  <1>1. At' = At /\ DeployedList' = DeployedList
    BY DEF At, Paged, DeployedList
  <1>. QED
    BY <1>1 DEF AdvanceInv

\* Every step keeps what is handed back beyond what the caller has.
LEMMA AdvanceStep ==
  OpTypeOK /\ Fixed /\ PositionsInv /\ WorkInv /\ AdvanceInv /\ [Next]_vars => AdvanceInv'
  <1> SUFFICES ASSUME OpTypeOK, Fixed, PositionsInv, WorkInv, AdvanceInv, [Next]_vars
               PROVE  AdvanceInv'
    OBVIOUS
  <1> USE DEF caller, work
  <1>1. CASE Invoke
    BY <1>1, AdvanceFrame DEF Invoke
  <1>2. CASE Parses
    <2>1. pc' = "handler" => DeployedList \/ Cursor' = At
      BY <1>2, ParseFacts DEF Cursor, At, Paged
    <2>. QED
      BY <1>2, <2>1, ParseFacts, AdvanceFrame
  <1>3. CASE TelemetryRaises \/ NoHandler \/ Catch
    <2>1. progress'.status = "FAILED" /\ pc' = "serialize" /\ UNCHANGED <<entry, event, request>>
      BY <1>3, Values DEF TelemetryRaises, NoHandler, Catch
    <2>. QED
      BY <2>1, AdvanceFrame
  <1>4. ASSUME NEW code \in Codes, HandlerRefuses(code) PROVE AdvanceInv'
    BY <1>4, AdvanceFrame DEF HandlerRefuses, Returns
  <1>5. ASSUME NEW e \in Exceptions, HandlerRaises(e) PROVE AdvanceInv'
    BY <1>5, AdvanceFrame DEF HandlerRaises, Raise
  <1>6. CASE HandlerWorks
    <2>1. pc = "handler" /\ Cursor \in Nat
      BY <1>6, PositionFacts DEF HandlerWorks, PositionsInv, Cursor
    <2>2. PICK p \in Progress : Returns(p, IF Cursor + 1 < Units THEN Cursor + 1 ELSE 0)
      BY <1>6, HandlerFacts
    <2>3. CASE DeployedList
      BY <2>2, <2>3 DEF Returns, AdvanceInv, DeployedList, Paged
    <2>4. CASE ~DeployedList
      <3>1. Cursor = At
        BY <2>1, <2>4 DEF AdvanceInv
      <3>2. pc' = "serialize" => next' = 0 \/ next' > At
        BY <2>1, <2>2, <3>1 DEF Returns
      <3>. QED
        BY <2>2, <3>2, AdvanceFrame DEF Returns
    <2>. QED
      BY <2>3, <2>4
  <1>7. CASE Serialize
    <2>1. CASE pc' = "fallback"
      BY <1>7, <2>1, AdvanceFrame DEF Serialize
    <2>2. CASE pc' = "answered"
      <3>1. /\ pc = "serialize" /\ UNCHANGED <<entry, event, request>>
            /\ answer'.status = progress.status
            /\ answer'.context = IF progress.status = "IN_PROGRESS" THEN next ELSE 0
            /\ answer'.token = IF progress.status = "SUCCESS" THEN next ELSE 0
        BY <1>7, <2>2, AnswerFacts DEF Serialize
      <3>2. At' = At /\ DeployedList' = DeployedList
        BY <3>1 DEF At, Paged, DeployedList
      <3>3. progress.status = "IN_PROGRESS" => next # 0
        BY <3>1 DEF WorkInv, Tells
      <3>. QED
        BY <2>2, <3>1, <3>2, <3>3 DEF AdvanceInv
    <2>. QED
      BY <1>7, <2>1, <2>2 DEF Serialize
  <1>8. CASE FallBack
    <2>1. answer'.status = "FAILED" /\ pc' = "answered"
      BY <1>8, AnswerFacts DEF FallBack, Failed
    <2>. QED
      BY <2>1 DEF AdvanceInv
  <1>9. CASE GoOn \/ LoseAnswer
    BY <1>9 DEF GoOn, LoseAnswer, AdvanceInv
  <1>10. CASE UNCHANGED vars
    BY <1>10 DEF vars, AdvanceInv, Cursor, At, Paged, DeployedList
  <1>. QED
    BY <1>1, <1>2, <1>3, <1>4, <1>5, <1>6, <1>7, <1>8, <1>9, <1>10 DEF Next, Step, Parses

\* Every step leaves a list through __call__ with at most its first page done.
LEMMA FirstPageStep ==
  OpTypeOK /\ Fixed /\ PositionsInv /\ FirstPageInv /\ [Next]_vars => FirstPageInv'
  <1> SUFFICES ASSUME OpTypeOK, Fixed, PositionsInv, FirstPageInv, [Next]_vars
               PROVE  FirstPageInv'
    OBVIOUS
  <1> USE DEF caller, work
  <1>1. ASSUME UNCHANGED <<entry, event, done>>, pc' # "handler" PROVE FirstPageInv'
    BY <1>1 DEF FirstPageInv, DeployedList, Paged
  <1>2. CASE Parses
    <2>1. UNCHANGED <<entry, event, done>>
      BY <1>2, ParseFacts
    <2>2. DeployedList /\ pc' = "handler" => token' = 0
      BY <1>2 DEF Parses, ParseTestRequest, ParseHookTestRequest, ParseRequest, HandRequest,
                  CastToken, Raise, DeployedList
    <2>. QED
      BY <2>1, <2>2 DEF FirstPageInv, DeployedList, Paged
  <1>3. CASE HandlerWorks
    <2>1. /\ pc = "handler" /\ UNCHANGED <<entry, event>> /\ done' = done \cup {Cursor + 1}
          /\ pc' # "handler"
      BY <1>3, HandlerFacts DEF HandlerWorks, Returns
    <2>2. DeployedList => Cursor = 0
      BY <2>1 DEF FirstPageInv, Cursor, DeployedList
    <2>. QED
      BY <2>1, <2>2 DEF FirstPageInv, DeployedList, Paged
  <1>4. CASE Invoke \/ TelemetryRaises \/ NoHandler \/ Catch \/ Serialize \/ FallBack
    BY <1>1, <1>4 DEF Invoke, TelemetryRaises, NoHandler, Catch, Serialize, FallBack
  <1>5. ASSUME NEW code \in Codes, HandlerRefuses(code) PROVE FirstPageInv'
    BY <1>1, <1>5 DEF HandlerRefuses, Returns
  <1>6. ASSUME NEW e \in Exceptions, HandlerRaises(e) PROVE FirstPageInv'
    BY <1>1, <1>6 DEF HandlerRaises, Raise
  <1>7. CASE GoOn \/ LoseAnswer
    BY <1>1, <1>7 DEF GoOn, LoseAnswer
  <1>8. CASE UNCHANGED vars
    BY <1>8 DEF vars, FirstPageInv, DeployedList, Paged
  <1>. QED
    BY <1>2, <1>3, <1>4, <1>5, <1>6, <1>7, <1>8 DEF Next, Step, Parses
-----------------------------------------------------------------------------
(* The theorems.                                                               *)

LEMMA InvariantInit == Init => IInv
  <1> SUFFICES ASSUME Init PROVE IInv
    OBVIOUS
  <1>1. Fixed
    BY DEF Init, Fixed
  <1>2. answer.status = Nothing /\ answer.context = 0 /\ answer.token = 0
    BY AnswerFacts DEF Init, NoReply, NoProgress, Nothing
  <1>3. PositionsInv
    BY <1>2, PositionFacts DEF Init, PositionsInv
  <1>4. OpTypeOK
    <2>1. event \in EventType /\ 0 \in 0..MaxLost /\ 0 \in Cursors
      BY EventsAssumption, MaxLostAssumption, PositionFacts DEF Init
    <2>2. [context |-> 0, token |-> 0] \in [context : Cursors, token : Cursors]
      BY <2>1
    <2>. QED
      BY <2>1, <2>2 DEF Init, OpTypeOK, Running
  <1>5. WorkInv
    <2>1. At = 0 /\ 1..0 = {}
      BY DEF Init, At
    <2>. QED
      BY <2>1 DEF Init, WorkInv, Reached, SuccessMeansAllDone
  <1>6. ControlInv
    BY DEF Init, ControlInv
  <1>7. AdvanceInv /\ FirstPageInv
    BY DEF Init, AdvanceInv, FirstPageInv
  <1>. QED
    BY <1>1, <1>3, <1>4, <1>5, <1>6, <1>7 DEF IInv

LEMMA InvariantStep == IInv /\ [Next]_vars => IInv'
  <1> SUFFICES ASSUME IInv, [Next]_vars PROVE IInv'
    OBVIOUS
  <1>1. Fixed' /\ PositionsInv' /\ OpTypeOK'
    BY PositionsStep, TypeStep DEF IInv
  <1>2. WorkInv' /\ ControlInv'
    BY WorkStep, ControlStep DEF IInv
  <1>3. AdvanceInv' /\ FirstPageInv'
    BY AdvanceStep, FirstPageStep DEF IInv
  <1>. QED
    BY <1>1, <1>2, <1>3 DEF IInv

LEMMA InvariantHolds == Spec => []IInv
  <1>1. Init => IInv
    BY InvariantInit
  <1>2. IInv /\ [Next]_vars => IInv'
    BY InvariantStep
  <1>. QED
    BY <1>1, <1>2, PTL DEF Spec

\* OpTypeOK holds in every state, for every number of units and of lost answers.
THEOREM OpTypeCorrect == Spec => []OpTypeOK
  <1>1. IInv => OpTypeOK
    BY DEF IInv
  <1>. QED
    BY <1>1, InvariantHolds, PTL

\* What the handler puts into its callback context, or a test's into its token,
\* takes it on to the next unit: none is done twice unless an answer was lost, and
\* none is left out.
THEOREM WorkIsNeverRepeated == Spec => []WorkIsDoneOnce
  <1>1. IInv => WorkIsDoneOnce
    <2>1. OpTypeOK => lost = 0 \/ lost > 0
      BY MaxLostAssumption DEF OpTypeOK
    <2>. QED
      BY <2>1 DEF IInv, WorkInv, WorkIsDoneOnce, Exact
  <1>. QED
    BY <1>1, InvariantHolds, PTL

\* An operation that is told SUCCESS has all of its units done, whatever raised or
\* was lost on the way.
THEOREM SuccessIsEarned == Spec => []SuccessMeansAllDone
  <1>1. IInv => SuccessMeansAllDone
    BY DEF IInv, WorkInv
  <1>. QED
    BY <1>1, InvariantHolds, PTL

-----------------------------------------------------------------------------
(* Every entrypoint implements the contract.                                   *)

\* The contract's vocabulary is the runtime's.
LEMMA SameWords ==
  /\ Contract!NoProgress = NoProgress /\ Contract!NoError = NoError
  /\ Contract!NoAnswer = Answer(NoReply)
  /\ Contract!Progress = Progress /\ Contract!Exceptions = Exceptions
  <1>1. Contract!NoCode = NoCode /\ Contract!Nothing = Nothing /\ Contract!Statuses = Statuses
    BY DEF Contract!NoCode, NoCode, Contract!Nothing, Nothing, Contract!Statuses, Statuses
  <1>2. Contract!NoProgress = NoProgress /\ Contract!NoError = NoError
    BY <1>1 DEF Contract!NoProgress, NoProgress, Contract!NoError, NoError
  <1>3. Contract!NoAnswer = Answer(NoProgress)
    BY <1>2 DEF Contract!NoAnswer, Contract!Answer, Answer
  <1>4. Contract!Progress = Progress
    BY <1>1 DEF Contract!Progress, Progress
  <1>5. Contract!Exceptions = Exceptions
    BY <1>1 DEF Contract!Exceptions, Exceptions, Contract!HandlerError, HandlerError,
                Contract!OtherException, OtherException, Contract!BaseException, BaseException
  <1>6. Answer(NoReply) = Answer(NoProgress)
    BY AnswerFacts DEF NoReply
  <1>. QED
    BY <1>2, <1>3, <1>4, <1>5, <1>6

\* Every step is one of the contract's, or leaves all it speaks of unchanged.
LEMMA ContractStep ==
  IInv /\ [Next]_vars => [Contract!Next]_(Contract!contractVars)
  <1> SUFFICES ASSUME IInv, [Next]_vars
               PROVE  [Contract!Next]_(Contract!contractVars)
    OBVIOUS
  <1> USE DEF caller, work, Running
  <1>1. CASE Invoke
    <2>1. event' \in Events
      BY <1>1 DEF Invoke, IInv, Fixed
    <2>2. Contract!Receive
      BY <1>1, <2>1, SameWords DEF Invoke, Contract!Receive
    <2>. QED
      BY <2>2 DEF Contract!Next
  <1>2. ASSUME pc \in Running, pc' \in Running, UNCHANGED <<event, returned, raised, answer>>
        PROVE  UNCHANGED Contract!contractVars
    BY <1>2 DEF Contract!contractVars
  <1>3. CASE Parses
    BY <1>2, <1>3, ParseFacts DEF IInv
  <1>4. CASE TelemetryRaises \/ NoHandler \/ Catch
    BY <1>2, <1>4 DEF TelemetryRaises, NoHandler, Catch
  <1>5. pc = "handler" => /\ ~Contract!Called /\ event.parses /\ event.casts
                          /\ returned = NoProgress /\ raised = NoError
    BY SameWords DEF Contract!Called, IInv, ControlInv
  <1>6. ASSUME NEW p \in Progress, NEW c, Returns(p, c), pc = "handler",
               event.action \in Handled
        PROVE  Contract!CallHandler
    <2>1. pc' \in Running /\ UNCHANGED <<event, answer, raised>> /\ returned' = p
      BY <1>6 DEF Returns
    <2>. QED
      BY <1>5, <1>6, <2>1, SameWords DEF Contract!CallHandler
  <1>7. CASE HandlerWorks
    <2>1. \E p \in Progress : \E c : Returns(p, c)
      BY <1>7, HandlerFacts DEF IInv
    <2>. QED
      BY <1>6, <1>7, <2>1 DEF HandlerWorks, Contract!Next
  <1>8. ASSUME NEW code \in Codes, HandlerRefuses(code) PROVE Contract!CallHandler
    BY <1>6, <1>8, Values DEF HandlerRefuses
  <1>9. ASSUME NEW e \in Exceptions, HandlerRaises(e) PROVE Contract!CallHandler
    BY <1>5, <1>9, SameWords DEF HandlerRaises, Raise, Contract!CallHandler
  <1>10. ASSUME pc \in Running, pc' = "answered", Answer(answer') \in Allowed,
                UNCHANGED <<event, returned, raised>>
         PROVE  Contract!Reply
    <2>1. CASE Answer(answer') \in {Contract!Internal,
                                    Contract!Promise(FALSE, event.action, returned, raised)}
      BY <1>10, <2>1 DEF Contract!Reply
    <2>2. CASE /\ Answer(answer') = Answer(Failed("InvalidRequest"))
               /\ returned = NoProgress /\ raised = NoError
      <3>1. ~Contract!Called
        BY <2>2, SameWords DEF Contract!Called
      <3>2. Contract!Promise(TRUE, event.action, returned, raised)
              = Answer(Failed("InvalidRequest"))
        BY DEF Contract!Promise, Contract!Answer, Contract!Failed, Answer, Failed
      <3>. QED
        BY <1>10, <2>2, <3>1, <3>2 DEF Contract!Reply
    <2>. QED
      BY <1>10, <2>1, <2>2 DEF Allowed
  <1>11. CASE Serialize
    <2>1. CASE ~progress.sound
      BY <1>2, <1>11, <2>1 DEF Serialize
    <2>2. CASE progress.sound
      <3>1. Answer(answer') = Verdict(progress)
        BY <1>11, <2>2, AnswerFacts DEF Serialize, Verdict
      <3>2. Answer(answer') \in Allowed
        BY <1>11, <3>1 DEF Serialize, IInv, ControlInv
      <3>. QED
        BY <1>10, <1>11, <2>2, <3>2 DEF Serialize, Contract!Next
    <2>. QED
      BY <2>1, <2>2
  <1>12. CASE FallBack
    <2>1. Answer(answer') = Contract!Internal
      BY <1>12, AnswerFacts, PromiseCases DEF FallBack
    <2>. QED
      BY <1>10, <1>12, <2>1 DEF FallBack, Allowed, Contract!Next
  <1>13. CASE GoOn \/ LoseAnswer
    <2>1. answer.status \in Statuses /\ NoReply.status = Nothing
      BY <1>13, AnswerFacts DEF GoOn, LoseAnswer, IInv, ControlInv, NoReply, NoProgress
    <2>2. answer # NoReply
      BY <2>1 DEF Statuses, Nothing
    <2>3. /\ UNCHANGED <<event, answer, returned, raised>>
          /\ pc = "answered" /\ pc' \in {"invoke", "finished"}
      BY <1>13 DEF GoOn, LoseAnswer
    <2>. QED
      BY <2>2, <2>3 DEF Contract!contractVars
  <1>14. CASE UNCHANGED vars
    BY <1>14 DEF vars, Contract!contractVars
  <1>. QED
    BY <1>1, <1>3, <1>4, <1>7, <1>8, <1>9, <1>11, <1>12, <1>13, <1>14
    DEF Next, Step, Parses, Contract!Next

\* The safety part of KeepsContract: each invocation of an operation, the test
\* entrypoints' included, keeps the contract of __call__.
THEOREM EntrypointsKeepContract ==
  Spec => Contract!Init /\ [][Contract!Next]_(Contract!contractVars)
  <1>1. Init => Contract!Init
    BY SameWords DEF Init, Contract!Init, Running
  <1>2. IInv /\ [Next]_vars => [Contract!Next]_(Contract!contractVars)
    BY ContractStep
  <1>. QED
    BY <1>1, <1>2, InvariantHolds, PTL DEF Spec
-----------------------------------------------------------------------------
(* Progress.                                                                   *)

\* The statements left of the invocation at hand, and the invocations after it.
OfInvocation ==
    CASE pc = "invoke" -> 8
      [] pc = "parse" -> 7
      [] pc = "handler" -> 6
      [] pc = "except" -> 5
      [] pc = "serialize" -> IF progress = Failed("InternalFailure") /\ next = 0 THEN 3 ELSE 4
      [] pc = "fallback" -> 2
      [] pc = "answered" -> 1
      [] pc = "finished" -> 0
Ahead == Units - At + MaxLost - lost

Measured ==
    /\ StatementsLeft = 8 * Ahead + OfInvocation
    /\ OfInvocation \in 0..8
    /\ Ahead \in 1..(Units + MaxLost) /\ At \in Nat /\ lost \in Nat

LEMMA MeasureFacts ==
  ASSUME OpTypeOK, PositionsInv
  PROVE  Measured
  <1>1. At \in Positions
    BY DEF At, PositionsInv
  <1>2. lost \in 0..MaxLost /\ MaxLost \in Nat
    BY MaxLostAssumption DEF OpTypeOK
  <1>3. Ahead \in 1..(Units + MaxLost) /\ At \in Nat /\ lost \in Nat
    BY <1>1, <1>2, PositionFacts DEF Ahead, Positions
  <1>4. OfInvocation \in 0..8
    BY DEF OfInvocation, OpTypeOK, Running
  <1>5. StatementsLeft = 8 * Ahead + OfInvocation
    BY DEF StatementsLeft, Ahead, OfInvocation
  <1>. QED
    BY <1>3, <1>4, <1>5 DEF Measured

\* Less is left when the invocation gets on, or when there is one invocation less.
LEMMA Less ==
  ASSUME NEW a \in Nat, NEW b \in Nat, NEW x \in 0..8, NEW y \in 0..8,
         (a = b /\ x < y) \/ (a < b /\ y = 1)
  PROVE  8 * a + x < 8 * b + y
  OBVIOUS

\* The further on the caller is, the less is ahead.
LEMMA Further ==
  ASSUME NEW u \in Nat, NEW m \in Nat, NEW l \in Nat, NEW a \in Nat, NEW b \in Nat, b > a
  PROVE  u - b + m - l < u - a + m - l
  OBVIOUS

\* Each statement of an invocation is followed by a later one, and the caller goes on
\* only with an answer that takes it further, or once for each answer that is lost.
LEMMA MeasureStep ==
  ASSUME IInv, Measured, Measured', Next, ~DeployedList
  PROVE  StatementsLeft' < StatementsLeft \/ UNCHANGED vars
  <1> USE DEF caller, work
  <1>1. /\ StatementsLeft = 8 * Ahead + OfInvocation
        /\ OfInvocation \in 0..8 /\ Ahead \in Nat /\ At \in Nat /\ lost \in Nat
    BY PositionFacts, MaxLostAssumption DEF Measured
  <1>2. /\ StatementsLeft' = 8 * Ahead' + OfInvocation'
        /\ OfInvocation' \in 0..8 /\ Ahead' \in Nat /\ At' \in Nat
    BY PositionFacts, MaxLostAssumption DEF Measured
  <1>3. Units \in Nat /\ MaxLost \in Nat
    BY PositionFacts, MaxLostAssumption
  <1>4. ASSUME UNCHANGED <<event, request, lost>>, OfInvocation' < OfInvocation
        PROVE  StatementsLeft' < StatementsLeft
    <2>1. Ahead' = Ahead
      BY <1>4 DEF Ahead, At, Paged
    <2>. QED
      BY <1>1, <1>2, <1>4, <2>1, Less
  <1>5. CASE Invoke
    BY <1>4, <1>5 DEF Invoke, OfInvocation
  <1>6. CASE Parses
    <2>1. /\ pc = "parse" /\ pc' \in {"handler", "except"}
          /\ UNCHANGED <<event, request, lost>>
      BY <1>6, ParseFacts DEF IInv
    <2>. QED
      BY <1>4, <2>1 DEF OfInvocation
  <1>7. CASE TelemetryRaises
    <2>1. /\ pc \in {"parse", "handler", "except", "serialize"} /\ pc' = "serialize"
          /\ OfInvocation' = 3 /\ UNCHANGED <<event, request, lost>>
      BY <1>7 DEF TelemetryRaises, OfInvocation, Running
    <2>2. CASE pc # "serialize" \/ progress # Failed("InternalFailure") \/ next # 0
      <3>1. OfInvocation > 3
        BY <2>1, <2>2 DEF OfInvocation
      <3>. QED
        BY <1>4, <2>1, <3>1
    <2>3. CASE pc = "serialize" /\ progress = Failed("InternalFailure") /\ next = 0
      BY <1>7, <2>3 DEF TelemetryRaises, vars
    <2>. QED
      BY <2>2, <2>3
  <1>8. CASE NoHandler \/ Catch
    BY <1>4, <1>8 DEF NoHandler, Catch, OfInvocation
  <1>9. ASSUME NEW p, NEW c, pc = "handler", Returns(p, c) PROVE StatementsLeft' < StatementsLeft
    BY <1>4, <1>9 DEF Returns, OfInvocation
  <1>10. CASE HandlerWorks
    BY <1>9, <1>10, HandlerFacts DEF HandlerWorks, IInv
  <1>11. ASSUME NEW code \in Codes, HandlerRefuses(code) PROVE StatementsLeft' < StatementsLeft
    BY <1>9, <1>11 DEF HandlerRefuses
  <1>12. ASSUME NEW e \in Exceptions, HandlerRaises(e) PROVE StatementsLeft' < StatementsLeft
    BY <1>4, <1>12 DEF HandlerRaises, Raise, OfInvocation
  <1>13. CASE Serialize \/ FallBack
    BY <1>4, <1>13 DEF Serialize, FallBack, OfInvocation
  <1>14. CASE LoseAnswer
    <2>1. At' = At /\ lost' = lost + 1 /\ OfInvocation' = 8 /\ OfInvocation = 1
      BY <1>14 DEF LoseAnswer, At, Paged, OfInvocation
    <2>2. Ahead' = Ahead - 1
      BY <1>1, <1>3, <2>1 DEF Ahead
    <2>3. Ahead' < Ahead
      BY <1>1, <2>2
    <2>. QED
      BY <1>1, <1>2, <2>1, <2>3, Less
  <1>15. CASE GoOn
    <2>1. pc = "answered" /\ OfInvocation = 1 /\ UNCHANGED <<event, lost>>
      BY <1>15 DEF GoOn, OfInvocation
    <2>2. CASE pc' = "finished"
      BY <1>4, <1>15, <2>1, <2>2 DEF GoOn, OfInvocation
    <2>3. CASE pc' = "invoke"
      <3>1. At' = IF answer.status = "IN_PROGRESS" THEN answer.context ELSE answer.token
        BY <1>15, <2>1, <2>3 DEF GoOn, At, Paged, IInv, WorkInv, AnswerTells, Tells, OpTypeOK
      <3>2. At' > At
        BY <1>15, <2>1, <2>3, <3>1 DEF GoOn, IInv, AdvanceInv
      <3>3. Ahead' < Ahead
        <4>1. Ahead = Units - At + MaxLost - lost /\ Ahead' = Units - At' + MaxLost - lost
          BY <2>1 DEF Ahead
        <4>2. At \in Nat /\ At' \in Nat /\ lost \in Nat
          BY <1>1, <1>2
        <4>. QED
          BY <1>3, <3>2, <4>1, <4>2, Further
      <3>4. OfInvocation' = 8
        BY <2>3 DEF OfInvocation
      <3>. QED
        BY <1>1, <1>2, <2>1, <3>3, <3>4, Less
    <2>. QED
      BY <1>15, <2>2, <2>3 DEF GoOn
  <1>. QED
    BY <1>5, <1>6, <1>7, <1>8, <1>10, <1>11, <1>12, <1>13, <1>14, <1>15 DEF Next, Step, Parses

\* For any number of units and of lost answers, an operation comes nearer to its end
\* with each step, but for a list through __call__: it takes at most one invocation for
\* each unit and one for each answer that is lost.
THEOREM EveryStepAdvances ==
  Spec => OperationAdvances /\ [](StatementsLeft \in 0..(8 * (Units + MaxLost + 1)))
  <1>1. IInv => Measured
    BY MeasureFacts DEF IInv
  <1>2. IInv /\ Measured /\ Measured' /\ [Next]_vars =>
           [~DeployedList => StatementsLeft' < StatementsLeft]_vars
    BY MeasureStep
  <1>3. Measured => StatementsLeft \in 0..(8 * (Units + MaxLost + 1))
    <2>1. Units \in Nat /\ MaxLost \in Nat
      BY PositionFacts, MaxLostAssumption
    <2>. QED
      BY <2>1 DEF Measured
  <1>. QED
    BY <1>1, <1>2, <1>3, InvariantHolds, PTL DEF Spec, OperationAdvances

\* A list through __call__ never gets beyond its first page, whatever its handler
\* returns: with more than one page it does not end in SUCCESS.
THEOREM DeployedListsStayAtTheirFirstPage ==
  Spec => [](DeployedList =>
                /\ done \subseteq {1}
                /\ pc = "finished" /\ answer.status = "SUCCESS" => Units = 1)
  <1>1. IInv => (DeployedList =>
                    /\ done \subseteq {1}
                    /\ pc = "finished" /\ answer.status = "SUCCESS" => Units = 1)
    <2> SUFFICES ASSUME IInv, DeployedList
                 PROVE  /\ done \subseteq {1}
                        /\ pc = "finished" /\ answer.status = "SUCCESS" => Units = 1
      OBVIOUS
    <2>1. done \subseteq {1}
      BY DEF IInv, FirstPageInv
    <2>2. pc = "finished" /\ answer.status = "SUCCESS" => done = 1..Units
      BY DEF IInv, WorkInv, SuccessMeansAllDone
    <2>3. 1..Units \subseteq {1} => Units = 1
      <3>1. Units \in 1..Units
        BY PositionFacts
      <3>. QED
        BY <3>1
    <2>. QED
      BY <2>1, <2>2, <2>3
  <1>. QED
    BY <1>1, InvariantHolds, PTL
=============================================================================
