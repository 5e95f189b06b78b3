----------------------------- MODULE LogDelivery -----------------------------
(* ProviderLogHandler.emit, in every Lambda container that logs to the same    *)
(* stream: the containers of one resource share its stream, and each guards    *)
(* its own sequence token.  A record is put with the token; when the service   *)
(* turns the token down the one it names is taken, and when the group or the   *)
(* stream is missing they are created and the record is put once more.         *)
(*                                                                             *)
(* CloudWatch Logs and botocore are external, and modelled as the code relies  *)
(* on them: a put is taken if it carries the token the stream expects (none,   *)
(* when the stream is new), and is otherwise answered with an error whose last *)
(* word is that token, or the word null when the stream expects none; a call   *)
(* may fail; botocore sends a request again whose answer did not come, and the *)
(* first one may still arrive.  The code sends the word null like a token:     *)
(* nothing in src says if the service takes it for none, so both are modelled. *)
EXTENDS Naturals, Sequences, Functions

CONSTANTS
    Containers,   \* the Lambda containers that log to the stream
    MaxRecords,   \* bound: records a container logs
    MaxDeletes,   \* bound: deletions of the stream or the group
    MaxResends    \* bound: requests botocore sends again

ASSUME BoundsAssumption == {MaxRecords, MaxDeletes, MaxResends} \subseteq Nat

VARIABLES
    \* the service
    group,      \* the log group exists
    stream,     \* the log stream exists
    log,        \* the records in the stream, in the order they were taken
    expected,   \* the token the next put must carry
    issued,     \* the latest token issued: no token is issued twice
    takesNull,  \* the service takes the word null for no token
    copies,     \* history: how often the stream took each record
    \* botocore and the network
    late,       \* put requests still on their way that nobody waits for
    resent,     \* how often each record was sent again
    \* the containers
    pc,         \* the next statement of emit
    count,      \* records passed to emit so far; the last one is at hand
    again,      \* in emit's second _put_log_event
    token,      \* sequence_token
    reply,      \* the answer to the put at hand
    outcome,    \* how the last emit ended
    deletes     \* deletions so far

service == <<group, stream, log, expected, issued, takesNull, copies>>
network == <<late, resent>>
vars == <<service, network, pc, count, again, token, reply, outcome, deletes>>

\* Tokens: "" (none), the word "null", and those the service issued, in order.
NoToken == 0
Null == 1

Records == Containers \X (1..MaxRecords)
Puts == [record : Records, token : Nat]

\* What a put is answered with.  badToken: DataAlreadyAcceptedException or
\* InvalidSequenceTokenException, which the code treats alike.
Kinds == {"accepted", "badToken", "noGroup", "noStream"}
Replies == [kind : Kinds, token : Nat]
NoReply == [kind |-> "none", token |-> NoToken]

LogTypeOK ==
    /\ group \in BOOLEAN /\ stream \in BOOLEAN
    /\ log \in Seq(Records)
    /\ expected \in 0..issued /\ issued \in Nat /\ takesNull \in BOOLEAN
    /\ copies \in [Records -> Nat]
    /\ late \subseteq Puts
    /\ resent \in [Records -> Nat]
    /\ pc \in [Containers -> {"idle", "put", "reply", "group", "stream"}]
    /\ count \in [Containers -> 0..MaxRecords]
    /\ again \in [Containers -> BOOLEAN]
    /\ token \in [Containers -> 0..issued]
    /\ reply \in [Containers -> Replies \cup {NoReply}]
    /\ outcome \in [Containers -> {"none", "returned", "raised"}]
    /\ deletes \in 0..MaxDeletes

Current(c) == <<c, count[c]>>
ThePut(c) == [record |-> Current(c), token |-> token[c]]
Goto(c, label) == pc' = [pc EXCEPT ![c] = label]

Init ==
    /\ group \in BOOLEAN /\ stream = FALSE
    /\ log = <<>> /\ expected = NoToken /\ issued = Null
    /\ takesNull \in BOOLEAN
    /\ copies = [r \in Records |-> 0]
    /\ late = {} /\ resent = [r \in Records |-> 0]
    /\ pc = [c \in Containers |-> "idle"]
    /\ count = [c \in Containers |-> 0]
    /\ again = [c \in Containers |-> FALSE]
    /\ token = [c \in Containers |-> NoToken]
    /\ reply = [c \in Containers |-> NoReply]
    /\ outcome = [c \in Containers |-> "none"]
    /\ deletes = 0

-----------------------------------------------------------------------------
(* The service.                                                              *)

\* The token t is as good as the one the stream expects.
Takes(t) == t = expected \/ (takesNull /\ t = Null /\ expected = NoToken)

\* A service that takes a put whatever token it carries.
MatchesAny(p) == TRUE

Matches(p) == Takes(p.token)

\* How the error names the token that is expected.
Expected == IF expected = NoToken THEN Null ELSE expected

Answer(p) ==
    CASE ~group -> [kind |-> "noGroup", token |-> NoToken]
      [] group /\ ~stream -> [kind |-> "noStream", token |-> NoToken]
      [] stream /\ Matches(p) -> [kind |-> "accepted", token |-> issued + 1]
      [] stream /\ ~Matches(p) -> [kind |-> "badToken", token |-> Expected]

\* PutLogEvents arrives: the record is in the stream, or nothing happens.
Execute(p) ==
    IF Answer(p).kind = "accepted"
    THEN /\ log' = Append(log, p.record)
         /\ copies' = [copies EXCEPT ![p.record] = @ + 1]
         /\ issued' = issued + 1 /\ expected' = issued + 1
         /\ UNCHANGED <<group, stream, takesNull>>
    ELSE UNCHANGED service

\* Somebody deletes the stream, or the group with it.
Delete ==
    /\ group /\ deletes < MaxDeletes /\ deletes' = deletes + 1
    /\ group' \in BOOLEAN /\ stream' = FALSE
    /\ log' = <<>> /\ expected' = NoToken
    /\ UNCHANGED <<issued, takesNull, copies, network, pc, count, again, token, reply, outcome>>

\* A request that was given up, or sent again, arrives after all.
ArriveLate ==
    \E p \in late :
        /\ Execute(p) /\ late' = late \ {p}
        /\ UNCHANGED <<resent, pc, count, again, token, reply, outcome, deletes>>

-----------------------------------------------------------------------------
(* One container.                                                            *)

Emit(c) ==
    /\ pc[c] = "idle" /\ count[c] < MaxRecords
    /\ count' = [count EXCEPT ![c] = @ + 1]
    /\ again' = [again EXCEPT ![c] = FALSE]
    /\ outcome' = [outcome EXCEPT ![c] = "none"]
    /\ Goto(c, "put")
    /\ UNCHANGED <<service, network, token, reply, deletes>>

\* client.put_log_events: the request is executed, and its answer is on its way.
PutLogEvents(c) ==
    /\ pc[c] = "put" /\ Goto(c, "reply")
    /\ reply' = [reply EXCEPT ![c] = Answer(ThePut(c))]
    /\ Execute(ThePut(c))
    /\ UNCHANGED <<network, count, again, token, outcome, deletes>>

\* No answer came: botocore sends the same request again.  The first one was
\* executed (pc is "reply"), or it is still on its way.
Resend(c) ==
    /\ pc[c] \in {"put", "reply"} /\ SumFunction(resent) < MaxResends
    /\ resent' = [resent EXCEPT ![Current(c)] = @ + 1]
    /\ late' = IF pc[c] = "put" THEN late \cup {ThePut(c)} ELSE late
    /\ Goto(c, "put")
    /\ reply' = [reply EXCEPT ![c] = NoReply]
    /\ UNCHANGED <<service, count, again, token, outcome, deletes>>

\* emit comes back.
End(c, how) ==
    /\ Goto(c, "idle") /\ outcome' = [outcome EXCEPT ![c] = how]
    /\ reply' = [reply EXCEPT ![c] = NoReply]

\* A slip: what follows the except clause of emit runs without an exception too.
PutAcceptedGoesOn(c) ==
    /\ pc[c] = "reply" /\ reply[c].kind = "accepted"
    /\ token' = [token EXCEPT ![c] = reply[c].token]
    /\ IF again[c] THEN End(c, "returned") /\ UNCHANGED again
       ELSE /\ Goto(c, "stream") /\ again' = [again EXCEPT ![c] = TRUE]
            /\ UNCHANGED <<reply, outcome>>
    /\ UNCHANGED <<service, network, count, deletes>>

\* self.sequence_token = ...["nextSequenceToken"]
PutAccepted(c) ==
    /\ pc[c] = "reply" /\ reply[c].kind = "accepted"
    /\ token' = [token EXCEPT ![c] = reply[c].token]
    /\ End(c, "returned")
    /\ UNCHANGED <<service, network, count, again, deletes>>

\* A slip: a word of the error that is no token the service ever issued.
NamedTokenFirstWord(c) == issued + 1

\* A slip: the token is left alone.
NamedTokenKept(c) == token[c]

\* The last word of the error, the word null included.
NamedToken(c) == reply[c].token

\* A slip: the exception is swallowed after the token is taken.
RetryForgotten(c) == End(c, "returned")

\* The recursive call of _put_log_event.
Retry(c) == Goto(c, "put") /\ reply' = [reply EXCEPT ![c] = NoReply] /\ UNCHANGED outcome

\* except (DataAlreadyAcceptedException, InvalidSequenceTokenException)
TokenRejected(c) ==
    /\ pc[c] = "reply" /\ reply[c].kind = "badToken"
    /\ token' = [token EXCEPT ![c] = NamedToken(c)]
    /\ Retry(c)
    /\ UNCHANGED <<service, network, count, again, deletes>>

\* except ResourceNotFoundException, which covers the first _put_log_event only.
NotFound(c) ==
    /\ pc[c] = "reply" /\ reply[c].kind \in {"noGroup", "noStream"}
    /\ IF again[c] THEN End(c, "raised") /\ UNCHANGED again
       ELSE /\ Goto(c, IF reply[c].kind = "noGroup" THEN "group" ELSE "stream")
            /\ again' = [again EXCEPT ![c] = TRUE]
            /\ reply' = [reply EXCEPT ![c] = NoReply] /\ UNCHANGED outcome
    /\ UNCHANGED <<service, network, count, token, deletes>>

\* _create_log_group: that it exists by now is no error.
CreateLogGroup(c) ==
    /\ pc[c] = "group" /\ Goto(c, "stream")
    /\ group' = TRUE
    /\ UNCHANGED <<stream, log, expected, issued, takesNull, copies, network, count, again,
                   token, reply, outcome, deletes>>

\* _create_log_stream, while the group exists.
CreateLogStream(c) ==
    /\ pc[c] = "stream" /\ group /\ Goto(c, "put")
    /\ stream' = TRUE
    /\ UNCHANGED <<group, log, expected, issued, takesNull, copies, network, count, again,
                   token, reply, outcome, deletes>>

\* A call raises an exception emit does not catch: access is denied, calls are
\* throttled, botocore has no retry left, the group went away before its stream
\* was created, or Python's recursion limit is reached.  A put that failed so may
\* have been executed.
CallFails(c) ==
    /\ pc[c] # "idle" /\ End(c, "raised")
    /\ UNCHANGED <<service, network, count, again, token, deletes>>

\* Lambda stops the container; the next one starts without a token.
Stop(c) ==
    /\ Goto(c, "idle") /\ token' = [token EXCEPT ![c] = NoToken]
    /\ reply' = [reply EXCEPT ![c] = NoReply]
    /\ outcome' = [outcome EXCEPT ![c] = "none"]
    /\ UNCHANGED <<service, network, count, again, deletes>>

\* What the container goes on to do inside emit.
Step(c) ==
    \/ PutLogEvents(c) \/ Resend(c)
    \/ PutAccepted(c) \/ TokenRejected(c) \/ NotFound(c)
    \/ CreateLogGroup(c) \/ CreateLogStream(c) \/ CallFails(c)

Next ==
    \/ \E c \in Containers : Emit(c) \/ Step(c) \/ Stop(c)
    \/ Delete \/ ArriveLate

\* Lambda runs the code it has started, and every call of botocore comes back.
Spec == Init /\ [][Next]_vars /\ \A c \in Containers : WF_vars(Step(c))

-----------------------------------------------------------------------------
(* Properties.                                                               *)

\* What the retries cannot get out of: the stream is new, it expects no token, the
\* container has one to send, and the service does not take null.  Every error names
\* null, and null is what the code sends next.
GoesInCircles(c) ==
    ~takesNull /\ stream /\ expected = NoToken /\ token[c] # NoToken

Sink ==
    INSTANCE LogSink WITH
        emitting <- {c \in Containers : pc[c] # "idle"},
        stored <- {r \in Records : copies[r] > 0},
        refused <- {c \in Containers : GoesInCircles(c)}

\* emit keeps its promise: it returns only if the stream has taken the record,
\* whatever tokens, deletions, other containers and lost answers did, and raises
\* otherwise; and it ends, however often its token is turned down, unless from some
\* time on it goes in circles with null.
KeepsPromise == Sink!Spec

\* The stream takes a record once, and once more at most for each answer that
\* was lost: an error that means "already accepted" makes emit put it again.
DuplicatesOnlyAfterResend == \A r \in Records : copies[r] <= 1 + resent[r]

\* The records of one container stand in the stream in the order it logged them,
\* requests that arrive late included.
InOrder ==
    \A i, j \in DOMAIN log :
        i < j /\ log[i][1] = log[j][1] => log[i][2] <= log[j][2]

\* The statements emit has still to run, at most, if nobody changes the stream: from a
\* put that carries the token t, and from where container c is.
FromPut(t, second) ==
    CASE stream /\ Takes(t) -> 2
      [] stream /\ ~Takes(t) -> 4
      [] ~stream -> IF second THEN 4 ELSE 8

StatementsLeft(c) ==
    CASE pc[c] = "idle" -> 0
      [] pc[c] = "put" -> FromPut(token[c], again[c])
      [] pc[c] = "stream" -> 5
      [] pc[c] = "group" -> 6
      [] pc[c] = "reply" /\ reply[c].kind = "accepted" -> 1
      [] pc[c] = "reply" /\ reply[c].kind = "badToken" -> 1 + FromPut(reply[c].token, again[c])
      [] OTHER -> IF again[c] THEN 1 ELSE 7

\* emit does not retry without a cause: each of its statements brings it nearer to its
\* end, and it is thrown back only when another put was taken or the stream was
\* deleted meanwhile.  It is a handful of statements for each such cause.  Not so
\* while it goes in circles: a new stream, a container with a token, and a service
\* that turns down the word null.
RetriesHaveACause ==
    [][\A c \in Containers : pc[c] # "idle" /\ ~GoesInCircles(c) /\ UNCHANGED resent =>
          /\ pc'[c] # pc[c] => StatementsLeft(c)' < StatementsLeft(c)
          /\ UNCHANGED <<issued, deletes>> => StatementsLeft(c)' <= StatementsLeft(c)]_vars
=============================================================================
