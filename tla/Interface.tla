------------------------------ MODULE Interface ------------------------------
(* The vocabulary of interface.py and exceptions.py: what a handler may       *)
(* return or raise, and what the runtime may answer.  Shared by the contract  *)
(* of an invocation and by the runtimes that keep it.                         *)
EXTENDS Naturals

CONSTANTS
    Actions,   \* Action, or HookInvocationPoint for a hook
    Handled,   \* those a handler is registered for
    Codes,     \* HandlerErrorCode
    Streams,   \* names of log streams, one per resource a request is about
    Events     \* the requests CloudFormation sends

\* OperationStatus, and HookStatus, whose members have the same names.
Statuses == {"PENDING", "IN_PROGRESS", "SUCCESS",
             "CHANGE_SET_SUCCESS_SKIP_STACK_HOOK", "FAILED"}

NoCode == "no code"
Nothing == "nothing"     \* not a status, nor a kind of exception, nor a stream

\* What the runtime reads off a request.  parses, casts: deserializing it and
\* building the models of it raise nothing.  logs: it carries both
\* providerLogGroupName and providerCredentials.  typed: its type name is not
\* empty.  remote: it names an URL instead of a target model (hooks only).
\* stream: the log stream its stackId and logical id name.
EventType == [parses : BOOLEAN, casts : BOOLEAN, action : Actions, logs : BOOLEAN,
              typed : BOOLEAN, remote : BOOLEAN, stream : Streams]

ASSUME HandledAssumption == Handled \subseteq Actions
ASSUME CodesAssumption == {"InternalFailure", "InvalidRequest"} \subseteq Codes
ASSUME NothingAssumption == NoCode \notin Codes /\ Nothing \notin Streams
ASSUME EventsAssumption == Events \subseteq EventType /\ Events # {}

\* A ProgressEvent.  sound: its models and its callback context turn into JSON.
Progress == [status : Statuses, code : Codes \cup {NoCode}, sound : BOOLEAN]
NoProgress == [status |-> Nothing, code |-> NoCode, sound |-> FALSE]

\* ProgressEvent.failed
Failed(code) == [status |-> "FAILED", code |-> code, sound |-> TRUE]

\* Exceptions, as the except clauses tell them apart.
HandlerError(code) == [kind |-> "HandlerError", code |-> code]
OtherException == [kind |-> "Exception", code |-> NoCode]
BaseException == [kind |-> "BaseException", code |-> NoCode]
NoError == [kind |-> Nothing, code |-> NoCode]
Exceptions == {HandlerError(c) : c \in Codes} \cup {OtherException, BaseException}

\* The dictionary _serialize makes of a progress: result and annotations are
\* gone, and so is every field that is None.
Answer(p) == [status |-> p.status, code |-> p.code]
Answers == [status : Statuses, code : Codes \cup {NoCode}]
NoAnswer == Answer(NoProgress)
=============================================================================
