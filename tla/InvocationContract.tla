------------------------- MODULE InvocationContract -------------------------
(* What an entrypoint promises to CloudFormation and to the handler's author, *)
(* whatever logging and metrics do: the handler runs at most once, only for a *)
(* request that could be turned into models, and every request is answered    *)
(* once, with what the handler said or with InternalFailure.                  *)
EXTENDS Interface

CONSTANT Synchronous   \* actions whose handler must answer at once

VARIABLES phase, event, returned, raised, response

contractVars == <<phase, event, returned, raised, response>>

Called == returned # NoProgress \/ raised # NoError

Internal == Answer(Failed("InternalFailure"))

\* What CloudFormation is told when telemetry does not get in the way: of a
\* request that was rejected before the handler ran, or for an action whose
\* handler returned p or raised x.
Promise(rejected, action, p, x) ==
    CASE rejected -> Answer(Failed("InvalidRequest"))
      [] ~rejected /\ x.kind = "HandlerError" -> Answer(Failed(x.code))
      [] /\ ~rejected /\ x = NoError /\ p.sound
         /\ ~(p.status = "IN_PROGRESS" /\ action \in Synchronous)
           -> Answer(p)
      [] OTHER -> Internal

Init ==
    /\ phase = "idle" /\ event \in Events
    /\ returned = NoProgress /\ raised = NoError /\ response = NoAnswer

Receive ==
    /\ phase # "running" /\ phase' = "running" /\ event' \in Events
    /\ returned' = NoProgress /\ raised' = NoError /\ response' = NoAnswer

CallHandler ==
    /\ phase = "running" /\ ~Called
    /\ event.parses /\ event.casts /\ event.action \in Handled
    /\ \/ returned' \in Progress /\ UNCHANGED raised
       \/ raised' \in Exceptions /\ UNCHANGED returned
    /\ UNCHANGED <<phase, event, response>>

Reply ==
    /\ phase = "running" /\ phase' = "done"
    /\ \E rejected \in BOOLEAN :
          /\ rejected => ~Called
          /\ response' \in {Promise(rejected, event.action, returned, raised), Internal}
    /\ UNCHANGED <<event, returned, raised>>

\* The container is stopped: the request has no answer, and never gets one.
Abandon ==
    /\ phase' = "idle"
    /\ returned' = NoProgress /\ raised' = NoError /\ response' = NoAnswer
    /\ UNCHANGED event

Next == Receive \/ CallHandler \/ Reply \/ Abandon

Spec == Init /\ [][Next]_contractVars /\ WF_contractVars(Reply)
=============================================================================
