-------------------------- MODULE MCHookInvocation --------------------------
(* One invocation point with a handler and one without; the requests that    *)
(* differ for the code: of a rejected request nothing further is read.       *)
EXTENDS HookInvocation

MCEvents ==
    {e \in EventType :
        /\ ~e.parses => ~e.casts
        /\ ~e.casts => ~e.logs /\ e.action = "CREATE_PRE_PROVISION"
        /\ ~e.logs => e.typed
        /\ e.stream = "stream2" => e.logs /\ e.typed}
=============================================================================
