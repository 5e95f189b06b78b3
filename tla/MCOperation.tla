----------------------------- MODULE MCOperation -----------------------------
(* A creation, a hook and a list of three units each, an action without       *)
(* handler, and the two ways a request is turned down.                        *)
EXTENDS Operation

MCEvents ==
    {e \in EventType :
        /\ ~e.logs /\ e.typed /\ ~e.remote
        /\ ~e.parses => ~e.casts
        /\ ~e.casts => e.action \in {"CREATE", "CREATE_PRE_PROVISION"}}
=============================================================================
