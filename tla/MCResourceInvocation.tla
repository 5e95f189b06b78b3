------------------------ MODULE MCResourceInvocation ------------------------
(* Two actions with a handler (one of each kind) and one without, two         *)
(* resources, and the requests that differ for the code: of a request that is *)
(* rejected nothing further is read.                                          *)
EXTENDS ResourceInvocation

MCEvents ==
    {e \in EventType :
        /\ ~e.remote
        /\ ~e.parses => ~e.casts
        /\ ~e.casts \/ ~e.logs => e.typed
        /\ ~e.casts => ~e.logs /\ e.action = "CREATE"
        /\ e.stream = "stream2" => e.logs /\ e.typed}
=============================================================================
