------------------------------- MODULE LogSink -------------------------------
(* What ProviderLogHandler.emit promises to the code that logs: it comes back, *)
(* and it comes back without an exception only if the record is stored.  While *)
(* the stream turns down whatever a container sends it, emit need not end.     *)
EXTENDS Naturals

CONSTANTS
    Containers,   \* the Lambda containers that log to one stream
    MaxRecords    \* records a container logs

VARIABLES
    emitting,   \* the containers inside emit
    count,      \* the records each has logged so far
    outcome,    \* how the last emit of each ended
    stored,     \* records the log stream has taken: <<container, number>>
    refused     \* the containers whose puts the stream turns down, every one

sinkVars == <<emitting, count, outcome, stored>>

Outcomes == {"none", "returned", "raised"}

Current(c) == <<c, count[c]>>

Init ==
    /\ emitting = {} /\ stored = {}
    /\ count = [c \in Containers |-> 0]
    /\ outcome = [c \in Containers |-> "none"]

Emit(c) ==
    /\ c \notin emitting /\ emitting' = emitting \cup {c}
    /\ count[c] < MaxRecords /\ count' = [count EXCEPT ![c] = @ + 1]
    /\ outcome' = [outcome EXCEPT ![c] = "none"]
    /\ UNCHANGED stored

\* The stream takes a record of c, the current one or a late one.
Store(c) ==
    /\ \E k \in 1..count[c] : stored' = stored \cup {<<c, k>>}
    /\ UNCHANGED <<emitting, count, outcome>>

Return(c) ==
    /\ c \in emitting /\ emitting' = emitting \ {c}
    /\ Current(c) \in stored
    /\ outcome' = [outcome EXCEPT ![c] = "returned"]
    /\ UNCHANGED <<count, stored>>

Fail(c) ==
    /\ c \in emitting /\ emitting' = emitting \ {c}
    /\ outcome' = [outcome EXCEPT ![c] = "raised"]
    /\ UNCHANGED <<count, stored>>

\* The container is stopped, inside emit or out of it.
Stop(c) ==
    /\ emitting' = emitting \ {c}
    /\ outcome' = [outcome EXCEPT ![c] = "none"]
    /\ UNCHANGED <<count, stored>>

Next == \E c \in Containers : Emit(c) \/ Store(c) \/ Return(c) \/ Fail(c) \/ Stop(c)

Spec ==
    /\ Init /\ [][Next]_sinkVars
    /\ \A c \in Containers :
          WF_sinkVars(Return(c) \/ Fail(c)) \/ <>[](c \in refused)
=============================================================================
