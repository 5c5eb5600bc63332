--------------------------- MODULE CircuitBreaker ---------------------------
(***************************************************************************)
(* What one provider's circuit breaker of services/ai_service.py promises, *)
(* without the retries, the other providers and the order they are tried   *)
(* in: callers are admitted only while it is closed, every failure is      *)
(* counted once, and an answer that arrives late may close it again.       *)
(***************************************************************************)
EXTENDS Naturals

CONSTANTS Callers, Threshold

VARIABLES closed, count, waiting

vars == <<closed, count, waiting>>

Init ==
    /\ closed = TRUE
    /\ count = 0
    /\ waiting = {}

Admit(c) ==
    /\ closed
    /\ c \notin waiting
    /\ waiting' = waiting \cup {c}
    /\ UNCHANGED <<closed, count>>

\* A caller that is done waiting leaves, or asks again if the breaker lets it.
Release(c) ==
    \/ waiting' = waiting \ {c}
    \/ closed' /\ waiting' = waiting

Succeed(c) ==
    /\ c \in waiting
    /\ waiting' = waiting \ {c}
    /\ closed' = TRUE
    /\ count' = 0

Fail(c) ==
    /\ c \in waiting
    /\ count' = count + 1
    /\ closed' = (closed /\ count' < Threshold)
    /\ Release(c)

\* An answer that arrived but was unusable: one failure after a fresh start.
Reject(c) ==
    /\ c \in waiting
    /\ count' = 1
    /\ closed' = (1 < Threshold)
    /\ Release(c)

\* An answer that counts neither way.
Leave(c) ==
    /\ c \in waiting
    /\ Release(c)
    /\ UNCHANGED <<closed, count>>

Next == \E c \in Callers :
    Admit(c) \/ Succeed(c) \/ Fail(c) \/ Reject(c) \/ Leave(c)

Spec == Init /\ [][Next]_vars
============================================================================
