------------------------------ MODULE EventLog ------------------------------
(***************************************************************************)
(* The promise of EventDispatcher, without the processor task, its queue   *)
(* and its subscribers: a log that is only appended to and delivered from  *)
(* its start, one event at a time and in its order; and one flush, which   *)
(* returns only when what was in the log at its call has been delivered.   *)
(***************************************************************************)
EXTENDS Naturals, Sequences

CONSTANT Events

VARIABLES
    log,        \* the events published, in order
    delivered,  \* the events delivered, in order
    flush,      \* "no", "asked" or "returned"
    before      \* the events in the log when the flush was asked for

vars == <<log, delivered, flush, before>>

Elements(s) == {s[i] : i \in 1..Len(s)}

Init ==
    /\ log = <<>>
    /\ delivered = <<>>
    /\ flush = "no"
    /\ before = {}

Publish(e) ==
    /\ e \notin Elements(log)
    /\ log' = Append(log, e)
    /\ UNCHANGED <<delivered, flush, before>>

\* The next event of the log and no other.
Deliver ==
    /\ Len(delivered) < Len(log)
    /\ delivered' = Append(delivered, log[Len(delivered) + 1])
    /\ UNCHANGED <<log, flush, before>>

\* A flush with nothing undelivered may return at once.
Flush ==
    /\ flush = "no"
    /\ \/ flush' = "asked"
       \/ delivered = log /\ flush' = "returned"
    /\ before' = Elements(log)
    /\ UNCHANGED <<log, delivered>>

FlushReturns ==
    /\ flush = "asked"
    /\ before \subseteq Elements(delivered)
    /\ flush' = "returned"
    /\ UNCHANGED <<log, delivered, before>>

Next == (\E e \in Events : Publish(e)) \/ Deliver \/ Flush \/ FlushReturns

Spec == Init /\ [][Next]_vars
=============================================================================
