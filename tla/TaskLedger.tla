----------------------------- MODULE TaskLedger -----------------------------
(***************************************************************************)
(* The promise of AsyncTaskQueue to its callers, without threads, futures  *)
(* and shutdown: a task is accepted once, started once and answered once,  *)
(* and at most "slots" tasks are started at a time; a task that is dropped *)
(* takes its slot with it.                                                 *)
(***************************************************************************)
EXTENDS Naturals, FiniteSets

CONSTANTS Tasks, Workers

VARIABLES entry, slots

vars == <<entry, slots>>

Started == {t \in Tasks : entry[t] = "started"}

Init ==
    /\ entry = [t \in Tasks |-> "new"]
    /\ slots = Cardinality(Workers)

Accept(t) ==
    /\ entry[t] = "new"
    /\ entry' = [entry EXCEPT ![t] = "accepted"]
    /\ UNCHANGED slots

Start(t) ==
    /\ entry[t] = "accepted"
    /\ Cardinality(Started) < slots
    /\ entry' = [entry EXCEPT ![t] = "started"]
    /\ UNCHANGED slots

Answer(t) ==
    /\ entry[t] = "started"
    /\ entry' = [entry EXCEPT ![t] = "answered"]
    /\ UNCHANGED slots

Drop(t) ==
    /\ entry[t] = "started"
    /\ entry' = [entry EXCEPT ![t] = "dropped"]
    /\ slots' = slots - 1

Next == \E t \in Tasks : Accept(t) \/ Start(t) \/ Answer(t) \/ Drop(t)

Spec == Init /\ [][Next]_vars
=============================================================================
