----------------------------- MODULE UnitOfWork -----------------------------
(***************************************************************************)
(* The promise of DatabaseManager's sessions, without connections, flushes *)
(* and waiting: a table that changes only by a whole unit of work, of new  *)
(* rows, at once.  A call of get_or_create either reads a row, or publishes*)
(* the unit with its row in it, or fails and gives the unit up.            *)
(***************************************************************************)
CONSTANTS Sessions, Keys

VARIABLES
    table,   \* the rows of the table
    unit,    \* what each session has added and not published
    told,    \* how its calls of get_or_create ended
    result   \* how its with statement ended

vars == <<table, unit, told, result>>

Init ==
    /\ table = {}
    /\ unit = [s \in Sessions |-> {}]
    /\ told = [s \in Sessions |-> {}]
    /\ result = [s \in Sessions |-> "none"]

Tell(s, k, how) == told' = [told EXCEPT ![s] = @ \cup {<<k, how>>}]

Add(s, k) ==
    /\ unit' = [unit EXCEPT ![s] = @ \cup {k}]
    /\ UNCHANGED <<table, told, result>>

Find(s, k) ==
    /\ k \in table
    /\ Tell(s, k, "found")
    /\ UNCHANGED <<table, unit, result>>

Publish(s) ==
    /\ unit[s] \cap table = {}
    /\ table' = table \cup unit[s]
    /\ unit' = [unit EXCEPT ![s] = {}]

Create(s, k) ==
    /\ k \in unit[s]
    /\ Publish(s)
    /\ Tell(s, k, "created")
    /\ UNCHANGED result

Finish(s) ==
    /\ Publish(s)
    /\ result' = [result EXCEPT ![s] = "committed"]
    /\ UNCHANGED told

\* A call, or the with statement, fails: the unit is given up.
Fail(s) ==
    /\ \/ UNCHANGED result
       \/ result' = [result EXCEPT ![s] = "DatabaseError"]
    /\ \/ /\ UNCHANGED table
          /\ unit' = [unit EXCEPT ![s] = {}]
          /\ UNCHANGED told \/ \E k \in unit[s] : Tell(s, k, "conflict")
       \/ Publish(s) /\ UNCHANGED told   \* only the answer of the commit was lost

Next ==
    \E s \in Sessions :
        /\ result[s] = "none"
        /\ \/ \E k \in Keys : Add(s, k) \/ Find(s, k) \/ Create(s, k)
           \/ Finish(s) \/ Fail(s)

Spec == Init /\ [][Next]_vars
=============================================================================
