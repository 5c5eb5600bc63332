------------------------------ MODULE Database ------------------------------
(***************************************************************************)
(* DatabaseManager of services/database.py: threads inside                 *)
(* "with db.session() as session", where they add objects and call         *)
(* get_or_create, on a shared connection pool and one table with a unique  *)
(* key.                                                                    *)
(*                                                                         *)
(* A session takes a connection from the pool at its first statement and   *)
(* gives it back when its transaction ends.  autoflush is off: an added    *)
(* object reaches the table, as one INSERT per object, only in a commit,   *)
(* and PostgreSQL makes an INSERT wait for an open transaction that        *)
(* inserted the same key.                                                  *)
(***************************************************************************)
EXTENDS Naturals, Sequences, FiniteSets

CONSTANTS
    Sessions,   \* threads, each inside one "with db.session()"
    Others,     \* sessions on other tables: they only share the pool
    Keys,       \* values of the table's unique key
    NoKey,      \* no get_or_create in progress
    PoolSize,   \* pool_size + max_overflow
    MaxCalls    \* bound: calls of add and get_or_create per session

ASSUME SessionsAssumption == IsFiniteSet(Sessions) /\ IsFiniteSet(Others)
ASSUME OthersAssumption == Sessions \cap Others = {}
ASSUME KeysAssumption == NoKey \notin Keys
ASSUME PoolAssumption == PoolSize \in Nat \ {0}
ASSUME MaxCallsAssumption == MaxCalls \in Nat

VARIABLES
    rows,        \* the committed rows
    pc,          \* where each thread is
    key,         \* the argument of its get_or_create
    pending,     \* objects added to its session and not inserted yet
    work,        \* rows inserted by its open transaction
    conn,        \* the sessions that hold a connection
    calls,       \* calls made so far
    added,       \* history: what its code added since the last rollback
    answers,     \* history: what its get_or_create calls came back with
    result       \* how the with statement ended

vars == <<rows, pc, key, pending, work, conn, calls, added, answers, result>>

Elements(s) == {s[i] : i \in 1..Len(s)}

TypeOK ==
    /\ rows \in SUBSET Keys
    /\ pc \in [Sessions -> {"out", "body", "query", "flush", "ended"}]
    /\ key \in [Sessions -> Keys \cup {NoKey}]
    /\ pending \in [Sessions -> Seq(Keys)]
    /\ work \in [Sessions -> SUBSET Keys]
    /\ conn \in SUBSET (Sessions \cup Others)
    /\ calls \in [Sessions -> 0..MaxCalls]
    /\ added \in [Sessions -> SUBSET Keys]
    /\ answers \in [Sessions -> SUBSET (Keys \X {"created", "found", "conflict"})]
    /\ result \in [Sessions -> {"none", "committed", "DatabaseError"}]
    /\ \A s \in Sessions :
          /\ pc[s] = "query" => key[s] # NoKey
          /\ pc[s] \in {"out", "body", "ended"} => key[s] = NoKey

----------------------------------------------------------------------------
Init ==
    /\ rows = {}
    /\ pc = [s \in Sessions |-> "out"]
    /\ key = [s \in Sessions |-> NoKey]
    /\ pending = [s \in Sessions |-> <<>>]
    /\ work = [s \in Sessions |-> {}]
    /\ conn = {}
    /\ calls = [s \in Sessions |-> 0]
    /\ added = [s \in Sessions |-> {}]
    /\ answers = [s \in Sessions |-> {}]
    /\ result = [s \in Sessions |-> "none"]

\* Mutant: session() can be entered on a session that is in use.
Enter_InUse(s) ==
    /\ pc' = [pc EXCEPT ![s] = "body"]
    /\ UNCHANGED <<rows, key, pending, work, conn, calls, added, answers, result>>

\* session(): scoped_session and begin(), which takes no connection yet.
Enter(s) ==
    /\ pc[s] = "out"
    /\ pc' = [pc EXCEPT ![s] = "body"]
    /\ UNCHANGED <<rows, key, pending, work, conn, calls, added, answers, result>>

\* The thread's own code calls session.add.
Add(s, k) ==
    /\ pc[s] = "body"
    /\ calls[s] < MaxCalls
    /\ calls' = [calls EXCEPT ![s] = @ + 1]
    /\ pending' = [pending EXCEPT ![s] = Append(@, k)]
    /\ added' = [added EXCEPT ![s] = @ \cup {k}]
    /\ UNCHANGED <<rows, pc, key, work, conn, answers, result>>

\* get_or_create(session, model, key=k), up to its query.
GetOrCreate(s, k) ==
    /\ pc[s] = "body"
    /\ calls[s] < MaxCalls
    /\ calls' = [calls EXCEPT ![s] = @ + 1]
    /\ pc' = [pc EXCEPT ![s] = "query"]
    /\ key' = [key EXCEPT ![s] = k]
    /\ UNCHANGED <<rows, pending, work, conn, added, answers, result>>

\* A statement needs a connection: the session's own, or a free one.
HasConnection(s) == s \in conn \/ Cardinality(conn) < PoolSize

Answer(s, how) == answers' = [answers EXCEPT ![s] = @ \cup {<<key[s], how>>}]

\* Mutant: a row that was found is returned after a rollback.
QueryFinds_RollsBack(s) ==
    /\ pc[s] = "query"
    /\ HasConnection(s)
    /\ key[s] \in rows
    /\ Answer(s, "found")
    /\ conn' = conn \ {s}
    /\ pending' = [pending EXCEPT ![s] = <<>>]
    /\ pc' = [pc EXCEPT ![s] = "body"]
    /\ key' = [key EXCEPT ![s] = NoKey]
    /\ UNCHANGED <<rows, work, calls, added, result>>

\* The query finds a committed row: it is returned, the transaction stays open.
QueryFinds(s) ==
    /\ pc[s] = "query"
    /\ HasConnection(s)
    /\ key[s] \in rows
    /\ Answer(s, "found")
    /\ conn' = conn \cup {s}
    /\ pc' = [pc EXCEPT ![s] = "body"]
    /\ key' = [key EXCEPT ![s] = NoKey]
    /\ UNCHANGED <<rows, pending, work, calls, added, result>>

\* It finds none (what the session itself added is not flushed, so not seen):
\* a new object is added and the session is committed.
QueryMisses(s) ==
    /\ pc[s] = "query"
    /\ HasConnection(s)
    /\ key[s] \notin rows
    /\ conn' = conn \cup {s}
    /\ pending' = [pending EXCEPT ![s] = Append(@, key[s])]
    /\ pc' = [pc EXCEPT ![s] = "flush"]
    /\ UNCHANGED <<rows, key, work, calls, added, answers, result>>

\* The with statement's body ends normally: session.commit().
Exit(s) ==
    /\ pc[s] = "body"
    /\ pc' = [pc EXCEPT ![s] = "flush"]
    /\ UNCHANGED <<rows, key, pending, work, conn, calls, added, answers, result>>

\* A commit with an object left to insert; k is its key.
Inserting(s, k) ==
    /\ pc[s] = "flush"
    /\ pending[s] # <<>> /\ k = Head(pending[s])
    /\ HasConnection(s)

\* The INSERT of s has to wait for the transaction of t.
WaitsFor(s, t) == t # s /\ \E k \in work[t] : Inserting(s, k)

\* Mutant: a duplicate is skipped (ON CONFLICT DO NOTHING).
Insert_SkipsDuplicate(s) ==
    \E k \in Keys :
        /\ Inserting(s, k)
        /\ conn' = conn \cup {s}
        /\ work' = [work EXCEPT ![s] = @ \cup {k}]
        /\ pending' = [pending EXCEPT ![s] = Tail(@)]
        /\ UNCHANGED <<rows, pc, key, calls, added, answers, result>>

\* One INSERT of the flush.
Insert(s) ==
    \E k \in Keys :
        /\ Inserting(s, k)
        /\ k \notin rows \cup work[s]
        /\ \A t \in Sessions : ~WaitsFor(s, t)
        /\ conn' = conn \cup {s}
        /\ work' = [work EXCEPT ![s] = @ \cup {k}]
        /\ pending' = [pending EXCEPT ![s] = Tail(@)]
        /\ UNCHANGED <<rows, pc, key, calls, added, answers, result>>

\* The commit itself: the transaction ends and its connection is free again.
\* It was the commit of get_or_create if that has a key, or that of session().
Commit(s) ==
    /\ pc[s] = "flush"
    /\ pending[s] = <<>>
    /\ rows' = rows \cup work[s]
    /\ work' = [work EXCEPT ![s] = {}]
    /\ conn' = conn \ {s}
    /\ key' = [key EXCEPT ![s] = NoKey]
    /\ \/ /\ key[s] # NoKey
          /\ Answer(s, "created")
          /\ pc' = [pc EXCEPT ![s] = "body"]
          /\ UNCHANGED result
       \/ /\ key[s] = NoKey
          /\ pc' = [pc EXCEPT ![s] = "ended"]
          /\ result' = [result EXCEPT ![s] = "committed"]
          /\ UNCHANGED answers
    /\ UNCHANGED <<pending, calls, added>>

\* Mutant: the connection is not given back.
RollBack_KeepsConnection(s) ==
    /\ work' = [work EXCEPT ![s] = {}]
    /\ pending' = [pending EXCEPT ![s] = <<>>]
    /\ added' = [added EXCEPT ![s] = {}]
    /\ key' = [key EXCEPT ![s] = NoKey]
    /\ UNCHANGED conn

\* session.rollback(): what the session added and inserted is gone.
RollBack(s) ==
    /\ work' = [work EXCEPT ![s] = {}]
    /\ pending' = [pending EXCEPT ![s] = <<>>]
    /\ added' = [added EXCEPT ![s] = {}]
    /\ key' = [key EXCEPT ![s] = NoKey]
    /\ conn' = conn \ {s}

\* An exception leaves the body of the with statement, or its last commit:
\* session() rolls back, raises DatabaseError and closes.
Abort(s) ==
    /\ RollBack(s)
    /\ pc' = [pc EXCEPT ![s] = "ended"]
    /\ result' = [result EXCEPT ![s] = "DatabaseError"]

\* A statement or a commit raises.  In get_or_create the thread's code may
\* catch the DatabaseError and go on with the session.
Raise(s) ==
    \/ Abort(s)
    \/ /\ key[s] # NoKey
       /\ RollBack(s)
       /\ pc' = [pc EXCEPT ![s] = "body"]
       /\ UNCHANGED result

\* IntegrityError: a row with this key is committed, or the session itself
\* has just inserted one.
Conflict(s) ==
    \E k \in rows \cup work[s] :
        /\ Inserting(s, k)
        /\ IF k = key[s] THEN Answer(s, "conflict") ELSE UNCHANGED answers
        /\ Raise(s)
        /\ UNCHANGED <<rows, calls>>

\* Two or more transactions wait for each other in a circle: PostgreSQL ends
\* one of them with an OperationalError.
Deadlock(s) ==
    /\ \E C \in SUBSET Sessions :
          /\ s \in C
          /\ \A t \in C : \E u \in C : WaitsFor(t, u)
          /\ \A u \in C : \E t \in C : WaitsFor(t, u)
    /\ Raise(s)
    /\ UNCHANGED <<rows, calls, answers>>

\* Mutant: no pool_timeout.
PoolTimeout_Never(s) == FALSE

\* No connection comes free within pool_timeout.
PoolTimeout(s) ==
    /\ pc[s] = "query" \/ (pc[s] = "flush" /\ pending[s] # <<>>)
    /\ ~HasConnection(s)
    /\ Raise(s)
    /\ UNCHANGED <<rows, calls, answers>>

\* A statement or the commit fails with the connection, or no connection can be
\* made; a commit that failed may have been carried out all the same.
DatabaseFails(s) ==
    /\ \/ pc[s] = "query"
       \/ pc[s] = "flush" /\ (pending[s] # <<>> \/ s \in conn)
    /\ \/ UNCHANGED rows
       \/ pc[s] = "flush" /\ pending[s] = <<>> /\ rows' = rows \cup work[s]
    /\ Raise(s)
    /\ UNCHANGED <<calls, answers>>

\* The thread's own code raises, or a call of bulk_insert or execute_raw_sql
\* does: the session refuses what these two pass it before any statement runs.
BodyRaises(s) ==
    /\ pc[s] = "body"
    /\ Abort(s)
    /\ UNCHANGED <<rows, calls, answers>>

\* A session on another table takes a connection, or ends its transaction.
Borrow(o) ==
    /\ o \notin conn
    /\ HasConnection(o)
    /\ conn' = conn \cup {o}
    /\ UNCHANGED <<rows, pc, key, pending, work, calls, added, answers, result>>

Return(o) ==
    /\ o \in conn
    /\ conn' = conn \ {o}
    /\ UNCHANGED <<rows, pc, key, pending, work, calls, added, answers, result>>

Step(s) ==
    \/ QueryFinds(s) \/ QueryMisses(s)
    \/ Insert(s) \/ Conflict(s) \/ Deadlock(s)
    \/ Commit(s)
    \/ PoolTimeout(s)

Next ==
    \/ \E s \in Sessions :
          \/ Enter(s) \/ Exit(s) \/ BodyRaises(s) \/ DatabaseFails(s)
          \/ \E k \in Keys : Add(s, k) \/ GetOrCreate(s, k)
          \/ Step(s)
    \/ \E o \in Others : Borrow(o) \/ Return(o)

Spec == Init /\ [][Next]_vars

\* The database and the pool answer every statement; nothing is assumed of the
\* threads' own code, which may keep its session, and a connection, for ever.
Fairness == \A s \in Sessions : WF_vars(Step(s))

FairSpec == Spec /\ Fairness

----------------------------------------------------------------------------
\* A row that get_or_create returned is committed and stays; and only one call
\* in the whole system is told that it created it.
AnswersHold ==
    \A s \in Sessions, k \in Keys :
        /\ <<k, "created">> \in answers[s] \/ <<k, "found">> \in answers[s] => k \in rows
        /\ <<k, "created">> \in answers[s] =>
              \A t \in Sessions \ {s} : <<k, "created">> \notin answers[t]

\* Nothing is lost in silence: when the with statement ends normally, all that
\* its code added is in the table, except what went with a call that failed;
\* also when a get_or_create committed half of it on the way.
NoSilentLoss ==
    \A s \in Sessions : result[s] = "committed" => added[s] \subseteq rows

\* Connections are not lost: the pool is never overdrawn, a with statement
\* that ended holds none, and uncommitted rows belong to a session that has one.
ConnectionsKept ==
    /\ Cardinality(conn) <= PoolSize
    /\ \A s \in Sessions :
          /\ pc[s] \in {"out", "ended"} => s \notin conn
          /\ work[s] # {} => pc[s] = "flush" /\ s \in conn

\* Every call of get_or_create and every commit ends: waiting for a connection
\* and waiting for another transaction's row both have an end.
CallsEnd == \A s \in Sessions : pc[s] \in {"query", "flush"} ~> pc[s] \in {"body", "ended"}

\* What a session has added and not committed: inserted, or still to be inserted.
Uncommitted == [s \in Sessions |-> work[s] \cup Elements(pending[s])]

Units == INSTANCE UnitOfWork WITH
    table <- rows,
    unit <- Uncommitted,
    told <- answers

\* The flush in several statements, the pool, the waiting and the ways to fail
\* do not show: the table changes by whole units of new rows only, "created" is
\* said in the step that publishes the row, and a unit is published or given up.
ImplementsUnits == Units!Spec

\* The docstring of get_or_create (line 149, "get or create a new record"): a
\* call whose row is there when it ends does not raise for that very row.
GetsOrCreates == \A s \in Sessions, k \in rows : <<k, "conflict">> \notin answers[s]
============================================================================
