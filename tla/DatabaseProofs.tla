--------------------------- MODULE DatabaseProofs ---------------------------
(***************************************************************************)
(* Proofs about Database, for every number of sessions, keys, connections  *)
(* and calls.                                                              *)
(*                                                                         *)
(* That a row is created by one call only rests on LocksHold: uncommitted  *)
(* rows are nobody else's and not committed yet, and a get_or_create that  *)
(* is about to commit has its row among them.  That nothing is lost in     *)
(* silence rests on Accounted: what was added is committed, inserted or    *)
(* still to be inserted.                                                   *)
(***************************************************************************)
EXTENDS Database, FiniteSetTheorems, TLAPS

LEMMA AnswerOK ==
    ASSUME TypeOK, NEW s \in Sessions, key[s] \in Keys,
           NEW how \in {"created", "found", "conflict"}, Answer(s, how)
    PROVE  answers' \in [Sessions -> SUBSET (Keys \X {"created", "found", "conflict"})]
<1> DEFINE A == Keys \X {"created", "found", "conflict"}
<1>1. <<key[s], how>> \in A
  OBVIOUS
<1>2. answers \in [Sessions -> SUBSET A]
  BY DEF TypeOK
<1>3. answers' = [answers EXCEPT ![s] = @ \cup {<<key[s], how>>}]
  BY DEF Answer
<1> HIDE DEF A
<1>4. answers' \in [Sessions -> SUBSET A]
  BY <1>1, <1>2, <1>3
<1> QED
  BY <1>4 DEF A

\* What an exception leaves behind is well typed, in the body or at the end.
LEMMA RollBackOK ==
    ASSUME TypeOK, NEW s \in Sessions, RollBack(s)
    PROVE  /\ work' \in [Sessions -> SUBSET Keys]
           /\ pending' \in [Sessions -> Seq(Keys)]
           /\ added' \in [Sessions -> SUBSET Keys]
           /\ key' \in [Sessions -> Keys \cup {NoKey}]
           /\ key' = [key EXCEPT ![s] = NoKey]
           /\ conn' \in SUBSET (Sessions \cup Others)
<1>1. <<>> \in Seq(Keys) /\ {} \in SUBSET Keys
  OBVIOUS
<1> QED
  BY <1>1 DEF RollBack, TypeOK

LEMMA RaiseOK ==
    ASSUME TypeOK, NEW s \in Sessions, Raise(s) \/ Abort(s),
           rows' \in SUBSET Keys, UNCHANGED calls,
           answers' \in [Sessions -> SUBSET (Keys \X {"created", "found", "conflict"})]
    PROVE  TypeOK'
<1>1. RollBack(s)
  BY DEF Raise, Abort
<1>2. \/ pc' = [pc EXCEPT ![s] = "ended"] /\ result' = [result EXCEPT ![s] = "DatabaseError"]
      \/ pc' = [pc EXCEPT ![s] = "body"] /\ UNCHANGED result
  BY DEF Raise, Abort
<1>3. /\ pc' \in [Sessions -> {"out", "body", "query", "flush", "ended"}]
      /\ result' \in [Sessions -> {"none", "committed", "DatabaseError"}]
  BY <1>2 DEF TypeOK
<1>4. ASSUME NEW t \in Sessions
      PROVE  /\ pc'[t] = "query" => key'[t] # NoKey
             /\ pc'[t] \in {"out", "body", "ended"} => key'[t] = NoKey
  <2>1. key' = [key EXCEPT ![s] = NoKey]
    BY <1>1 DEF RollBack
  <2>2. CASE t = s
    BY <1>2, <2>1, <2>2 DEF TypeOK
  <2>3. CASE t # s
    BY <1>2, <2>1, <2>3 DEF TypeOK
  <2> QED
    BY <2>2, <2>3
<1> QED
  BY <1>1, <1>3, <1>4, RollBackOK DEF TypeOK

\* Type correctness: a session that is in its caller's code has no call of
\* get_or_create in progress.
LEMMA TypeStep == TypeOK /\ [Next]_vars => TypeOK'
<1> SUFFICES ASSUME TypeOK, [Next]_vars PROVE TypeOK'
  OBVIOUS
<1> USE KeysAssumption, MaxCallsAssumption DEF TypeOK
<1>1. ASSUME NEW s \in Sessions, Enter(s) PROVE TypeOK'
  BY <1>1 DEF Enter
<1>2. ASSUME NEW s \in Sessions, NEW k \in Keys, Add(s, k) PROVE TypeOK'
  BY <1>2 DEF Add
<1>3. ASSUME NEW s \in Sessions, NEW k \in Keys, GetOrCreate(s, k) PROVE TypeOK'
  BY <1>3 DEF GetOrCreate
<1>4. ASSUME NEW s \in Sessions, QueryFinds(s) PROVE TypeOK'
  <2>1. key[s] \in Keys /\ Answer(s, "found")
    BY <1>4 DEF QueryFinds
  <2>2. answers' \in [Sessions -> SUBSET (Keys \X {"created", "found", "conflict"})]
    BY <2>1, AnswerOK
  <2> QED
    BY <1>4, <2>2 DEF QueryFinds
<1>5. ASSUME NEW s \in Sessions, QueryMisses(s) PROVE TypeOK'
  BY <1>5 DEF QueryMisses
<1>6. ASSUME NEW s \in Sessions, Exit(s) PROVE TypeOK'
  BY <1>6 DEF Exit
<1>7. ASSUME NEW s \in Sessions, Insert(s) PROVE TypeOK'
  BY <1>7 DEF Insert, Inserting
<1>8. ASSUME NEW s \in Sessions, Commit(s) PROVE TypeOK'
  <2>1. answers' \in [Sessions -> SUBSET (Keys \X {"created", "found", "conflict"})]
    BY <1>8, AnswerOK DEF Commit
  <2> QED
    BY <1>8, <2>1 DEF Commit
<1>9. ASSUME NEW s \in Sessions, Conflict(s) PROVE TypeOK'
  <2>1. Raise(s) /\ UNCHANGED <<rows, calls>>
    BY <1>9 DEF Conflict
  <2>2. answers' \in [Sessions -> SUBSET (Keys \X {"created", "found", "conflict"})]
    BY <1>9, AnswerOK DEF Conflict
  <2> QED
    BY <2>1, <2>2, RaiseOK
<1>10. ASSUME NEW s \in Sessions, Deadlock(s) PROVE TypeOK'
  BY <1>10, RaiseOK DEF Deadlock
<1>11. ASSUME NEW s \in Sessions, PoolTimeout(s) PROVE TypeOK'
  BY <1>11, RaiseOK DEF PoolTimeout
<1>12. ASSUME NEW s \in Sessions, DatabaseFails(s) PROVE TypeOK'
  <2>1. rows' \in SUBSET Keys /\ Raise(s) /\ UNCHANGED <<calls, answers>>
    BY <1>12 DEF DatabaseFails
  <2> QED
    BY <2>1, RaiseOK
<1>13. ASSUME NEW s \in Sessions, BodyRaises(s) PROVE TypeOK'
  BY <1>13, RaiseOK DEF BodyRaises
<1>14. ASSUME NEW o \in Others, Borrow(o) PROVE TypeOK'
  BY <1>14 DEF Borrow
<1>15. ASSUME NEW o \in Others, Return(o) PROVE TypeOK'
  BY <1>15 DEF Return
<1>16. CASE UNCHANGED vars
  BY <1>16 DEF vars
<1> QED
  BY <1>1, <1>2, <1>3, <1>4, <1>5, <1>6, <1>7, <1>8, <1>9, <1>10, <1>11, <1>12,
     <1>13, <1>14, <1>15, <1>16 DEF Next, Step

THEOREM TypeCorrect == Spec => []TypeOK
<1>1. Init => TypeOK
  BY KeysAssumption, MaxCallsAssumption DEF Init, TypeOK
<1> QED
  BY <1>1, TypeStep, PTL DEF Spec
----------------------------------------------------------------------------
\* The elements of a list of pending objects, as it grows and shrinks.
LEMMA ElementsEmpty == Elements(<<>>) = {}
BY DEF Elements

LEMMA ElementsAppend ==
    ASSUME NEW q \in Seq(Keys), NEW k \in Keys
    PROVE  Elements(Append(q, k)) = Elements(q) \cup {k}
<1>1. /\ Len(q) \in Nat /\ Len(Append(q, k)) = Len(q) + 1
      /\ Append(q, k)[Len(q) + 1] = k
      /\ \A i \in 1..Len(q) : Append(q, k)[i] = q[i]
  OBVIOUS
<1>2. 1..(Len(q) + 1) = 1..Len(q) \cup {Len(q) + 1}
  BY <1>1
<1>3. ASSUME NEW x, x \in Elements(Append(q, k)) PROVE x \in Elements(q) \cup {k}
  <2>1. PICK i \in 1..Len(q) \cup {Len(q) + 1} : x = Append(q, k)[i]
    BY <1>1, <1>2, <1>3 DEF Elements
  <2> QED
    BY <1>1, <2>1 DEF Elements
<1>4. ASSUME NEW x, x \in Elements(q) PROVE x \in Elements(Append(q, k))
  <2>1. PICK i \in 1..Len(q) : x = q[i]
    BY <1>4 DEF Elements
  <2>2. x = Append(q, k)[i] /\ i \in 1..Len(Append(q, k))
    BY <1>1, <1>2, <2>1
  <2> QED
    BY <2>2 DEF Elements
<1>5. k \in Elements(Append(q, k))
  BY <1>1 DEF Elements
<1> QED
  BY <1>3, <1>4, <1>5

LEMMA ElementsTail ==
    ASSUME NEW q \in Seq(Keys), q # <<>>
    PROVE  Elements(q) = {Head(q)} \cup Elements(Tail(q))
<1>1. Len(q) \in Nat \ {0} /\ Len(Tail(q)) = Len(q) - 1 /\ Head(q) = q[1]
  OBVIOUS
<1>2. \A i \in 1..Len(Tail(q)) : Tail(q)[i] = q[i + 1]
  OBVIOUS
<1>3. ASSUME NEW x, x \in Elements(q) PROVE x \in {Head(q)} \cup Elements(Tail(q))
  <2>1. PICK i \in 1..Len(q) : x = q[i]
    BY <1>3 DEF Elements
  <2>2. CASE i = 1
    BY <2>1, <2>2, <1>1
  <2>3. CASE i # 1
    <3>1. i - 1 \in 1..Len(Tail(q)) /\ (i - 1) + 1 = i
      BY <1>1, <2>3
    <3>2. x = Tail(q)[i - 1]
      BY <3>1, <2>1, <1>2
    <3> QED
      BY <3>1, <3>2 DEF Elements
  <2> QED
    BY <2>2, <2>3
<1>4. ASSUME NEW x, x \in {Head(q)} \cup Elements(Tail(q)) PROVE x \in Elements(q)
  <2>1. CASE x = Head(q)
    BY <1>1, <2>1 DEF Elements
  <2>2. CASE x \in Elements(Tail(q))
    <3>1. PICK i \in 1..Len(Tail(q)) : x = Tail(q)[i]
      BY <2>2 DEF Elements
    <3>2. i + 1 \in 1..Len(q) /\ x = q[i + 1]
      BY <3>1, <1>1, <1>2
    <3> QED
      BY <3>2 DEF Elements
  <2> QED
    BY <1>4, <2>1, <2>2
<1> QED
  BY <1>3, <1>4

----------------------------------------------------------------------------
\* Uncommitted rows are held by one session and not committed yet, and a
\* get_or_create that commits has its own row still in its hands.
LocksHold ==
    /\ \A s \in Sessions : work[s] \cap rows = {}
    /\ \A s, t \in Sessions : s # t => work[s] \cap work[t] = {}
    /\ \A s \in Sessions : pc[s] = "flush" /\ key[s] # NoKey =>
          key[s] \in work[s] \cup Elements(pending[s])

\* An exception gives up the rows of the session, or its commit was carried
\* out and publishes them: in neither case does it touch another's.
LEMMA RaiseLocks ==
    ASSUME TypeOK, LocksHold, NEW s \in Sessions, Raise(s) \/ Abort(s),
           rows' = rows \/ rows' = rows \cup work[s]
    PROVE  LocksHold'
<1>1. /\ work' = [work EXCEPT ![s] = {}]
      /\ pending' = [pending EXCEPT ![s] = <<>>]
      /\ key' = [key EXCEPT ![s] = NoKey]
      /\ \A t \in Sessions \ {s} : pc'[t] = pc[t]
  BY DEF Raise, Abort, RollBack, TypeOK
<1>2. \A t \in Sessions : work'[t] \cap rows' = {}
  BY <1>1 DEF LocksHold, TypeOK
<1>3. \A t, u \in Sessions : t # u => work'[t] \cap work'[u] = {}
  BY <1>1 DEF LocksHold, TypeOK
<1>4. ASSUME NEW t \in Sessions, pc'[t] = "flush", key'[t] # NoKey
      PROVE  key'[t] \in work'[t] \cup Elements(pending'[t])
  <2>1. t # s
    BY <1>1, <1>4 DEF TypeOK
  <2> QED
    BY <1>1, <1>4, <2>1 DEF LocksHold, TypeOK
<1> QED
  BY <1>2, <1>3, <1>4 DEF LocksHold

LEMMA LocksStep == TypeOK /\ LocksHold /\ [Next]_vars => LocksHold'
<1> SUFFICES ASSUME TypeOK, LocksHold, [Next]_vars PROVE LocksHold'
  OBVIOUS
<1>1. ASSUME NEW s \in Sessions, Enter(s) PROVE LocksHold'
  BY <1>1 DEF Enter, LocksHold, TypeOK
<1>2. ASSUME NEW s \in Sessions, NEW k \in Keys, Add(s, k) PROVE LocksHold'
  BY <1>2 DEF Add, LocksHold, TypeOK
<1>3. ASSUME NEW s \in Sessions, NEW k \in Keys, GetOrCreate(s, k) PROVE LocksHold'
  BY <1>3 DEF GetOrCreate, LocksHold, TypeOK
<1>4. ASSUME NEW s \in Sessions, QueryFinds(s) PROVE LocksHold'
  BY <1>4 DEF QueryFinds, LocksHold, TypeOK
<1>5. ASSUME NEW s \in Sessions, QueryMisses(s) PROVE LocksHold'
  <2>1. key[s] \in Elements(pending'[s])
    BY <1>5, ElementsAppend DEF QueryMisses, TypeOK
  <2>2. \A t \in Sessions \ {s} : pc'[t] = pc[t] /\ pending'[t] = pending[t]
    BY <1>5 DEF QueryMisses, TypeOK
  <2> QED
    BY <1>5, <2>1, <2>2 DEF QueryMisses, LocksHold
<1>6. ASSUME NEW s \in Sessions, Exit(s) PROVE LocksHold'
  BY <1>6 DEF Exit, LocksHold, TypeOK
<1>7. ASSUME NEW s \in Sessions, Insert(s) PROVE LocksHold'
  <2>1. PICK k \in Keys :
          /\ Inserting(s, k)
          /\ k \notin rows \cup work[s]
          /\ \A t \in Sessions : ~WaitsFor(s, t)
          /\ work' = [work EXCEPT ![s] = @ \cup {k}]
          /\ pending' = [pending EXCEPT ![s] = Tail(@)]
          /\ UNCHANGED <<rows, pc, key>>
    BY <1>7 DEF Insert
  <2>2. \A t \in Sessions \ {s} : k \notin work[t]
    BY <2>1 DEF WaitsFor
  <2>3. \A t \in Sessions : work'[t] \cap rows' = {}
    BY <2>1 DEF LocksHold, TypeOK
  <2>4. \A t, u \in Sessions : t # u => work'[t] \cap work'[u] = {}
    BY <2>1, <2>2 DEF LocksHold, TypeOK
  <2>5. ASSUME NEW t \in Sessions, pc'[t] = "flush", key'[t] # NoKey
        PROVE  key'[t] \in work'[t] \cup Elements(pending'[t])
    <3>1. CASE t = s
      <4>1. Elements(pending[s]) = {k} \cup Elements(pending'[s])
        BY <2>1, ElementsTail DEF Inserting, TypeOK
      <4> QED
        BY <2>1, <2>5, <3>1, <4>1 DEF LocksHold, TypeOK
    <3>2. CASE t # s
      BY <2>1, <2>5, <3>2 DEF LocksHold, TypeOK
    <3> QED
      BY <3>1, <3>2
  <2> QED
    BY <2>3, <2>4, <2>5 DEF LocksHold
<1>8. ASSUME NEW s \in Sessions, Commit(s) PROVE LocksHold'
  <2>1. /\ rows' = rows \cup work[s] /\ work' = [work EXCEPT ![s] = {}]
        /\ key' = [key EXCEPT ![s] = NoKey] /\ pending' = pending
        /\ \A t \in Sessions \ {s} : pc'[t] = pc[t]
    BY <1>8 DEF Commit, TypeOK
  <2>2. \A t \in Sessions : work'[t] \cap rows' = {}
    BY <2>1 DEF LocksHold, TypeOK
  <2>3. \A t, u \in Sessions : t # u => work'[t] \cap work'[u] = {}
    BY <2>1 DEF LocksHold, TypeOK
  <2>4. ASSUME NEW t \in Sessions, pc'[t] = "flush", key'[t] # NoKey
        PROVE  key'[t] \in work'[t] \cup Elements(pending'[t])
    <3>1. t # s
      BY <2>1, <2>4 DEF TypeOK
    <3> QED
      BY <2>1, <2>4, <3>1 DEF LocksHold, TypeOK
  <2> QED
    BY <2>2, <2>3, <2>4 DEF LocksHold
<1>9. ASSUME NEW s \in Sessions, Conflict(s) PROVE LocksHold'
  BY <1>9, RaiseLocks DEF Conflict
<1>10. ASSUME NEW s \in Sessions, Deadlock(s) PROVE LocksHold'
  BY <1>10, RaiseLocks DEF Deadlock
<1>11. ASSUME NEW s \in Sessions, PoolTimeout(s) PROVE LocksHold'
  BY <1>11, RaiseLocks DEF PoolTimeout
<1>12. ASSUME NEW s \in Sessions, DatabaseFails(s) PROVE LocksHold'
  BY <1>12, RaiseLocks DEF DatabaseFails
<1>13. ASSUME NEW s \in Sessions, BodyRaises(s) PROVE LocksHold'
  BY <1>13, RaiseLocks DEF BodyRaises
<1>14. ASSUME NEW o \in Others, Borrow(o) \/ Return(o) PROVE LocksHold'
  BY <1>14 DEF Borrow, Return, LocksHold
<1>15. CASE UNCHANGED vars
  BY <1>15 DEF vars, LocksHold
<1> QED
  BY <1>1, <1>2, <1>3, <1>4, <1>5, <1>6, <1>7, <1>8, <1>9, <1>10, <1>11, <1>12,
     <1>13, <1>14, <1>15 DEF Next, Step

----------------------------------------------------------------------------
AnswersInv == TypeOK /\ LocksHold /\ AnswersHold

\* Rows only grow, so an answer that is kept stays true.
LEMMA AnswersKept ==
    ASSUME AnswersHold, rows \subseteq rows', NEW s \in Sessions,
           \/ UNCHANGED answers
           \/ Answer(s, "conflict")
           \/ Answer(s, "found") /\ key[s] \in rows,
           TypeOK
    PROVE  AnswersHold'
<1>1. ASSUME NEW t \in Sessions, NEW k \in Keys
      PROVE  /\ <<k, "created">> \in answers'[t] <=> <<k, "created">> \in answers[t]
             /\ <<k, "found">> \in answers'[t] => <<k, "found">> \in answers[t] \/ k \in rows
  <2>1. CASE UNCHANGED answers
    BY <2>1
  <2>2. CASE Answer(s, "conflict")
    <3>1. answers'[t] \subseteq answers[t] \cup {<<key[s], "conflict">>}
          /\ answers[t] \subseteq answers'[t]
      BY <2>2 DEF Answer, TypeOK
    <3> QED
      BY <3>1
  <2>3. CASE Answer(s, "found") /\ key[s] \in rows
    <3>1. answers'[t] \subseteq answers[t] \cup {<<key[s], "found">>}
          /\ answers[t] \subseteq answers'[t]
      BY <2>3 DEF Answer, TypeOK
    <3> QED
      BY <2>3, <3>1
  <2> QED
    BY <2>1, <2>2, <2>3
<1> QED
  BY <1>1 DEF AnswersHold

LEMMA AnswersStep == AnswersInv /\ [Next]_vars => AnswersHold'
<1> SUFFICES ASSUME AnswersInv, [Next]_vars PROVE AnswersHold'
  OBVIOUS
<1> USE DEF AnswersInv
<1>1. ASSUME NEW s \in Sessions, QueryFinds(s) PROVE AnswersHold'
  BY <1>1, AnswersKept DEF QueryFinds
<1>2. ASSUME NEW s \in Sessions, Commit(s) PROVE AnswersHold'
  <2>1. CASE key[s] = NoKey
    BY <1>2, <2>1, AnswersKept DEF Commit
  <2>2. CASE key[s] # NoKey
    <3>1. rows' = rows \cup work[s] /\ Answer(s, "created")
      BY <1>2, <2>2 DEF Commit
    <3>2. key[s] \in work[s]
      BY <1>2, <2>2, ElementsEmpty DEF Commit, LocksHold
    <3>3. key[s] \notin rows
      BY <3>2 DEF LocksHold
    <3>4. \A t \in Sessions : <<key[s], "created">> \notin answers[t]
      BY <2>2, <3>3 DEF AnswersHold, TypeOK
    <3>5. \A t \in Sessions, k \in Keys :
            /\ <<k, "created">> \in answers'[t] <=>
                  <<k, "created">> \in answers[t] \/ (t = s /\ k = key[s])
            /\ <<k, "found">> \in answers'[t] <=> <<k, "found">> \in answers[t]
      BY <3>1 DEF Answer, TypeOK
    <3> QED
      BY <3>1, <3>2, <3>4, <3>5 DEF AnswersHold
  <2> QED
    BY <2>1, <2>2
<1>3. ASSUME NEW s \in Sessions, Conflict(s) PROVE AnswersHold'
  BY <1>3, AnswersKept DEF Conflict
<1>4. ASSUME NEW s \in Sessions, DatabaseFails(s) PROVE AnswersHold'
  BY <1>4, AnswersKept DEF DatabaseFails
<1>5. ASSUME NEW s \in Sessions,
             Deadlock(s) \/ PoolTimeout(s) \/ BodyRaises(s) \/ Insert(s) \/ QueryMisses(s)
      PROVE AnswersHold'
  BY <1>5, AnswersKept DEF Deadlock, PoolTimeout, BodyRaises, Insert, QueryMisses
<1>6. ASSUME NEW s \in Sessions, NEW k \in Keys,
             Add(s, k) \/ GetOrCreate(s, k)
      PROVE AnswersHold'
  BY <1>6, AnswersKept DEF Add, GetOrCreate
<1>7. ASSUME NEW s \in Sessions, Enter(s) \/ Exit(s) PROVE AnswersHold'
  BY <1>7, AnswersKept DEF Enter, Exit
<1>8. CASE UNCHANGED <<rows, answers>>
  BY <1>8 DEF AnswersHold
<1> QED
  BY <1>1, <1>2, <1>3, <1>4, <1>5, <1>6, <1>7, <1>8 DEF Next, Step, Borrow, Return, vars

\* What get_or_create returned is in the table and stays there, and no two
\* sessions are told that they created the same row.
THEOREM AnswersTrue == Spec => []AnswersHold
<1>1. Init => AnswersInv
  BY KeysAssumption, MaxCallsAssumption DEF Init, AnswersInv, TypeOK, LocksHold, AnswersHold
<1>2. AnswersInv /\ [Next]_vars => AnswersInv'
  BY TypeStep, LocksStep, AnswersStep DEF AnswersInv
<1>3. AnswersInv => AnswersHold
  BY DEF AnswersInv
<1> QED
  BY <1>1, <1>2, <1>3, PTL DEF Spec

----------------------------------------------------------------------------
\* What a session added is committed, inserted or still to be inserted, and a
\* with statement that ended normally leaves no part of it behind.
Accounted ==
    /\ \A s \in Sessions : added[s] \subseteq rows \cup work[s] \cup Elements(pending[s])
    /\ \A s \in Sessions : result[s] = "committed" => pc[s] = "ended" /\ added[s] \subseteq rows

\* An exception gives up what the session added, and never says "committed".
LEMMA RaiseAccount ==
    ASSUME TypeOK, Accounted, NEW s \in Sessions, pc[s] # "ended",
           Raise(s) \/ Abort(s), rows \subseteq rows'
    PROVE  Accounted'
<1>1. /\ added' = [added EXCEPT ![s] = {}]
      /\ \A t \in Sessions \ {s} : work'[t] = work[t] /\ pending'[t] = pending[t]
      /\ \A t \in Sessions \ {s} : pc'[t] = pc[t] /\ result'[t] = result[t]
      /\ result'[s] \in {"DatabaseError", result[s]}
  BY DEF Raise, Abort, RollBack, TypeOK
<1>2. result[s] # "committed"
  BY DEF Accounted
<1>3. ASSUME NEW t \in Sessions
      PROVE  /\ added'[t] \subseteq rows' \cup work'[t] \cup Elements(pending'[t])
             /\ result'[t] = "committed" => pc'[t] = "ended" /\ added'[t] \subseteq rows'
  <2>1. CASE t = s
    BY <1>1, <1>2, <2>1 DEF TypeOK
  <2>2. CASE t # s
    BY <1>1, <2>2 DEF Accounted, TypeOK
  <2> QED
    BY <2>1, <2>2
<1> QED
  BY <1>3 DEF Accounted

LEMMA AccountStep == TypeOK /\ Accounted /\ [Next]_vars => Accounted'
<1> SUFFICES ASSUME TypeOK, Accounted, [Next]_vars PROVE Accounted'
  OBVIOUS
<1>1. ASSUME NEW s \in Sessions, Enter(s) PROVE Accounted'
  BY <1>1 DEF Enter, Accounted, TypeOK
<1>2. ASSUME NEW s \in Sessions, NEW k \in Keys, Add(s, k) PROVE Accounted'
  <2>1. Elements(pending'[s]) = Elements(pending[s]) \cup {k}
    BY <1>2, ElementsAppend DEF Add, TypeOK
  <2>2. /\ added' = [added EXCEPT ![s] = @ \cup {k}]
        /\ \A t \in Sessions \ {s} : pending'[t] = pending[t]
        /\ pc[s] = "body" /\ UNCHANGED <<rows, pc, work, result>>
    BY <1>2 DEF Add, TypeOK
  <2> QED
    BY <2>1, <2>2 DEF Accounted, TypeOK
<1>3. ASSUME NEW s \in Sessions, NEW k \in Keys, GetOrCreate(s, k) PROVE Accounted'
  BY <1>3 DEF GetOrCreate, Accounted, TypeOK
<1>4. ASSUME NEW s \in Sessions, QueryFinds(s) PROVE Accounted'
  BY <1>4 DEF QueryFinds, Accounted, TypeOK
<1>5. ASSUME NEW s \in Sessions, QueryMisses(s) PROVE Accounted'
  <2>1. key[s] \in Keys
    BY <1>5 DEF QueryMisses, TypeOK
  <2>2. Elements(pending'[s]) = Elements(pending[s]) \cup {key[s]}
    BY <1>5, <2>1, ElementsAppend DEF QueryMisses, TypeOK
  <2>3. /\ \A t \in Sessions \ {s} : pending'[t] = pending[t] /\ pc'[t] = pc[t]
        /\ pc[s] = "query" /\ UNCHANGED <<rows, work, added, result>>
    BY <1>5 DEF QueryMisses, TypeOK
  <2> QED
    BY <2>2, <2>3 DEF Accounted
<1>6. ASSUME NEW s \in Sessions, Exit(s) PROVE Accounted'
  BY <1>6 DEF Exit, Accounted, TypeOK
<1>7. ASSUME NEW s \in Sessions, Insert(s) PROVE Accounted'
  <2>1. PICK k \in Keys :
          /\ pending[s] # <<>> /\ k = Head(pending[s])
          /\ work' = [work EXCEPT ![s] = @ \cup {k}]
          /\ pending' = [pending EXCEPT ![s] = Tail(@)]
          /\ UNCHANGED <<rows, pc, added, result>>
    BY <1>7 DEF Insert, Inserting
  <2>2. Elements(pending[s]) = {k} \cup Elements(pending'[s])
    BY <2>1, ElementsTail DEF TypeOK
  <2> QED
    BY <2>1, <2>2 DEF Accounted, TypeOK
<1>8. ASSUME NEW s \in Sessions, Commit(s) PROVE Accounted'
  <2>1. /\ rows' = rows \cup work[s] /\ pending[s] = <<>> /\ pc[s] = "flush"
        /\ UNCHANGED <<pending, added>>
        /\ \A t \in Sessions \ {s} :
              work'[t] = work[t] /\ pc'[t] = pc[t] /\ result'[t] = result[t]
        /\ result'[s] = "committed" => pc'[s] = "ended" \/ result[s] = "committed"
    BY <1>8 DEF Commit, TypeOK
  <2>2. added[s] \subseteq rows'
    BY <2>1, ElementsEmpty DEF Accounted
  <2> QED
    BY <2>1, <2>2 DEF Accounted
<1>9. ASSUME NEW s \in Sessions, Conflict(s) PROVE Accounted'
  BY <1>9, RaiseAccount DEF Conflict, Inserting
<1>10. ASSUME NEW s \in Sessions, Deadlock(s) PROVE Accounted'
  <2>1. pc[s] = "flush"
    BY <1>10 DEF Deadlock, WaitsFor, Inserting
  <2> QED
    BY <1>10, <2>1, RaiseAccount DEF Deadlock
<1>11. ASSUME NEW s \in Sessions, PoolTimeout(s) PROVE Accounted'
  BY <1>11, RaiseAccount DEF PoolTimeout
<1>12. ASSUME NEW s \in Sessions, DatabaseFails(s) PROVE Accounted'
  BY <1>12, RaiseAccount DEF DatabaseFails
<1>13. ASSUME NEW s \in Sessions, BodyRaises(s) PROVE Accounted'
  BY <1>13, RaiseAccount DEF BodyRaises
<1>14. ASSUME NEW o \in Others, Borrow(o) \/ Return(o) PROVE Accounted'
  BY <1>14 DEF Borrow, Return, Accounted
<1>15. CASE UNCHANGED vars
  BY <1>15 DEF vars, Accounted
<1> QED
  BY <1>1, <1>2, <1>3, <1>4, <1>5, <1>6, <1>7, <1>8, <1>9, <1>10, <1>11, <1>12,
     <1>13, <1>14, <1>15 DEF Next, Step

\* A with statement that ended normally has everything its code added in the
\* table, whatever get_or_create committed or rolled back on the way.
THEOREM NothingLost == Spec => []NoSilentLoss
<1>1. Init => TypeOK /\ Accounted
  BY KeysAssumption, MaxCallsAssumption DEF Init, TypeOK, Accounted
<1>2. TypeOK /\ Accounted /\ [Next]_vars => (TypeOK /\ Accounted)'
  BY TypeStep, AccountStep
<1>3. TypeOK /\ Accounted => NoSilentLoss
  BY DEF Accounted, NoSilentLoss
<1> QED
  BY <1>1, <1>2, <1>3, PTL DEF Spec

----------------------------------------------------------------------------
ConnInv == TypeOK /\ ConnectionsKept

\* Taking a connection when there is one never overdraws the pool, and giving
\* one back does not either.
LEMMA ConnFinite == TypeOK => IsFiniteSet(conn)
<1>1. IsFiniteSet(Sessions \cup Others)
  BY SessionsAssumption, FS_Union
<1> QED
  BY <1>1, FS_Subset DEF TypeOK

LEMMA PoolKept ==
    ASSUME TypeOK, Cardinality(conn) <= PoolSize, NEW x,
           \/ HasConnection(x) /\ conn' = conn \cup {x}
           \/ conn' = conn \ {x}
           \/ conn' = conn
    PROVE  Cardinality(conn') <= PoolSize
<1>1. IsFiniteSet(conn) /\ Cardinality(conn) \in Nat
  BY ConnFinite, FS_CardinalityType
<1>2. CASE HasConnection(x) /\ conn' = conn \cup {x}
  <2>1. CASE x \in conn
    <3>1. conn \cup {x} = conn
      BY <2>1
    <3> QED
      BY <1>2, <3>1
  <2>2. CASE x \notin conn
    <3>1. Cardinality(conn') = Cardinality(conn) + 1
      BY <1>1, <1>2, <2>2, FS_AddElement
    <3>2. Cardinality(conn) < PoolSize
      BY <1>2, <2>2 DEF HasConnection
    <3> QED
      BY <1>1, <3>1, <3>2, PoolAssumption
  <2> QED
    BY <2>1, <2>2
<1>3. CASE conn' = conn \ {x}
  <2>1. Cardinality(conn') <= Cardinality(conn) /\ Cardinality(conn') \in Nat
    BY <1>1, <1>3, FS_Subset, FS_CardinalityType
  <2> QED
    BY <1>1, <2>1, PoolAssumption
<1> QED
  BY <1>2, <1>3

\* A session holds a connection only between its first statement and the end
\* of its transaction, also when that end is an exception.
LEMMA ConnStep == ConnInv /\ [Next]_vars => ConnectionsKept'
<1> SUFFICES ASSUME ConnInv, [Next]_vars PROVE ConnectionsKept'
  OBVIOUS
<1> USE DEF ConnInv
<1> DEFINE Held == \A s \in Sessions :
             /\ pc[s] \in {"out", "ended"} => s \notin conn
             /\ work[s] # {} => pc[s] = "flush" /\ s \in conn
<1>1. Held
  BY DEF ConnectionsKept
<1>2. ASSUME NEW s \in Sessions, NEW k \in Keys,
             Add(s, k) \/ GetOrCreate(s, k)
      PROVE  Held' /\ conn' = conn
  BY <1>1, <1>2 DEF Add, GetOrCreate, TypeOK
<1>3. ASSUME NEW s \in Sessions, Enter(s) \/ Exit(s) PROVE Held' /\ conn' = conn
  BY <1>1, <1>3 DEF Enter, Exit, TypeOK
<1>4. ASSUME NEW s \in Sessions, QueryFinds(s) \/ QueryMisses(s) \/ Insert(s)
      PROVE  Held' /\ HasConnection(s) /\ conn' = conn \cup {s}
  <2>1. CASE QueryFinds(s)
    BY <1>1, <2>1 DEF QueryFinds, TypeOK
  <2>2. CASE QueryMisses(s)
    BY <1>1, <2>2 DEF QueryMisses, TypeOK
  <2>3. CASE Insert(s)
    BY <1>1, <2>3 DEF Insert, Inserting, TypeOK
  <2> QED
    BY <1>4, <2>1, <2>2, <2>3
<1>5. ASSUME NEW s \in Sessions, Commit(s) PROVE Held' /\ conn' = conn \ {s}
  BY <1>1, <1>5 DEF Commit, TypeOK
<1>6. ASSUME NEW s \in Sessions, Raise(s) \/ Abort(s) PROVE Held' /\ conn' = conn \ {s}
  BY <1>1, <1>6 DEF Raise, Abort, RollBack, TypeOK
<1>7. ASSUME NEW o \in Others, Borrow(o)
      PROVE  Held' /\ HasConnection(o) /\ conn' = conn \cup {o}
  BY <1>1, <1>7, OthersAssumption DEF Borrow
<1>8. ASSUME NEW o \in Others, Return(o) PROVE Held' /\ conn' = conn \ {o}
  BY <1>1, <1>8, OthersAssumption DEF Return
<1>9. CASE UNCHANGED vars
  BY <1>1, <1>9 DEF vars, ConnectionsKept
<1>10. Held' /\ (UNCHANGED conn \/ \E x : \/ HasConnection(x) /\ conn' = conn \cup {x}
                                       \/ conn' = conn \ {x})
  BY <1>1, <1>2, <1>3, <1>4, <1>5, <1>6, <1>7, <1>8, <1>9
     DEF Next, Step, Conflict, Deadlock, PoolTimeout, DatabaseFails, BodyRaises, vars
<1>11. Cardinality(conn') <= PoolSize
  BY <1>10, PoolKept DEF ConnectionsKept
<1> QED
  BY <1>10, <1>11 DEF ConnectionsKept

\* The pool is never overdrawn, and a with statement that ended, in whatever
\* way, has given its connection back.
THEOREM ConnectionsHold == Spec => []ConnectionsKept
<1>1. Init => ConnInv
  <2>1. Init => Cardinality({}) <= PoolSize
    BY FS_EmptySet, PoolAssumption
  <2> QED
    BY <2>1, KeysAssumption, MaxCallsAssumption DEF Init, ConnInv, TypeOK, ConnectionsKept
<1>2. ConnInv /\ [Next]_vars => ConnInv'
  BY TypeStep, ConnStep DEF ConnInv
<1>3. ConnInv => ConnectionsKept
  BY DEF ConnInv
<1> QED
  BY <1>1, <1>2, <1>3, PTL DEF Spec

----------------------------------------------------------------------------
\* ImplementsUnits: Database implements UnitOfWork.  A with statement that did
\* not end has no result yet.
Ongoing == \A s \in Sessions : pc[s] # "ended" => result[s] = "none"

LEMMA OngoingStep == TypeOK /\ Ongoing /\ [Next]_vars => Ongoing'
<1> SUFFICES ASSUME TypeOK, Ongoing, [Next]_vars PROVE Ongoing'
  OBVIOUS
<1> USE DEF Ongoing, TypeOK
<1>1. ASSUME NEW s \in Sessions, NEW k \in Keys, Add(s, k) \/ GetOrCreate(s, k) PROVE Ongoing'
  BY <1>1 DEF Add, GetOrCreate
<1>2. ASSUME NEW s \in Sessions, Enter(s) \/ Exit(s) PROVE Ongoing'
  BY <1>2 DEF Enter, Exit
<1>3. ASSUME NEW s \in Sessions, QueryFinds(s) \/ QueryMisses(s) \/ Insert(s) PROVE Ongoing'
  BY <1>3 DEF QueryFinds, QueryMisses, Insert, Inserting
<1>4. ASSUME NEW s \in Sessions, Commit(s) PROVE Ongoing'
  BY <1>4 DEF Commit
<1>5. ASSUME NEW s \in Sessions, pc[s] # "ended", Raise(s) \/ Abort(s) PROVE Ongoing'
  BY <1>5 DEF Raise, Abort
<1>6. ASSUME NEW s \in Sessions,
             Conflict(s) \/ Deadlock(s) \/ PoolTimeout(s) \/ DatabaseFails(s) \/ BodyRaises(s)
      PROVE  Ongoing'
  BY <1>5, <1>6 DEF Conflict, Deadlock, WaitsFor, Inserting, PoolTimeout, DatabaseFails, BodyRaises
<1>7. ASSUME NEW o \in Others, Borrow(o) \/ Return(o) PROVE Ongoing'
  BY <1>7 DEF Borrow, Return
<1>8. CASE UNCHANGED vars
  BY <1>8 DEF vars
<1> QED
  BY <1>1, <1>2, <1>3, <1>4, <1>6, <1>7, <1>8 DEF Next, Step

\* What the statements of the model do to the unit of a session.
LEMMA UnitKept ==
    UNCHANGED <<work, pending>> => Uncommitted' = Uncommitted
BY DEF Uncommitted

LEMMA UnitGrows ==
    ASSUME TypeOK, NEW s \in Sessions, NEW k \in Keys, UNCHANGED work,
           pending' = [pending EXCEPT ![s] = Append(@, k)]
    PROVE  Uncommitted' = [Uncommitted EXCEPT ![s] = @ \cup {k}]
<1>1. Elements(pending'[s]) = Elements(pending[s]) \cup {k}
  BY ElementsAppend DEF TypeOK
<1>2. \A t \in Sessions \ {s} : pending'[t] = pending[t]
  BY DEF TypeOK
<1> QED
  BY <1>1, <1>2 DEF Uncommitted

LEMMA UnitInserted ==
    ASSUME TypeOK, NEW s \in Sessions, pending[s] # <<>>,
           work' = [work EXCEPT ![s] = @ \cup {Head(pending[s])}],
           pending' = [pending EXCEPT ![s] = Tail(@)]
    PROVE  Uncommitted' = Uncommitted
<1>1. Elements(pending[s]) = {Head(pending[s])} \cup Elements(pending'[s])
  BY ElementsTail DEF TypeOK
<1>2. work'[s] = work[s] \cup {Head(pending[s])}
  BY DEF TypeOK
<1>3. \A t \in Sessions \ {s} : pending'[t] = pending[t] /\ work'[t] = work[t]
  BY DEF TypeOK
<1> QED
  BY <1>1, <1>2, <1>3 DEF Uncommitted

LEMMA UnitCleared ==
    ASSUME TypeOK, NEW s \in Sessions, work' = [work EXCEPT ![s] = {}],
           pending' = [pending EXCEPT ![s] = <<>>]
    PROVE  Uncommitted' = [Uncommitted EXCEPT ![s] = {}]
<1>1. work'[s] = {} /\ Elements(pending'[s]) = {}
  BY ElementsEmpty DEF TypeOK
<1>2. \A t \in Sessions \ {s} : pending'[t] = pending[t] /\ work'[t] = work[t]
  BY DEF TypeOK
<1> QED
  BY <1>1, <1>2 DEF Uncommitted

\* A flush that is done has the whole unit in its transaction, and it is new.
LEMMA UnitFlushed ==
    ASSUME LocksHold, NEW s \in Sessions, pending[s] = <<>>
    PROVE  Uncommitted[s] = work[s] /\ Uncommitted[s] \cap rows = {}
BY ElementsEmpty DEF Uncommitted, LocksHold

\* Every exception is a failure of the abstract session, also when the commit
\* was carried out and only its answer was lost.
LEMMA UnitFails ==
    ASSUME TypeOK, LocksHold, NEW s \in Sessions, Raise(s) \/ Abort(s),
           \/ /\ UNCHANGED rows
              /\ UNCHANGED answers \/ \E k \in Uncommitted[s] : Units!Tell(s, k, "conflict")
           \/ /\ pending[s] = <<>> /\ rows' = rows \cup work[s]
              /\ UNCHANGED answers
    PROVE  Units!Fail(s)
<1>1. Uncommitted' = [Uncommitted EXCEPT ![s] = {}]
  <2>1. RollBack(s)
    BY DEF Raise, Abort
  <2> QED
    BY <2>1, UnitCleared DEF RollBack
<1>2. UNCHANGED result \/ result' = [result EXCEPT ![s] = "DatabaseError"]
  BY DEF Raise, Abort
<1>3. CASE UNCHANGED rows /\ (UNCHANGED answers \/ \E k \in Uncommitted[s] : Units!Tell(s, k, "conflict"))
  BY <1>1, <1>2, <1>3 DEF Units!Fail
<1>4. CASE pending[s] = <<>> /\ rows' = rows \cup work[s] /\ UNCHANGED answers
  <2>1. Units!Publish(s)
    BY <1>1, <1>4, UnitFlushed DEF Units!Publish
  <2> QED
    BY <1>2, <1>4, <2>1 DEF Units!Fail
<1> QED
  BY <1>3, <1>4

UnitsInv == TypeOK /\ LocksHold /\ Ongoing

LEMMA UnitsStep == UnitsInv /\ [Next]_vars => [Units!Next]_(Units!vars)
<1> SUFFICES ASSUME UnitsInv, [Next]_vars PROVE Units!Next \/ UNCHANGED Units!vars
  BY DEF Units!vars
<1> USE DEF UnitsInv
<1>1. ASSUME NEW s \in Sessions, NEW k \in Keys, Add(s, k) PROVE Units!Next
  <2>1. Units!Add(s, k)
    BY <1>1, UnitGrows DEF Add, Units!Add
  <2>2. result[s] = "none"
    BY <1>1 DEF Add, Ongoing
  <2> QED
    BY <2>1, <2>2 DEF Units!Next
<1>2. ASSUME NEW s \in Sessions, NEW k \in Keys, GetOrCreate(s, k) PROVE UNCHANGED Units!vars
  BY <1>2, UnitKept DEF GetOrCreate, Units!vars
<1>3. ASSUME NEW s \in Sessions, Enter(s) \/ Exit(s) PROVE UNCHANGED Units!vars
  BY <1>3, UnitKept DEF Enter, Exit, Units!vars
<1>4. ASSUME NEW s \in Sessions, QueryFinds(s) PROVE Units!Next
  <2>1. key[s] \in Keys
    BY <1>4 DEF QueryFinds, TypeOK
  <2>2. Units!Find(s, key[s])
    BY <1>4, UnitKept DEF QueryFinds, Answer, Units!Find, Units!Tell
  <2>3. result[s] = "none"
    BY <1>4 DEF QueryFinds, Ongoing
  <2> QED
    BY <2>1, <2>2, <2>3 DEF Units!Next
<1>5. ASSUME NEW s \in Sessions, QueryMisses(s) PROVE Units!Next
  <2>1. key[s] \in Keys
    BY <1>5 DEF QueryMisses, TypeOK
  <2>2. Units!Add(s, key[s])
    BY <1>5, <2>1, UnitGrows DEF QueryMisses, Units!Add
  <2>3. result[s] = "none"
    BY <1>5 DEF QueryMisses, Ongoing
  <2> QED
    BY <2>1, <2>2, <2>3 DEF Units!Next
<1>6. ASSUME NEW s \in Sessions, Insert(s) PROVE UNCHANGED Units!vars
  BY <1>6, UnitInserted DEF Insert, Inserting, Units!vars
<1>7. ASSUME NEW s \in Sessions, Commit(s) PROVE Units!Next
  <2>1. Uncommitted[s] = work[s] /\ Uncommitted[s] \cap rows = {}
    BY <1>7, UnitFlushed DEF Commit
  <2>2. pending' = [pending EXCEPT ![s] = <<>>]
    BY <1>7 DEF Commit, TypeOK
  <2>3. Units!Publish(s)
    BY <1>7, <2>1, <2>2, UnitCleared DEF Commit, Units!Publish
  <2>4. result[s] = "none"
    BY <1>7 DEF Commit, Ongoing
  <2>5. CASE key[s] = NoKey
    <3>1. Units!Finish(s)
      BY <1>7, <2>3, <2>5 DEF Commit, Units!Finish
    <3> QED
      BY <2>4, <3>1 DEF Units!Next
  <2>6. CASE key[s] # NoKey
    <3>1. key[s] \in Keys
      BY <2>6 DEF TypeOK
    <3>2. key[s] \in Uncommitted[s]
      BY <1>7, <2>1, <2>6, ElementsEmpty DEF Commit, LocksHold
    <3>3. Units!Create(s, key[s])
      BY <1>7, <2>3, <2>6, <3>2 DEF Commit, Answer, Units!Create, Units!Tell
    <3> QED
      BY <2>4, <3>1, <3>3 DEF Units!Next
  <2> QED
    BY <2>5, <2>6
<1>8. ASSUME NEW s \in Sessions, Units!Fail(s), pc[s] # "ended" PROVE Units!Next
  BY <1>8 DEF Units!Next, Ongoing
<1>9. ASSUME NEW s \in Sessions, Conflict(s) PROVE Units!Next
  <2>1. PICK k \in rows \cup work[s] :
          /\ Inserting(s, k)
          /\ IF k = key[s] THEN Answer(s, "conflict") ELSE UNCHANGED answers
    BY <1>9 DEF Conflict
  <2>2. k \in Uncommitted[s]
    BY <2>1, ElementsTail DEF Inserting, Uncommitted, TypeOK
  <2>3. UNCHANGED answers \/ Units!Tell(s, k, "conflict")
    BY <2>1 DEF Answer, Units!Tell
  <2>4. Raise(s) /\ UNCHANGED rows
    BY <1>9 DEF Conflict
  <2>5. Units!Fail(s)
    BY <2>2, <2>3, <2>4, UnitFails
  <2> QED
    BY <1>8, <2>1, <2>5 DEF Inserting
<1>10. ASSUME NEW s \in Sessions, Deadlock(s) PROVE Units!Next
  <2>1. pc[s] = "flush"
    BY <1>10 DEF Deadlock, WaitsFor, Inserting
  <2> QED
    BY <1>8, <1>10, <2>1, UnitFails DEF Deadlock
<1>11. ASSUME NEW s \in Sessions, PoolTimeout(s) PROVE Units!Next
  BY <1>8, <1>11, UnitFails DEF PoolTimeout
<1>12. ASSUME NEW s \in Sessions, DatabaseFails(s) PROVE Units!Next
  <2>1. Units!Fail(s)
    BY <1>12, UnitFails DEF DatabaseFails
  <2> QED
    BY <1>8, <1>12, <2>1 DEF DatabaseFails
<1>13. ASSUME NEW s \in Sessions, BodyRaises(s) PROVE Units!Next
  BY <1>8, <1>13, UnitFails DEF BodyRaises
<1>14. ASSUME NEW o \in Others, Borrow(o) \/ Return(o) PROVE UNCHANGED Units!vars
  BY <1>14, UnitKept DEF Borrow, Return, Units!vars
<1>15. CASE UNCHANGED vars
  BY <1>15, UnitKept DEF vars, Units!vars
<1> QED
  BY <1>1, <1>2, <1>3, <1>4, <1>5, <1>6, <1>7, <1>9, <1>10, <1>11, <1>12,
     <1>13, <1>14, <1>15 DEF Next, Step

\* Whatever is flushed, waited for or rolled back, the table changes by whole
\* units of new rows, and "created" is said when the row is published.
THEOREM UnitsImplemented == Spec => ImplementsUnits
<1>1. Init => UnitsInv
  BY KeysAssumption, MaxCallsAssumption DEF Init, UnitsInv, TypeOK, LocksHold, Ongoing
<1>2. UnitsInv /\ [Next]_vars => UnitsInv'
  BY TypeStep, LocksStep, OngoingStep DEF UnitsInv
<1>3. Init => Units!Init
  BY ElementsEmpty DEF Init, Units!Init, Uncommitted
<1> QED
  BY <1>1, <1>2, <1>3, UnitsStep, PTL DEF Spec, ImplementsUnits, Units!Spec
=============================================================================
