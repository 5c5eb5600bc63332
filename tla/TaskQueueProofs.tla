-------------------------- MODULE TaskQueueProofs --------------------------
(***************************************************************************)
(* Proofs about TaskQueue, for every number of consumers and of tasks.     *)
(*                                                                         *)
(* Custody is inductive once it is known that a task that has not been put *)
(* has no future yet (Fresh).  The bound on the tasks run after shutdown   *)
(* counts, with the tasks already taken late, the consumers that were      *)
(* inside get() and can still take one (LateBudget).  Only the end of a    *)
(* task changes who is dead and what is dropped (OthersQuiet), by one each *)
(* (DropsCost).  For the ledger every task has one entry (EntryOf); a get  *)
(* finds a free slot because its consumer is neither dead nor busy.        *)
(***************************************************************************)
EXTENDS TaskQueue, FiniteSetTheorems, TLAPS

\* Type correctness: a consumer holds a task exactly while it runs one.
THEOREM TypeCorrect == Spec => []TypeOK
<1>1. Init => TypeOK
  BY TasksAssumption DEF Init, TypeOK
<1>2. TypeOK /\ [Next]_vars => TypeOK'
  <2> SUFFICES ASSUME TypeOK, [Next]_vars PROVE TypeOK'
    OBVIOUS
  <2> USE TasksAssumption DEF TypeOK
  <2>1. ASSUME NEW t \in Tasks, CheckRunning(t) PROVE TypeOK'
    BY <2>1 DEF CheckRunning
  <2>2. ASSUME NEW t \in Tasks, Put(t) PROVE TypeOK'
    BY <2>2 DEF Put
  <2>3. ASSUME NEW t \in Tasks, Resume(t) PROVE TypeOK'
    BY <2>3 DEF Resume
  <2>4. ASSUME NEW t \in Tasks, Cancel(t) PROVE TypeOK'
    BY <2>4 DEF Cancel
  <2>5. ASSUME NEW w \in Workers, Loop(w) PROVE TypeOK'
    BY <2>5 DEF Loop
  <2>6. ASSUME NEW w \in Workers, Get(w) PROVE TypeOK'
    BY <2>6 DEF Get
  <2>7. ASSUME NEW w \in Workers, GetEmpty(w) PROVE TypeOK'
    BY <2>7 DEF GetEmpty
  <2>8. ASSUME NEW w \in Workers, NEW end \in EndKinds, Finish(w, end) PROVE TypeOK'
    BY <2>8 DEF Finish
  <2>9. CASE Shutdown
    BY <2>9 DEF Shutdown
  <2>10. CASE Join
    BY <2>10 DEF Join
  <2>11. CASE UNCHANGED vars
    BY <2>11 DEF vars
  <2> QED
    BY <2>1, <2>2, <2>3, <2>4, <2>5, <2>6, <2>7, <2>8, <2>9, <2>10, <2>11
    DEF Next, Consume
<1> QED
  BY <1>1, <1>2, PTL DEF Spec

----------------------------------------------------------------------------
\* A task that was not put yet has no future.
Fresh == \A t \in Tasks : caller[t] \in {"new", "checked", "refused"} => future[t] = "none"

IInv == TypeOK /\ Custody /\ Fresh

\* Taking the head of the queue: what is left, and what was taken.
LEMMA TakeHead ==
    ASSUME NEW s \in Seq(Tasks), s # <<>>,
           \A i, j \in 1..Len(s) : s[i] = s[j] => i = j
    PROVE  /\ Head(s) \in {s[i] : i \in 1..Len(s)}
           /\ {Tail(s)[i] : i \in 1..Len(Tail(s))} = {s[i] : i \in 1..Len(s)} \ {Head(s)}
           /\ \A i, j \in 1..Len(Tail(s)) : Tail(s)[i] = Tail(s)[j] => i = j
<1>1. /\ Len(s) \in Nat \ {0} /\ Head(s) = s[1]
      /\ Tail(s) \in Seq(Tasks) /\ Len(Tail(s)) = Len(s) - 1
      /\ \A i \in 1..Len(Tail(s)) : Tail(s)[i] = s[i + 1]
  OBVIOUS
<1>2. \A i \in 2..Len(s) : i - 1 \in 1..Len(Tail(s)) /\ s[i] = Tail(s)[i - 1]
  BY <1>1
<1>3. \A i \in 1..Len(s) : i = 1 \/ i \in 2..Len(s)
  BY <1>1
<1>4. {Tail(s)[i] : i \in 1..Len(Tail(s))} \subseteq {s[i] : i \in 1..Len(s)} \ {Head(s)}
  BY <1>1
<1>5. {s[i] : i \in 1..Len(s)} \ {Head(s)} \subseteq {Tail(s)[i] : i \in 1..Len(Tail(s))}
  <2> SUFFICES ASSUME NEW k \in 1..Len(s), s[k] # Head(s)
               PROVE  \E i \in 1..Len(Tail(s)) : s[k] = Tail(s)[i]
    OBVIOUS
  <2>1. k \in 2..Len(s)
    BY <1>1, <1>3
  <2> QED
    BY <1>2, <2>1
<1>6. ASSUME NEW i \in 1..Len(Tail(s)), NEW j \in 1..Len(Tail(s)), Tail(s)[i] = Tail(s)[j]
      PROVE  i = j
  <2>1. i + 1 \in 1..Len(s) /\ j + 1 \in 1..Len(s) /\ s[i + 1] = s[j + 1]
    BY <1>1, <1>6
  <2> QED
    BY <2>1
<1> QED
  BY <1>1, <1>4, <1>5, <1>6

\* Adding at the end of the queue.
LEMMA AddLast ==
    ASSUME NEW s \in Seq(Tasks), NEW t \in Tasks, t \notin {s[i] : i \in 1..Len(s)},
           \A i, j \in 1..Len(s) : s[i] = s[j] => i = j
    PROVE  /\ {Append(s, t)[i] : i \in 1..Len(Append(s, t))} = {s[i] : i \in 1..Len(s)} \cup {t}
           /\ \A i, j \in 1..Len(Append(s, t)) : Append(s, t)[i] = Append(s, t)[j] => i = j
OBVIOUS

\* A step that leaves the queue and the consumers' hands alone keeps Custody
\* when it keeps the open futures open.
LEMMA CustodyFrame ==
    ASSUME IInv, queue' = queue, task' = task, Held' \subseteq Held,
           \A t \in Tasks : future[t] \in {"pending", "cancelled"}
                               => future'[t] \in {"pending", "cancelled"}
    PROVE  Custody'
<1>1. Queued' = Queued
  BY DEF Queued
<1>2. Queued \cup Held \subseteq Tasks
  BY TasksAssumption DEF IInv, TypeOK, Queued, Held
<1>3. \A t \in Queued' \cup Held' : future'[t] \in {"pending", "cancelled"}
  BY <1>1, <1>2 DEF IInv, Custody
<1> QED
  BY <1>1, <1>3 DEF IInv, Custody

\* What a consumer that takes a task does to the queue and to the hands.
LEMMA GetMoves ==
    ASSUME IInv, NEW w \in Workers, Get(w)
    PROVE  LET t == Head(queue) IN
           /\ t \in Queued /\ t \in Tasks /\ t \notin Held
           /\ Queued' = Queued \ {t}
           /\ Held' = Held \cup {t}
           /\ \A i, j \in 1..Len(queue') : queue'[i] = queue'[j] => i = j
<1> DEFINE t == Head(queue)
<1>0. /\ TypeOK /\ Custody
      /\ queue \in Seq(Tasks) /\ queue # <<>> /\ queue' = Tail(queue)
      /\ \A i, j \in 1..Len(queue) : queue[i] = queue[j] => i = j
  BY DEF IInv, Get, TypeOK, Custody
<1>1. /\ t \in Queued
      /\ Queued' = Queued \ {t}
      /\ \A i, j \in 1..Len(queue') : queue'[i] = queue'[j] => i = j
  <2>1. /\ Head(queue) \in {queue[i] : i \in 1..Len(queue)}
        /\ {Tail(queue)[i] : i \in 1..Len(Tail(queue))} =
              {queue[i] : i \in 1..Len(queue)} \ {Head(queue)}
        /\ \A i, j \in 1..Len(Tail(queue)) : Tail(queue)[i] = Tail(queue)[j] => i = j
    BY <1>0, TakeHead, Zenon
  <2>2. Queued' = {Tail(queue)[i] : i \in 1..Len(Tail(queue))}
    BY <1>0 DEF Queued
  <2> QED
    BY <1>0, <2>1, <2>2 DEF Queued
<1>2. t \in Tasks /\ t \notin Held
  <2>1. Queued \subseteq Tasks
    BY <1>0 DEF TypeOK, Queued
  <2> QED
    BY <1>0, <1>1, <2>1 DEF Custody
<1>3. task' = [task EXCEPT ![w] = t] /\ worker' = [worker EXCEPT ![w] = "run"]
  BY DEF Get
<1> HIDE DEF t
<1>4. Held' = Held \cup {t}
  BY <1>0, <1>3 DEF Get, Held, TypeOK
<1> QED
  BY <1>1, <1>2, <1>4 DEF t

\* What a consumer whose function ended does to them.
LEMMA FinishMoves ==
    ASSUME IInv, NEW w \in Workers, NEW end \in EndKinds, Finish(w, end)
    PROVE  /\ task[w] \in Tasks /\ task[w] \in Held /\ task[w] \notin Queued
           /\ Queued' = Queued
           /\ Held' = Held \ {task[w]}
           /\ \A t \in Tasks \ {task[w]} : future'[t] = future[t]
<1>0. TypeOK /\ Custody
  BY DEF IInv
<1>1. task[w] \in Held /\ task[w] \in Tasks
  BY <1>0 DEF Finish, Held, TypeOK
<1>2. Queued' = Queued
  BY DEF Finish, Queued
<1>3. Held' = Held \ {task[w]}
  BY <1>0 DEF Finish, Held, TypeOK, Custody
<1>4. \A t \in Tasks \ {task[w]} : future'[t] = future[t]
  BY <1>0 DEF Finish, TypeOK
<1> QED
  BY <1>0, <1>1, <1>2, <1>3, <1>4 DEF Custody

\* Only put gives a task a future, and it is then on the queue.
LEMMA FreshStep == ASSUME IInv, [Next]_vars PROVE Fresh'
<1> USE DEF IInv, TypeOK, Fresh
<1>1. ASSUME NEW t \in Tasks, CheckRunning(t) \/ Put(t) \/ Resume(t) \/ Cancel(t)
      PROVE  Fresh'
  BY <1>1 DEF CheckRunning, Put, Resume, Cancel
<1>2. ASSUME NEW w \in Workers, NEW end \in EndKinds, Finish(w, end) PROVE Fresh'
  BY <1>2 DEF Finish
<1>3. ASSUME NEW w \in Workers, Loop(w) \/ Get(w) \/ GetEmpty(w) PROVE Fresh'
  BY <1>3 DEF Loop, Get, GetEmpty
<1>4. CASE Shutdown \/ Join \/ UNCHANGED vars
  BY <1>4 DEF Shutdown, Join, vars
<1> QED
  BY <1>1, <1>2, <1>3, <1>4 DEF Next, Consume

\* Custody is preserved by every step, given Fresh.
LEMMA CustodyStep == ASSUME IInv, [Next]_vars PROVE Custody'
<1>0. TypeOK /\ Custody /\ Fresh
  BY DEF IInv
<1>1. ASSUME NEW t \in Tasks, CheckRunning(t) \/ Resume(t) PROVE Custody'
  BY <1>1, CustodyFrame DEF CheckRunning, Resume, Held
<1>2. ASSUME NEW t \in Tasks, Put(t) PROVE Custody'
  <2>1. t \notin Queued \cup Held
    BY <1>0, <1>2 DEF Put, Fresh, Custody
  <2>2. Queued' = Queued \cup {t} /\ \A i, j \in 1..Len(queue') : queue'[i] = queue'[j] => i = j
    BY <1>0, <1>2, <2>1, AddLast DEF Put, TypeOK, Custody, Queued
  <2>3. Held' = Held /\ task' = task
    BY <1>2 DEF Put, Held
  <2>4. \A u \in Queued' \cup Held' : future'[u] \in {"pending", "cancelled"}
    BY <1>0, <1>2, <2>2, <2>3 DEF Put, Custody, TypeOK, Queued, Held
  <2> QED
    BY <1>0, <2>1, <2>2, <2>3, <2>4 DEF Custody
<1>3. ASSUME NEW t \in Tasks, Cancel(t) PROVE Custody'
  BY <1>0, <1>3, CustodyFrame DEF Cancel, Held, TypeOK
<1>4. ASSUME NEW w \in Workers, Loop(w) \/ GetEmpty(w) PROVE Custody'
  <2>1. Held' \subseteq Held
    BY <1>0, <1>4 DEF Loop, GetEmpty, Held, TypeOK
  <2> QED
    BY <1>4, <2>1, CustodyFrame DEF Loop, GetEmpty
<1>5. ASSUME NEW w \in Workers, Get(w) PROVE Custody'
  <2> DEFINE t == Head(queue)
  <2>1. /\ t \in Queued /\ t \in Tasks /\ t \notin Held
        /\ Queued' = Queued \ {t}
        /\ Held' = Held \cup {t}
        /\ \A i, j \in 1..Len(queue') : queue'[i] = queue'[j] => i = j
    BY <1>5, GetMoves
  <2>2. task' = [task EXCEPT ![w] = t] /\ worker' = [worker EXCEPT ![w] = "run"]
    BY <1>5 DEF Get
  <2> HIDE DEF t
  <2>3. \A v, x \in Workers : task'[v] = task'[x] /\ task'[v] # NoTask => v = x
    BY <1>0, <2>1, <2>2 DEF TypeOK, Custody, Held
  <2> QED
    BY <1>0, <1>5, <2>1, <2>3 DEF Custody, Get
<1>6. ASSUME NEW w \in Workers, NEW end \in EndKinds, Finish(w, end) PROVE Custody'
  <2>1. /\ Queued' = Queued /\ Held' = Held \ {task[w]}
        /\ \A t \in Tasks \ {task[w]} : future'[t] = future[t]
    BY <1>6, FinishMoves
  <2>2. queue' = queue /\ task' = [task EXCEPT ![w] = NoTask]
    BY <1>6 DEF Finish
  <2>3. \A v, x \in Workers : task'[v] = task'[x] /\ task'[v] # NoTask => v = x
    BY <1>0, <2>2 DEF TypeOK, Custody
  <2>4. Queued \subseteq Tasks /\ Held \subseteq Tasks
    BY <1>0, TasksAssumption DEF TypeOK, Queued, Held
  <2>5. \A t \in Queued' \cup Held' : future'[t] \in {"pending", "cancelled"}
    <3>1. task[w] \notin Queued
      BY <1>6, FinishMoves
    <3> QED
      BY <1>0, <2>1, <2>4, <3>1 DEF Custody
  <2> QED
    BY <1>0, <2>1, <2>2, <2>3, <2>5 DEF Custody
<1>7. CASE Shutdown \/ Join \/ UNCHANGED vars
  BY <1>7, CustodyFrame DEF Shutdown, Join, vars, Held
<1> QED
  BY <1>1, <1>2, <1>3, <1>4, <1>5, <1>6, <1>7 DEF Next, Consume

\* The inductive invariant holds.
LEMMA InvariantHolds == Spec => []IInv
<1>1. Init => Custody /\ Fresh
  BY DEF Init, Custody, Fresh, Queued, Held
<1>2. TypeOK /\ Custody /\ Fresh /\ [Next]_vars => Custody' /\ Fresh'
  BY CustodyStep, FreshStep DEF IInv
<1> QED
  BY <1>1, <1>2, TypeCorrect, PTL DEF Spec, IInv

\* No task is in two hands, and an answered one is in none.
THEOREM CustodyHolds == Spec => []Custody
<1>1. IInv => Custody
  BY DEF IInv
<1> QED
  BY <1>1, InvariantHolds, PTL

----------------------------------------------------------------------------
\* shutdown() waits for the consumers, and a consumer that has ended stays so.
AllEnded == shut = "returned" => \A w \in Workers : worker[w] \in {"exited", "dead"}

LEMMA EndedStep == TypeOK /\ AllEnded /\ [Next]_vars => AllEnded'
<1> SUFFICES ASSUME TypeOK, AllEnded, [Next]_vars PROVE AllEnded'
  OBVIOUS
<1>1. ASSUME NEW t \in Tasks, CheckRunning(t) \/ Put(t) \/ Resume(t) \/ Cancel(t)
      PROVE  AllEnded'
  BY <1>1 DEF CheckRunning, Put, Resume, Cancel, AllEnded
<1>2. ASSUME NEW w \in Workers, Consume(w) PROVE AllEnded'
  <2>1. worker[w] \in {"check", "get", "run"} /\ shut' = shut
    BY <1>2 DEF Consume, Loop, Get, GetEmpty, Finish
  <2> QED
    BY <2>1 DEF AllEnded
<1>3. CASE Shutdown \/ Join \/ UNCHANGED vars
  BY <1>3 DEF Shutdown, Join, vars, AllEnded
<1> QED
  BY <1>1, <1>2, <1>3 DEF Next

\* Once shutdown() has returned no function runs, no queued task is taken and
\* nobody gets an answer any more.
THEOREM QuietAfterShutdown == Spec => NothingRunsAfterShutdown
<1>1. Init => AllEnded
  BY DEF Init, AllEnded
<1>2. TypeOK /\ AllEnded /\ [Next]_vars =>
        [shut = "returned" =>
          /\ UNCHANGED <<worker, task>>
          /\ Queued \subseteq Queued'
          /\ \A t \in Tasks : future'[t] \in {"value", "error"} => future'[t] = future[t]]_vars
  <2> SUFFICES ASSUME TypeOK, AllEnded, [Next]_vars, shut = "returned"
               PROVE  /\ UNCHANGED <<worker, task>>
                      /\ Queued \subseteq Queued'
                      /\ \A t \in Tasks :
                            future'[t] \in {"value", "error"} => future'[t] = future[t]
    OBVIOUS
  <2>1. ASSUME NEW w \in Workers, Consume(w) PROVE FALSE
    BY <2>1 DEF Consume, Loop, Get, GetEmpty, Finish, AllEnded
  <2>2. ASSUME NEW t \in Tasks, Put(t)
        PROVE  /\ UNCHANGED <<worker, task>>
               /\ Queued \subseteq Queued'
               /\ \A x \in Tasks :
                     future'[x] \in {"value", "error"} => future'[x] = future[x]
    <3>1. Queued' = Queued \cup {t}
      BY <2>2 DEF Put, TypeOK, Queued
    <3> QED
      BY <2>2, <3>1 DEF Put, TypeOK
  <2>3. ASSUME NEW t \in Tasks, CheckRunning(t) \/ Resume(t) \/ Cancel(t)
        PROVE  /\ UNCHANGED <<worker, task, queue>>
               /\ \A x \in Tasks :
                     future'[x] \in {"value", "error"} => future'[x] = future[x]
    BY <2>3 DEF CheckRunning, Resume, Cancel, TypeOK
  <2>4. CASE Shutdown \/ Join \/ UNCHANGED vars
    BY <2>4 DEF Shutdown, Join, vars, Queued
  <2> QED
    BY <2>1, <2>2, <2>3, <2>4 DEF Next, Queued
<1> QED
  BY <1>1, <1>2, EndedStep, TypeCorrect, PTL DEF Spec, NothingRunsAfterShutdown

----------------------------------------------------------------------------
\* The consumers that are inside get().
Getting == {w \in Workers : worker[w] = "get"}

\* After shutdown a consumer never goes back to get(): what was taken late and
\* what can still be is bounded by the number of consumers.
LateBudget ==
    /\ running => late = 0
    /\ ~running => late + Cardinality(Getting) <= Cardinality(Workers)

\* The consumers inside get() can be counted.
LEMMA GettingFinite ==
    /\ IsFiniteSet(Getting) /\ Cardinality(Getting) \in Nat
    /\ Cardinality(Workers) \in Nat
    /\ Cardinality(Getting) <= Cardinality(Workers)
<1>1. Getting \in SUBSET Workers
  BY DEF Getting
<1> QED
  BY <1>1, WorkersAssumption, FS_Subset, FS_CardinalityType

\* A consumer that leaves get() lowers their number by one.
LEMMA GettingFalls ==
    ASSUME Getting' \subseteq Getting
    PROVE  /\ Cardinality(Getting') \in Nat
           /\ Cardinality(Getting') <= Cardinality(Getting)
BY GettingFinite, FS_Subset, FS_CardinalityType

\* The budget of late tasks is preserved by every step.
LEMMA LateStep == TypeOK /\ LateBudget /\ [Next]_vars => LateBudget'
<1> SUFFICES ASSUME TypeOK, LateBudget, [Next]_vars PROVE LateBudget'
  OBVIOUS
<1>0. late \in Nat
  BY DEF TypeOK
<1>1. ASSUME running' = running, late' = late, ~running => Getting' \subseteq Getting
      PROVE  LateBudget'
  BY <1>0, <1>1, GettingFinite, GettingFalls DEF LateBudget
<1>2. ASSUME NEW t \in Tasks, CheckRunning(t) \/ Put(t) \/ Resume(t) \/ Cancel(t)
      PROVE  LateBudget'
  BY <1>1, <1>2 DEF CheckRunning, Put, Resume, Cancel, Getting
<1>3. ASSUME NEW w \in Workers, Loop(w) \/ GetEmpty(w) PROVE LateBudget'
  BY <1>1, <1>3 DEF Loop, GetEmpty, Getting, TypeOK
<1>4. ASSUME NEW w \in Workers, Get(w) PROVE LateBudget'
  <2>1. w \in Getting /\ Getting' = Getting \ {w}
    BY <1>4 DEF Get, Getting, TypeOK
  <2>2. Cardinality(Getting') = Cardinality(Getting) - 1
    BY <2>1, GettingFinite, FS_RemoveElement
  <2> QED
    BY <1>0, <1>4, <2>2, GettingFinite DEF Get, LateBudget
<1>5. ASSUME NEW w \in Workers, NEW end \in EndKinds, Finish(w, end) PROVE LateBudget'
  BY <1>1, <1>5 DEF Finish, Getting, TypeOK
<1>6. CASE Shutdown
  <2>1. Getting' = Getting
    BY <1>6 DEF Shutdown, Getting
  <2>2. CASE running
    BY <1>0, <1>6, <2>1, <2>2, GettingFinite DEF Shutdown, LateBudget
  <2>3. CASE ~running
    BY <1>0, <1>6, <2>1, <2>3 DEF Shutdown, LateBudget
  <2> QED
    BY <2>2, <2>3
<1>7. CASE Join \/ UNCHANGED vars
  BY <1>1, <1>7 DEF Join, vars, Getting
<1> QED
  BY <1>2, <1>3, <1>4, <1>5, <1>6, <1>7 DEF Next, Consume

\* At most one task per consumer is run after _running was cleared.
THEOREM LateBoundHolds == Spec => []LateBound
<1>1. Init => LateBudget
  BY DEF Init, LateBudget
<1>2. TypeOK /\ LateBudget => LateBound
  BY GettingFinite DEF TypeOK, LateBudget, LateBound
<1> QED
  BY <1>1, <1>2, LateStep, TypeCorrect, PTL DEF Spec

----------------------------------------------------------------------------
(***************************************************************************)
(* Dropped tasks, dead consumers and the refinement of TaskLedger.         *)
(***************************************************************************)

\* What a step does to tasks and consumers, as far as drops are concerned.
Quiet == Dropped' = Dropped /\ Dead' = Dead

LEMMA FinishDrops ==
    ASSUME IInv, NEW w \in Workers, NEW end \in EndKinds, Finish(w, end)
    PROVE  \/ Quiet /\ future'[task[w]] \in {"value", "error"}
           \/ /\ Dropped' = Dropped \cup {task[w]} /\ Dead' = Dead \cup {w}
              /\ task[w] \notin Dropped /\ w \notin Dead
              /\ UNCHANGED future
<1>0. TypeOK /\ Custody
  BY DEF IInv
<1>1. /\ task[w] \in Tasks /\ task[w] \in Held /\ task[w] \notin Queued
      /\ Queued' = Queued /\ Held' = Held \ {task[w]}
      /\ \A t \in Tasks \ {task[w]} : future'[t] = future[t]
  BY FinishMoves
<1>2. task[w] \notin Dropped /\ w \notin Dead
  BY <1>1 DEF Dropped, Dead, Finish
<1>3. CASE future[task[w]] = "pending" /\ end \in {"value", "error"}
  <2>1. future'[task[w]] = end /\ worker' = [worker EXCEPT ![w] = "check"]
    BY <1>0, <1>1, <1>3 DEF Finish, TypeOK
  <2>2. Dropped' = Dropped
    BY <1>1, <1>2, <1>3, <2>1 DEF Dropped
  <2>3. Dead' = Dead
    BY <1>0, <1>2, <2>1 DEF Dead, TypeOK
  <2> QED
    BY <1>3, <2>1, <2>2, <2>3 DEF Quiet
<1>4. CASE ~(future[task[w]] = "pending" /\ end \in {"value", "error"})
  <2>1. future' = future /\ worker' = [worker EXCEPT ![w] = "dead"]
    BY <1>4 DEF Finish
  <2>2. future[task[w]] \in {"pending", "cancelled"}
    BY <1>0, <1>1 DEF Custody
  <2>3. Dropped' = Dropped \cup {task[w]}
    BY <1>1, <2>1, <2>2 DEF Dropped
  <2>4. Dead' = Dead \cup {w}
    BY <1>0, <2>1 DEF Dead, TypeOK
  <2> QED
    BY <1>2, <2>1, <2>3, <2>4
<1> QED
  BY <1>3, <1>4

LEMMA OthersQuiet ==
    ASSUME IInv, [Next]_vars,
           ~\E w \in Workers, end \in EndKinds : Finish(w, end)
    PROVE  Quiet
<1>0. TypeOK /\ Custody /\ Fresh
  BY DEF IInv
<1>1. ASSUME NEW t \in Tasks, CheckRunning(t) \/ Resume(t) PROVE Quiet
  BY <1>1 DEF CheckRunning, Resume, Quiet, Dropped, Dead, Queued, Held
<1>2. ASSUME NEW t \in Tasks, Put(t) PROVE Quiet
  <2>1. /\ t \notin Queued \cup Held /\ t \notin Dropped
        /\ \A i, j \in 1..Len(queue) : queue[i] = queue[j] => i = j
    BY <1>0, <1>2 DEF Put, Fresh, Custody, Dropped
  <2>2. Queued' = Queued \cup {t}
    BY <1>0, <1>2, <2>1, AddLast DEF Put, TypeOK, Queued
  <2>3. Held' = Held /\ Dead' = Dead
    BY <1>2 DEF Put, Held, Dead
  <2>4. \A x \in Tasks \ {t} : future'[x] = future[x]
    BY <1>0, <1>2 DEF Put, TypeOK
  <2>5. Dropped' = Dropped
    BY <2>1, <2>2, <2>3, <2>4 DEF Dropped
  <2> QED
    BY <2>3, <2>5 DEF Quiet
<1>3. ASSUME NEW t \in Tasks, Cancel(t) PROVE Quiet
  <2>1. Queued' = Queued /\ Held' = Held /\ Dead' = Dead
    BY <1>3 DEF Cancel, Queued, Held, Dead
  <2>2. \A x \in Tasks : future'[x] \in {"pending", "cancelled"} <=>
                         future[x] \in {"pending", "cancelled"}
    BY <1>0, <1>3 DEF Cancel, TypeOK
  <2> QED
    BY <2>1, <2>2 DEF Quiet, Dropped
<1>4. ASSUME NEW w \in Workers, Loop(w) \/ GetEmpty(w) PROVE Quiet
  <2>1. Held' = Held /\ Dead' = Dead
    BY <1>0, <1>4 DEF Loop, GetEmpty, Held, Dead, TypeOK
  <2> QED
    BY <1>4, <2>1 DEF Loop, GetEmpty, Quiet, Dropped, Queued
<1>5. ASSUME NEW w \in Workers, Get(w) PROVE Quiet
  <2> DEFINE t == Head(queue)
  <2>1. t \in Queued /\ Queued' = Queued \ {t} /\ Held' = Held \cup {t}
    BY <1>5, GetMoves
  <2>2. future' = future /\ worker' = [worker EXCEPT ![w] = "run"]
        /\ worker[w] = "get"
    BY <1>5 DEF Get
  <2> HIDE DEF t
  <2>3. Dropped' = Dropped
    BY <2>1, <2>2 DEF Dropped
  <2>4. Dead' = Dead
    BY <1>0, <2>2 DEF Dead, TypeOK
  <2> QED
    BY <2>3, <2>4 DEF Quiet
<1>6. CASE Shutdown \/ Join \/ UNCHANGED vars
  BY <1>6 DEF Shutdown, Join, vars, Quiet, Dropped, Dead, Queued, Held
<1> QED
  BY <1>1, <1>2, <1>3, <1>4, <1>5, <1>6 DEF Next, Consume

\* The drops are counted one by one; that there are finitely many is part of it.
DropsCounted == IsFiniteSet(Dropped) /\ OneConsumerPerDrop

LEMMA DeadFinite ==
    /\ IsFiniteSet(Dead) /\ Cardinality(Dead) \in Nat /\ Cardinality(Workers) \in Nat
    /\ Cardinality(Dead) <= Cardinality(Workers)
<1>1. Dead \in SUBSET Workers
  BY DEF Dead
<1> QED
  BY <1>1, WorkersAssumption, FS_Subset, FS_CardinalityType

\* A consumer is lost exactly when a task is dropped (set_exception of a
\* cancelled future, StopIteration, BaseException).
THEOREM DropsCost == Spec => []OneConsumerPerDrop
<1>1. Init => DropsCounted
  <2> SUFFICES ASSUME Init PROVE DropsCounted
    OBVIOUS
  <2>1. Dropped = {} /\ Dead = {}
    BY DEF Init, Dropped, Dead
  <2> QED
    BY <2>1, FS_EmptySet DEF DropsCounted, OneConsumerPerDrop
<1>2. IInv /\ DropsCounted /\ [Next]_vars => DropsCounted'
  <2> SUFFICES ASSUME IInv, DropsCounted, [Next]_vars PROVE DropsCounted'
    OBVIOUS
  <2>1. CASE Quiet
    BY <2>1 DEF Quiet, DropsCounted, OneConsumerPerDrop
  <2>2. ASSUME NEW w \in Workers, NEW end \in EndKinds, Finish(w, end), ~Quiet
        PROVE  DropsCounted'
    <3>1. /\ Dropped' = Dropped \cup {task[w]} /\ Dead' = Dead \cup {w}
          /\ task[w] \notin Dropped /\ w \notin Dead
      BY <2>2, FinishDrops
    <3>2. IsFiniteSet(Dropped') /\ Cardinality(Dropped') = Cardinality(Dropped) + 1
      BY <3>1, FS_AddElement DEF DropsCounted
    <3>3. Cardinality(Dead') = Cardinality(Dead) + 1
      BY <3>1, DeadFinite, FS_AddElement
    <3> QED
      BY <3>2, <3>3 DEF DropsCounted, OneConsumerPerDrop
  <2> QED
    BY <2>1, <2>2, OthersQuiet
<1>3. DropsCounted => OneConsumerPerDrop
  BY DEF DropsCounted
<1> QED
  BY <1>1, <1>2, <1>3, InvariantHolds, PTL DEF Spec

\* The refinement mapping: what TaskLedger sees of a task, and of the pool.
EntryOf(t) ==
    IF future[t] = "none" THEN "new"
    ELSE IF t \in Queued THEN "accepted"
    ELSE IF t \in Held THEN "started"
    ELSE IF t \in Dropped THEN "dropped"
    ELSE "answered"

Entry == [t \in Tasks |-> EntryOf(t)]

Slots == Cardinality(Workers) - Cardinality(Dead)

\* The instance has a copy of Cardinality: it is the same operator.
LEMMA SameCardinality == ASSUME NEW S PROVE Ledger!Cardinality(S) = Cardinality(S)
  BY Zenon DEF Ledger!Cardinality, Cardinality

\* The actions of the ledger, said of Entry and Slots.
LEMMA Mapping ==
    ASSUME NEW t \in Tasks
    PROVE  /\ Ledger!Accept(t) <=>
                 Entry[t] = "new" /\ Entry' = [Entry EXCEPT ![t] = "accepted"] /\ Slots' = Slots
           /\ Ledger!Start(t) <=>
                 /\ Entry[t] = "accepted"
                 /\ Cardinality({x \in Tasks : Entry[x] = "started"}) < Slots
                 /\ Entry' = [Entry EXCEPT ![t] = "started"] /\ Slots' = Slots
           /\ Ledger!Answer(t) <=>
                 Entry[t] = "started" /\ Entry' = [Entry EXCEPT ![t] = "answered"]
                 /\ Slots' = Slots
           /\ Ledger!Drop(t) <=>
                 Entry[t] = "started" /\ Entry' = [Entry EXCEPT ![t] = "dropped"]
                 /\ Slots' = Slots - 1
<1>1. Ledger!Accept(t) <=>
          Entry[t] = "new" /\ Entry' = [Entry EXCEPT ![t] = "accepted"] /\ Slots' = Slots
  BY Zenon DEF Ledger!Accept, Entry, EntryOf, Slots
<1>2. Ledger!Start(t) <=>
          /\ Entry[t] = "accepted"
          /\ Cardinality({x \in Tasks : Entry[x] = "started"}) < Slots
          /\ Entry' = [Entry EXCEPT ![t] = "started"] /\ Slots' = Slots
  <2>1. Ledger!Started = {x \in Tasks : Entry[x] = "started"}
    BY DEF Ledger!Started, Entry, EntryOf
  <2> QED
    BY Zenon, <2>1, SameCardinality DEF Ledger!Start, Entry, EntryOf, Slots
<1>3. Ledger!Answer(t) <=>
          Entry[t] = "started" /\ Entry' = [Entry EXCEPT ![t] = "answered"] /\ Slots' = Slots
  BY Zenon DEF Ledger!Answer, Entry, EntryOf, Slots
<1>4. Ledger!Drop(t) <=>
          Entry[t] = "started" /\ Entry' = [Entry EXCEPT ![t] = "dropped"] /\ Slots' = Slots - 1
  BY Zenon DEF Ledger!Drop, Entry, EntryOf, Slots
<1> QED
  BY <1>1, <1>2, <1>3, <1>4

\* One entry changes.
LEMMA EntryChanges ==
    ASSUME NEW t \in Tasks, NEW v, EntryOf(t)' = v,
           \A x \in Tasks \ {t} : EntryOf(x)' = EntryOf(x)
    PROVE  Entry' = [Entry EXCEPT ![t] = v]
  BY DEF Entry

\* No entry changes.
LEMMA EntriesStay ==
    ASSUME \A x \in Tasks : EntryOf(x)' = EntryOf(x), Quiet
    PROVE  Entry' = Entry /\ Slots' = Slots
  BY DEF Entry, Slots, Quiet

LEMMA PutMaps == ASSUME IInv, NEW t \in Tasks, Put(t) PROVE Ledger!Accept(t)
<1>0. TypeOK /\ Custody /\ Fresh
  BY DEF IInv
<1>1. /\ future[t] = "none" /\ t \notin Queued \cup Held
      /\ \A i, j \in 1..Len(queue) : queue[i] = queue[j] => i = j
  BY <1>0 DEF Put, Fresh, Custody
<1>2. Queued' = Queued \cup {t}
  BY <1>0, <1>1, AddLast DEF Put, TypeOK, Queued
<1>3. /\ Held' = Held /\ future'[t] = "pending"
      /\ \A x \in Tasks \ {t} : future'[x] = future[x]
  BY <1>0 DEF Put, Held, TypeOK
<1>4. Quiet
  <2>1. ~\E w \in Workers, end \in EndKinds : Finish(w, end)
    BY <1>0 DEF Put, Finish, TypeOK
  <2> QED
    BY <2>1, OthersQuiet DEF Next
<1>5. EntryOf(t) = "new" /\ EntryOf(t)' = "accepted"
  BY <1>1, <1>2, <1>3 DEF EntryOf
<1>6. \A x \in Tasks \ {t} : EntryOf(x)' = EntryOf(x)
  BY <1>2, <1>3, <1>4 DEF EntryOf, Quiet
<1>7. Entry' = [Entry EXCEPT ![t] = "accepted"]
  BY <1>5, <1>6, EntryChanges
<1>8. Entry[t] = "new" /\ Slots' = Slots
  BY <1>4, <1>5 DEF Entry, Slots, Quiet
<1> QED
  BY <1>7, <1>8, Mapping

\* Before a consumer takes a task, its slot is free: each started task is in
\* the hands of another consumer that runs.
LEMMA SlotFree ==
    ASSUME IInv, NEW w \in Workers, worker[w] = "get"
    PROVE  Cardinality({t \in Tasks : Entry[t] = "started"}) < Slots
<1> DEFINE Running == {v \in Workers : worker[v] = "run"}
<1> DEFINE StartedTasks == {t \in Tasks : Entry[t] = "started"}
<1>0. TypeOK /\ Custody
  BY DEF IInv
<1>1. StartedTasks \subseteq Held
  BY DEF Entry, EntryOf
<1>2. IsFiniteSet(Running) /\ Cardinality(Running) \in Nat
  <2>1. Running \in SUBSET Workers
    OBVIOUS
  <2> QED
    BY <2>1, WorkersAssumption, FS_Subset, FS_CardinalityType
<1>3. IsFiniteSet(Held) /\ Cardinality(Held) <= Cardinality(Running)
  <2> DEFINE f == [v \in Running |-> task[v]]
  <2>1. f \in Surjection(Running, Held)
    BY DEF Surjection, Held
  <2> QED
    BY <1>2, <2>1, FS_Surjection
<1>4. Cardinality(StartedTasks) \in Nat /\ Cardinality(StartedTasks) <= Cardinality(Held)
      /\ Cardinality(Held) \in Nat
  <2>1. StartedTasks \in SUBSET Held
    BY <1>1
  <2> QED
    BY <1>3, <2>1, FS_Subset, FS_CardinalityType
<1>5. Cardinality(Running) + Cardinality(Dead) < Cardinality(Workers)
  <2>1. IsFiniteSet(Running \cup Dead)
        /\ Cardinality(Running \cup Dead) = Cardinality(Running) + Cardinality(Dead)
    <3>1. Running \cap Dead = {}
      BY DEF Dead
    <3>2. Cardinality(Running \cap Dead) = 0
      BY <3>1, FS_EmptySet
    <3> HIDE DEF Running
    <3>3. /\ IsFiniteSet(Running \cup Dead)
          /\ Cardinality(Running \cup Dead) =
                Cardinality(Running) + Cardinality(Dead) - Cardinality(Running \cap Dead)
      BY <1>2, DeadFinite, FS_Union, Zenon
    <3> QED
      BY <1>2, <3>2, <3>3, DeadFinite
  <2>2. w \notin Running \cup Dead /\ (Running \cup Dead) \cup {w} \in SUBSET Workers
    BY DEF Dead
  <2> HIDE DEF Running
  <2>3. Cardinality((Running \cup Dead) \cup {w}) = Cardinality(Running \cup Dead) + 1
    BY <2>1, <2>2, FS_AddElement
  <2>4. Cardinality((Running \cup Dead) \cup {w}) <= Cardinality(Workers)
    BY <2>2, WorkersAssumption, FS_Subset
  <2> QED
    BY <1>2, <2>1, <2>3, <2>4, DeadFinite
<1> HIDE DEF Running, StartedTasks
<1>6. Cardinality(StartedTasks) < Slots
  BY <1>2, <1>3, <1>4, <1>5, DeadFinite DEF Slots
<1> QED
  BY <1>6 DEF StartedTasks

LEMMA GetMaps == ASSUME IInv, NEW w \in Workers, Get(w) PROVE Ledger!Next
<1>0. TypeOK /\ Custody
  BY DEF IInv
<1>1. PICK t \in Tasks :
          /\ t \in Queued /\ t \notin Held
          /\ Queued' = Queued \ {t} /\ Held' = Held \cup {t}
  BY GetMoves
<1>2. future' = future /\ worker[w] = "get"
  BY DEF Get
<1>3. Quiet
  <2>1. ~\E v \in Workers, end \in EndKinds : Finish(v, end)
    BY <1>0 DEF Get, Finish, TypeOK
  <2> QED
    BY <2>1, OthersQuiet DEF Next, Consume
<1>4. EntryOf(t) = "accepted" /\ EntryOf(t)' = "started"
  BY <1>0, <1>1, <1>2 DEF EntryOf, Custody
<1>5. \A x \in Tasks \ {t} : EntryOf(x)' = EntryOf(x)
  BY <1>1, <1>2, <1>3 DEF EntryOf, Quiet
<1>6. Entry' = [Entry EXCEPT ![t] = "started"]
  BY <1>1, <1>4, <1>5, EntryChanges
<1>7. Entry[t] = "accepted" /\ Slots' = Slots
  BY <1>1, <1>3, <1>4 DEF Entry, Slots, Quiet
<1>8. Cardinality({x \in Tasks : Entry[x] = "started"}) < Slots
  BY <1>2, SlotFree
<1>9. Ledger!Start(t)
  BY <1>1, <1>6, <1>7, <1>8, Mapping
<1> QED
  BY <1>9 DEF Ledger!Next

LEMMA FinishMaps ==
    ASSUME IInv, NEW w \in Workers, NEW end \in EndKinds, Finish(w, end)
    PROVE  Ledger!Next
<1>0. TypeOK /\ Custody
  BY DEF IInv
<1>1. PICK t \in Tasks :
          /\ t = task[w] /\ t \in Held /\ t \notin Queued
          /\ Queued' = Queued /\ Held' = Held \ {t}
          /\ \A x \in Tasks \ {t} : future'[x] = future[x]
  BY FinishMoves
<1>2. EntryOf(t) = "started" /\ Entry[t] = "started"
  BY <1>0, <1>1 DEF EntryOf, Entry, Custody
<1>3. CASE Quiet /\ future'[t] \in {"value", "error"}
  <2>1. EntryOf(t)' = "answered"
    BY <1>1, <1>3 DEF EntryOf, Dropped
  <2>2. \A x \in Tasks \ {t} : EntryOf(x)' = EntryOf(x)
    BY <1>1, <1>3 DEF EntryOf, Quiet
  <2>3. Entry' = [Entry EXCEPT ![t] = "answered"] /\ Slots' = Slots
    BY <1>1, <1>3, <2>1, <2>2, EntryChanges DEF Quiet, Slots
  <2> QED
    BY <1>1, <1>2, <2>3, Mapping DEF Ledger!Next
<1>4. CASE /\ Dropped' = Dropped \cup {t} /\ Dead' = Dead \cup {w}
           /\ t \notin Dropped /\ w \notin Dead /\ UNCHANGED future
  <2>1. EntryOf(t)' = "dropped"
    BY <1>0, <1>1, <1>4 DEF EntryOf, Custody
  <2>2. \A x \in Tasks \ {t} : EntryOf(x)' = EntryOf(x)
    BY <1>1, <1>4 DEF EntryOf
  <2>3. Entry' = [Entry EXCEPT ![t] = "dropped"]
    BY <1>1, <2>1, <2>2, EntryChanges
  <2>4. Cardinality(Dead') = Cardinality(Dead) + 1
    BY <1>4, DeadFinite, FS_AddElement
  <2>5. Slots' = Slots - 1
    BY <2>4, DeadFinite DEF Slots
  <2> QED
    BY <1>1, <1>2, <2>3, <2>5, Mapping DEF Ledger!Next
<1> QED
  BY <1>1, <1>3, <1>4, FinishDrops

LEMMA OthersMap ==
    ASSUME IInv, [Next]_vars,
           ~\E t \in Tasks : Put(t),
           ~\E w \in Workers : Get(w) \/ \E end \in EndKinds : Finish(w, end)
    PROVE  Entry' = Entry /\ Slots' = Slots
<1>0. TypeOK /\ Custody
  BY DEF IInv
<1>1. Quiet
  BY OthersQuiet
<1>2. Queued' = Queued /\ Held' = Held
  <2>1. ASSUME NEW t \in Tasks, CheckRunning(t) \/ Resume(t) \/ Cancel(t)
        PROVE  Queued' = Queued /\ Held' = Held
    BY <2>1 DEF CheckRunning, Resume, Cancel, Queued, Held
  <2>2. ASSUME NEW w \in Workers, Loop(w) \/ GetEmpty(w)
        PROVE  Queued' = Queued /\ Held' = Held
    BY <1>0, <2>2 DEF Loop, GetEmpty, Queued, Held, TypeOK
  <2>3. CASE Shutdown \/ Join \/ UNCHANGED vars
    BY <2>3 DEF Shutdown, Join, vars, Queued, Held
  <2> QED
    BY <2>1, <2>2, <2>3 DEF Next, Consume
<1>3. \A t \in Tasks : future'[t] = "none" <=> future[t] = "none"
  <2>1. ASSUME NEW t \in Tasks, CheckRunning(t) \/ Resume(t) \/ Cancel(t)
        PROVE  \A x \in Tasks : future'[x] = "none" <=> future[x] = "none"
    BY <1>0, <2>1 DEF CheckRunning, Resume, Cancel, TypeOK
  <2>2. ASSUME NEW w \in Workers, Loop(w) \/ GetEmpty(w)
        PROVE  future' = future
    BY <2>2 DEF Loop, GetEmpty
  <2>3. CASE Shutdown \/ Join \/ UNCHANGED vars
    BY <2>3 DEF Shutdown, Join, vars
  <2> QED
    BY <2>1, <2>2, <2>3 DEF Next, Consume
<1>4. \A t \in Tasks : EntryOf(t)' = EntryOf(t)
  BY <1>1, <1>2, <1>3 DEF EntryOf, Quiet
<1> QED
  BY <1>1, <1>4, EntriesStay

\* The queue implements the ledger: putting a task accepts it, a get starts it
\* in a free slot, and it is answered, or dropped with its consumer.
THEOREM LedgerImplemented == Spec => ImplementsLedger
<1>1. Init => Ledger!Init
  <2> SUFFICES ASSUME Init PROVE Ledger!Init
    OBVIOUS
  <2>1. Dead = {} /\ \A t \in Tasks : future[t] = "none"
    BY DEF Init, Dead
  <2>2. Cardinality(Workers) - Cardinality(Dead) = Cardinality(Workers)
    BY <2>1, FS_EmptySet, DeadFinite
  <2>3. \A t \in Tasks : EntryOf(t) = "new"
    BY <2>1 DEF EntryOf
  <2>4. Entry = [t \in Tasks |-> "new"] /\ Slots = Cardinality(Workers)
    BY <2>2, <2>3 DEF Entry, Slots
  <2> QED
    BY Zenon, <2>4, SameCardinality DEF Ledger!Init, Entry, EntryOf, Slots
<1>2. IInv /\ [Next]_vars => [Ledger!Next]_(Ledger!vars)
  <2> SUFFICES ASSUME IInv, [Next]_vars PROVE [Ledger!Next]_(Ledger!vars)
    OBVIOUS
  <2>1. ASSUME NEW t \in Tasks, Put(t) PROVE Ledger!Next
    BY <2>1, PutMaps DEF Ledger!Next
  <2>2. ASSUME NEW w \in Workers, Get(w) PROVE Ledger!Next
    BY <2>2, GetMaps
  <2>3. ASSUME NEW w \in Workers, NEW end \in EndKinds, Finish(w, end) PROVE Ledger!Next
    BY <2>3, FinishMaps
  <2>4. CASE Entry' = Entry /\ Slots' = Slots
    BY <2>4 DEF Ledger!vars, Entry, EntryOf, Slots
  <2> QED
    BY <2>1, <2>2, <2>3, <2>4, OthersMap
<1> QED
  BY <1>1, <1>2, InvariantHolds, PTL DEF Spec, ImplementsLedger, Ledger!Spec
============================================================================
