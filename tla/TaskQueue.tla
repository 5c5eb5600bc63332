----------------------------- MODULE TaskQueue -----------------------------
(***************************************************************************)
(* AsyncTaskQueue of services/task_queue.py: coroutines on the event loop  *)
(* put tasks on a thread-safe FIFO queue and await a future each; consumer *)
(* threads take the tasks, run them and set the futures; shutdown, called  *)
(* from another thread, clears _running and joins the consumers.           *)
(*                                                                         *)
(* queue.Queue and asyncio.Future operations are atomic (each holds its    *)
(* lock, respectively the interpreter lock); every other line is a step of *)
(* its thread.  A task is the call add_task(func, ...) it belongs to.      *)
(***************************************************************************)
EXTENDS Naturals, Sequences, FiniteSets

CONSTANTS
    Workers,   \* the consumers submitted to the executor
    Tasks,     \* calls of add_task
    NoTask,    \* the value of a consumer's "task" outside one
    Ends       \* Ends[t]: the ways func of task t can end

\* A value, an Exception that set_exception accepts, a StopIteration (which
\* set_exception refuses), a BaseException such as SystemExit.
EndKinds == {"value", "error", "stopiteration", "base"}

ASSUME WorkersAssumption == IsFiniteSet(Workers)
ASSUME TasksAssumption == NoTask \notin Tasks
ASSUME EndsAssumption == Ends \in [Tasks -> SUBSET EndKinds]

VARIABLES
    running,   \* self._running
    queue,     \* self.queue
    worker,    \* where each consumer is
    task,      \* the task each consumer holds
    future,    \* the future of each task
    caller,    \* where each coroutine inside add_task is
    shut,      \* where the thread inside shutdown() is
    late       \* history: the tasks taken since _running was cleared

vars == <<running, queue, worker, task, future, caller, shut, late>>

TypeOK ==
    /\ running \in BOOLEAN
    /\ queue \in Seq(Tasks)
    /\ worker \in [Workers -> {"check", "get", "run", "exited", "dead"}]
    /\ task \in [Workers -> Tasks \cup {NoTask}]
    /\ future \in [Tasks -> {"none", "pending", "value", "error", "cancelled"}]
    /\ caller \in [Tasks -> {"new", "checked", "waiting", "got", "refused", "cancelled"}]
    /\ shut \in {"no", "joining", "returned"}
    /\ late \in Nat
    /\ \A w \in Workers : worker[w] = "run" <=> task[w] # NoTask

----------------------------------------------------------------------------
Init ==
    /\ running = TRUE
    /\ queue = <<>>
    /\ worker = [w \in Workers |-> "check"]
    /\ task = [w \in Workers |-> NoTask]
    /\ future = [t \in Tasks |-> "none"]
    /\ caller = [t \in Tasks |-> "new"]
    /\ shut = "no"
    /\ late = 0

\* add_task, line 40: the test of _running.
CheckRunning(t) ==
    /\ caller[t] = "new"
    /\ caller' = [caller EXCEPT ![t] = IF running THEN "checked" ELSE "refused"]
    /\ UNCHANGED <<running, queue, worker, task, future, shut, late>>

\* add_task, lines 43-45: create the future, put the task, await the future.
Put(t) ==
    /\ caller[t] = "checked"
    /\ caller' = [caller EXCEPT ![t] = "waiting"]
    /\ future' = [future EXCEPT ![t] = "pending"]
    /\ queue' = Append(queue, t)
    /\ UNCHANGED <<running, worker, task, shut, late>>

\* The loop runs the callback of a resolved future and add_task returns.
Resume(t) ==
    /\ caller[t] = "waiting"
    /\ future[t] \in {"value", "error"}
    /\ caller' = [caller EXCEPT ![t] = "got"]
    /\ UNCHANGED <<running, queue, worker, task, future, shut, late>>

\* The coroutine is cancelled while it awaits: a pending future is cancelled
\* with it, the task stays on the queue.
Cancel(t) ==
    /\ caller[t] = "waiting"
    /\ caller' = [caller EXCEPT ![t] = "cancelled"]
    /\ future' = [future EXCEPT ![t] = IF @ = "pending" THEN "cancelled" ELSE @]
    /\ UNCHANGED <<running, queue, worker, task, shut, late>>

\* Mutant: the consumer never looks at _running.
Loop_Always(w) ==
    /\ worker[w] = "check"
    /\ worker' = [worker EXCEPT ![w] = "get"]
    /\ UNCHANGED <<running, queue, task, future, caller, shut, late>>

\* consumer: while self._running.
Loop(w) ==
    /\ worker[w] = "check"
    /\ worker' = [worker EXCEPT ![w] = IF running THEN "get" ELSE "exited"]
    /\ UNCHANGED <<running, queue, task, future, caller, shut, late>>

\* Mutant: the task is looked at and not removed.
Get_Peek(w) ==
    /\ worker[w] = "get"
    /\ queue # <<>>
    /\ worker' = [worker EXCEPT ![w] = "run"]
    /\ task' = [task EXCEPT ![w] = Head(queue)]
    /\ late' = IF running THEN late ELSE late + 1
    /\ UNCHANGED <<running, queue, future, caller, shut>>

\* consumer: self.queue.get(timeout=1) returns a task.
Get(w) ==
    /\ worker[w] = "get"
    /\ queue # <<>>
    /\ worker' = [worker EXCEPT ![w] = "run"]
    /\ task' = [task EXCEPT ![w] = Head(queue)]
    /\ queue' = Tail(queue)
    /\ late' = IF running THEN late ELSE late + 1
    /\ UNCHANGED <<running, future, caller, shut>>

\* Mutant: the consumer leaves its loop on queue.Empty.
GetEmpty_Leaves(w) ==
    /\ worker[w] = "get"
    /\ queue = <<>>
    /\ worker' = [worker EXCEPT ![w] = "exited"]
    /\ UNCHANGED <<running, queue, task, future, caller, shut, late>>

\* Mutant: the get has no timeout.
GetEmpty_Blocks(w) == FALSE

\* consumer: the get times out with queue.Empty.
GetEmpty(w) ==
    /\ worker[w] = "get"
    /\ queue = <<>>
    /\ worker' = [worker EXCEPT ![w] = "check"]
    /\ UNCHANGED <<running, queue, task, future, caller, shut, late>>

\* Mutant: a consumer that could not set the future goes on.
Finish_Survives(w, end) ==
    /\ worker[w] = "run"
    /\ end \in Ends[task[w]]
    /\ task' = [task EXCEPT ![w] = NoTask]
    /\ worker' = [worker EXCEPT ![w] = "check"]
    /\ future' = [future EXCEPT ![task[w]] =
          IF @ = "pending" /\ end \in {"value", "error"} THEN end ELSE @]
    /\ UNCHANGED <<running, queue, caller, shut, late>>

\* Mutant: the consumer keeps its reference to the finished task.
Finish_KeepsTask(w, end) ==
    /\ worker[w] = "run"
    /\ end \in Ends[task[w]]
    /\ worker' = [worker EXCEPT ![w] = "check"]
    /\ future' = [future EXCEPT ![task[w]] = IF @ = "pending" THEN end ELSE @]
    /\ UNCHANGED <<running, queue, task, caller, shut, late>>

\* consumer, lines 28-31: func ends and its future is set.  On a future that
\* is no longer pending set_result raises, so does set_exception in the except
\* clause, and the consumer ends; it also ends, with the future untouched, on
\* a StopIteration and on a BaseException.
Finish(w, end) ==
    /\ worker[w] = "run"
    /\ end \in Ends[task[w]]
    /\ task' = [task EXCEPT ![w] = NoTask]
    /\ IF future[task[w]] = "pending" /\ end \in {"value", "error"}
       THEN /\ future' = [future EXCEPT ![task[w]] = end]
            /\ worker' = [worker EXCEPT ![w] = "check"]
       ELSE /\ worker' = [worker EXCEPT ![w] = "dead"]
            /\ UNCHANGED future
    /\ UNCHANGED <<running, queue, caller, shut, late>>

\* shutdown, line 49.
Shutdown ==
    /\ shut = "no"
    /\ shut' = "joining"
    /\ running' = FALSE
    /\ UNCHANGED <<queue, worker, task, future, caller, late>>

\* Mutant: executor.shutdown(wait=False).
Join_NoWait ==
    /\ shut = "joining"
    /\ shut' = "returned"
    /\ UNCHANGED <<running, queue, worker, task, future, caller, late>>

\* shutdown, line 50: executor.shutdown(wait=True) returns.
Join ==
    /\ shut = "joining"
    /\ \A w \in Workers : worker[w] \in {"exited", "dead"}
    /\ shut' = "returned"
    /\ UNCHANGED <<running, queue, worker, task, future, caller, late>>

Consume(w) ==
    \/ Loop(w)
    \/ Get(w)
    \/ GetEmpty(w)
    \/ \E end \in EndKinds : Finish(w, end)

Next ==
    \/ \E t \in Tasks : CheckRunning(t) \/ Put(t) \/ Resume(t) \/ Cancel(t)
    \/ \E w \in Workers : Consume(w)
    \/ Shutdown
    \/ Join

Spec == Init /\ [][Next]_vars

\* The consumer threads run and the functions they are given return.  Nothing
\* is assumed of the event loop: set_result from a consumer thread schedules
\* the caller's wake-up without waking the loop (no call_soon_threadsafe).
Fairness ==
    /\ \A w \in Workers : WF_vars(Consume(w))
    /\ WF_vars(Join)

FairSpec == Spec /\ Fairness

----------------------------------------------------------------------------
Held == {task[w] : w \in {v \in Workers : worker[v] = "run"}}
Queued == {queue[i] : i \in 1..Len(queue)}
Dead == {w \in Workers : worker[w] = "dead"}

\* The tasks a consumer took and dropped without an answer.
Dropped == {t \in Tasks : /\ future[t] \in {"pending", "cancelled"}
                          /\ t \notin Queued \cup Held}

\* No task is in two hands: it is on the queue once, or with one consumer, and
\* one that was answered is with nobody, so no function runs twice.
Custody ==
    /\ \A i, j \in 1..Len(queue) : queue[i] = queue[j] => i = j
    /\ \A v, w \in Workers : task[v] = task[w] /\ task[v] # NoTask => v = w
    /\ Queued \cap Held = {}
    /\ \A t \in Queued \cup Held : future[t] \in {"pending", "cancelled"}

\* Every dropped task, cancelled by its caller or not, cost the pool one
\* consumer for good: a queue stops serving after |Workers| of them.
OneConsumerPerDrop == Cardinality(Dropped) = Cardinality(Dead)

\* Clearing _running lets every consumer that was inside get take one more
\* task, and no more than that.
LateBound == late <= Cardinality(Workers)

\* As long as one consumer lives and the queue is not shut down, every queued
\* task is taken, whatever happened to the other consumers.
EveryTaskIsTaken ==
    [](running /\ Dead # Workers) => \A t \in Tasks : t \in Queued ~> t \notin Queued

\* shutdown() returns, whatever is still queued.
ShutdownReturns == shut = "joining" ~> shut = "returned"

\* After that nothing runs any more, for good: a task that is still queued, or
\* is put later by an add_task that had passed its test of _running, stays on
\* the queue, and nobody gets an answer.
NothingRunsAfterShutdown ==
    [][shut = "returned" =>
          /\ UNCHANGED <<worker, task>>
          /\ Queued \subseteq Queued'
          /\ \A t \in Tasks : future'[t] \in {"value", "error"} => future'[t] = future[t]]_vars

\* The docstring of shutdown (line 48, "shut the queue down gracefully"): when
\* it returns nobody is left waiting for an accepted task that nobody will run.
GracefulShutdown ==
    shut = "returned" => ~\E t \in Tasks : caller[t] = "waiting" /\ future[t] = "pending"

\* What the queue promises to one task, without threads.
Ledger == INSTANCE TaskLedger WITH
    entry <- [t \in Tasks |->
        IF future[t] = "none" THEN "new"
        ELSE IF t \in Queued THEN "accepted"
        ELSE IF t \in Held THEN "started"
        ELSE IF t \in Dropped THEN "dropped"
        ELSE "answered"],
    slots <- Cardinality(Workers) - Cardinality(Dead)

ImplementsLedger == Ledger!Spec
============================================================================
