-------------------------- MODULE EventDispatcher --------------------------
(***************************************************************************)
(* EventDispatcher of services/event_dispatcher.py: one processor task     *)
(* takes events off an asyncio.Queue and awaits every subscriber of their  *)
(* type in turn; shutdown clears _running and joins the queue.             *)
(*                                                                         *)
(* All coroutines share one event loop.  The processor gives the loop up   *)
(* only in queue.get() on an empty queue and in a callback, so the other   *)
(* coroutines are guarded by Suspended.                                    *)
(*                                                                         *)
(* What is published is an Event, as the annotation of publish() says.     *)
(* Anything else would raise at line 45 and be logged at 53 without its    *)
(* task_done(), and join() would wait for it for ever.                     *)
(***************************************************************************)
EXTENDS Naturals, Sequences, FiniteSets

CONSTANTS
    Events,      \* the events published, each one publish() call
    Types,       \* EventType
    TypeOf,      \* event_type of each event
    Callbacks,   \* subscriber coroutines
    MaxSubs      \* bound: subscribers per type

ASSUME TypesAssumption == TypeOf \in [Events -> Types]
ASSUME MaxSubsAssumption == MaxSubs \in Nat

VARIABLES
    running,      \* self._running
    subscribers,  \* self.subscribers: a list per type, empty when absent
    queue,        \* self.queue
    unfinished,   \* the queue's count of events without task_done()
    proc,         \* where _process_events is
    hand,         \* the event it holds, as a sequence of at most one
    idx,          \* where the loop over its subscribers' list is
    called,       \* history: the callbacks called with it, in order
    joiner,       \* where shutdown() is
    published,    \* history: the events put, in order
    done,         \* history: the events given task_done(), in order
    promised,     \* history: the events published when shutdown() was called
    late          \* history: events taken since then

vars == <<running, subscribers, queue, unfinished, proc, hand, idx, called, joiner,
          published, done, promised, late>>

Elements(s) == {s[i] : i \in 1..Len(s)}

TypeOK ==
    /\ running \in BOOLEAN
    /\ subscribers \in [Types -> Seq(Callbacks)]
    /\ queue \in Seq(Events)
    /\ unfinished \in Nat
    /\ proc \in {"new", "loop", "getting", "iterate", "callback", "stopped", "dead"}
    /\ hand \in {<<>>} \cup {<<e>> : e \in Events}
    /\ idx \in Nat
    /\ called \in Seq(Callbacks)
    /\ joiner \in {"no", "waiting", "released", "returned"}
    /\ published \in Seq(Events)
    /\ done \in Seq(Events)
    /\ promised \in SUBSET Events
    /\ late \in Nat
    /\ proc \in {"iterate", "callback", "dead"} <=> hand # <<>>
    /\ hand # <<>> => idx <= Len(subscribers[TypeOf[hand[1]]])
    /\ running <=> joiner = "no"

\* The processor is not on the event loop: another coroutine can be.
Suspended == proc \notin {"loop", "iterate"}

Init ==
    /\ running = TRUE
    /\ subscribers = [y \in Types |-> <<>>]
    /\ queue = <<>>
    /\ unfinished = 0
    /\ proc = "new"
    /\ hand = <<>>
    /\ idx = 0
    /\ called = <<>>
    /\ joiner = "no"
    /\ published = <<>>
    /\ done = <<>>
    /\ promised = {}
    /\ late = 0

\* Mutant: the newest subscriber comes first (list.insert(0, callback)).
Subscribe_First(y, cb) ==
    /\ Suspended
    /\ Len(subscribers[y]) < MaxSubs
    /\ subscribers' = [subscribers EXCEPT ![y] = <<cb>> \o @]
    /\ UNCHANGED <<running, queue, unfinished, proc, hand, idx, called, joiner, published,
                   done, promised, late>>

\* subscribe(event_type, callback); a callback may subscribe another one.
Subscribe(y, cb) ==
    /\ Suspended
    /\ Len(subscribers[y]) < MaxSubs
    /\ subscribers' = [subscribers EXCEPT ![y] = Append(@, cb)]
    /\ UNCHANGED <<running, queue, unfinished, proc, hand, idx, called, joiner, published,
                   done, promised, late>>

\* publish(event): _running is not consulted, the queue is unbounded.
Publish(e) ==
    /\ Suspended
    /\ e \notin Elements(published)
    /\ queue' = Append(queue, e)
    /\ unfinished' = unfinished + 1
    /\ published' = Append(published, e)
    /\ UNCHANGED <<running, subscribers, proc, hand, idx, called, joiner, done, promised, late>>

\* shutdown() up to the await of queue.join(), which returns at once when
\* nothing is unfinished.
Shutdown ==
    /\ Suspended
    /\ joiner = "no"
    /\ running' = FALSE
    /\ joiner' = IF unfinished = 0 THEN "returned" ELSE "waiting"
    /\ promised' = Elements(published)
    /\ UNCHANGED <<subscribers, queue, unfinished, proc, hand, idx, called, published, done, late>>

\* The coroutine in join() runs again after the count has reached zero.
JoinReturns ==
    /\ Suspended
    /\ joiner = "released"
    /\ joiner' = "returned"
    /\ UNCHANGED <<running, subscribers, queue, unfinished, proc, hand, idx, called, published,
                   done, promised, late>>

\* Mutant: the newest event is taken (asyncio.LifoQueue).
Take_Newest ==
    /\ hand' = <<queue[Len(queue)]>>
    /\ queue' = SubSeq(queue, 1, Len(queue) - 1)
    /\ idx' = 0
    /\ called' = <<>>
    /\ late' = IF running THEN late ELSE late + 1
    /\ proc' = "iterate"

\* queue.get() hands the processor an event.
Take ==
    /\ hand' = <<Head(queue)>>
    /\ queue' = Tail(queue)
    /\ idx' = 0
    /\ called' = <<>>
    /\ late' = IF running THEN late ELSE late + 1
    /\ proc' = "iterate"

\* The task scheduled by the constructor gets its first turn.
Start ==
    /\ proc = "new"
    /\ proc' = "loop"
    /\ UNCHANGED <<running, subscribers, queue, unfinished, hand, idx, called, joiner, published,
                   done, promised, late>>

\* Mutant: "while True".
Loop_Always ==
    /\ proc = "loop"
    /\ \/ queue = <<>> /\ proc' = "getting" /\ UNCHANGED <<queue, hand, idx, called, late>>
       \/ queue # <<>> /\ Take
    /\ UNCHANGED <<running, subscribers, unfinished, joiner, published, done, promised>>

\* Mutant: the processor leaves its loop when the queue is empty.
Loop_LeavesIdle ==
    /\ proc = "loop"
    /\ \/ (~running \/ queue = <<>>) /\ proc' = "stopped"
          /\ UNCHANGED <<queue, hand, idx, called, late>>
       \/ running /\ queue # <<>> /\ Take
    /\ UNCHANGED <<running, subscribers, unfinished, joiner, published, done, promised>>

\* while self._running: event = await self.queue.get()
Loop ==
    /\ proc = "loop"
    /\ \/ ~running /\ proc' = "stopped" /\ UNCHANGED <<queue, hand, idx, called, late>>
       \/ running /\ queue = <<>> /\ proc' = "getting" /\ UNCHANGED <<queue, hand, idx, called, late>>
       \/ running /\ queue # <<>> /\ Take
    /\ UNCHANGED <<running, subscribers, unfinished, joiner, published, done, promised>>

\* A get() that was blocked on an empty queue returns; _running is not looked
\* at again before the event is delivered.
Wake ==
    /\ proc = "getting"
    /\ queue # <<>>
    /\ Take
    /\ UNCHANGED <<running, subscribers, unfinished, joiner, published, done, promised>>

\* for callback in self.subscribers[...]: the list is read live.
Call ==
    /\ proc = "iterate"
    /\ idx < Len(subscribers[TypeOf[hand[1]]])
    /\ idx' = idx + 1
    /\ called' = Append(called, subscribers[TypeOf[hand[1]]][idx + 1])
    /\ proc' = "callback"
    /\ UNCHANGED <<running, subscribers, queue, unfinished, hand, joiner, published, done,
                   promised, late>>

\* Mutant: task_done() is indented into the branch for subscribed types, so that
\* an event without subscribers is not counted off.
TaskDone_OnlySubscribed ==
    /\ proc = "iterate"
    /\ idx = Len(subscribers[TypeOf[hand[1]]])
    /\ unfinished' = IF idx = 0 THEN unfinished ELSE unfinished - 1
    /\ joiner' = IF joiner = "waiting" /\ unfinished' = 0 THEN "released" ELSE joiner
    /\ done' = Append(done, hand[1])
    /\ hand' = <<>>
    /\ idx' = 0
    /\ called' = <<>>
    /\ proc' = "loop"
    /\ UNCHANGED <<running, subscribers, queue, published, promised, late>>

\* No callback is left: task_done(), which wakes the joiner at zero.
TaskDone ==
    /\ proc = "iterate"
    /\ idx = Len(subscribers[TypeOf[hand[1]]])
    /\ unfinished' = unfinished - 1
    /\ joiner' = IF joiner = "waiting" /\ unfinished = 1 THEN "released" ELSE joiner
    /\ done' = Append(done, hand[1])
    /\ hand' = <<>>
    /\ idx' = 0
    /\ called' = <<>>
    /\ proc' = "loop"
    /\ UNCHANGED <<running, subscribers, queue, published, promised, late>>

\* Mutant: the same callback is called again after an exception, for ever.
CallbackEnds_Retries ==
    /\ proc = "callback"
    /\ UNCHANGED vars

\* Mutant: the exception handler drops the event without clearing the hand.
CallbackEnds_Abandons ==
    /\ proc = "callback"
    /\ proc' = "loop"
    /\ UNCHANGED <<running, subscribers, queue, unfinished, hand, idx, called, joiner, published,
                   done, promised, late>>

\* Mutant: a callback that fails sends its event back to the end of the queue.
CallbackEnds_Requeues ==
    /\ proc = "callback"
    /\ \/ proc' = "iterate" /\ UNCHANGED <<queue, hand, idx, called>>
       \/ /\ proc' = "loop"
          /\ queue' = Append(queue, hand[1])
          /\ hand' = <<>>
          /\ idx' = 0
          /\ called' = <<>>
    /\ UNCHANGED <<running, subscribers, unfinished, joiner, published, done, promised, late>>

\* A callback returns, or raises an Exception that is logged and dropped.
CallbackEnds ==
    /\ proc = "callback"
    /\ proc' = "iterate"
    /\ UNCHANGED <<running, subscribers, queue, unfinished, hand, idx, called, joiner, published,
                   done, promised, late>>

\* A callback ends in CancelledError, which is no Exception: it passes both
\* handlers and the processor task is gone, with the event in its hand.
CallbackCancelled ==
    /\ proc = "callback"
    /\ proc' = "dead"
    /\ UNCHANGED <<running, subscribers, queue, unfinished, hand, idx, called, joiner, published,
                   done, promised, late>>

Process == Start \/ Loop \/ Wake \/ Call \/ TaskDone \/ CallbackEnds

Next ==
    \/ \E y \in Types, cb \in Callbacks : Subscribe(y, cb)
    \/ \E e \in Events : Publish(e)
    \/ Shutdown
    \/ JoinReturns
    \/ Process
    \/ CallbackCancelled

Spec == Init /\ [][Next]_vars

\* The loop schedules the processor and the joiner, and callbacks return.
Fairness == WF_vars(Process) /\ WF_vars(JoinReturns)

FairSpec == Spec /\ Fairness

----------------------------------------------------------------------------
\* Events are delivered in the order of publication, none lost and none twice:
\* what was published is what is done, then in hand, then queued.
InOrder == published = done \o hand \o queue

\* The count join() waits on is the number of events not done: also when a
\* callback failed, the processor stopped, or it died with an event.
Accounting == unfinished = Len(queue) + Len(hand)

\* When shutdown() returns, every event published before it was called has
\* gone through all its callbacks.
ShutdownDrained == joiner = "returned" => promised \subseteq Elements(done)

\* After _running is cleared the processor takes at most one more event: the
\* one a get() was already waiting for.
AtMostOneLate == late <= 1

\* When an event is done, exactly those subscribed to its type have been called
\* with it, each once and in the order of subscription: also when callbacks were
\* subscribed during the delivery, to the list that was being iterated.
AllCallbacksCalled ==
    [][done' # done => called = subscribers[TypeOf[hand[1]]]]_vars

\* While it runs and no callback is cancelled, every event is delivered.
EveryEventDelivered ==
    [](running /\ proc # "dead") =>
        \A e \in Events : e \in Elements(published) ~> e \in Elements(done)

\* After shutdown() the processor comes to rest for good: it ends, dies, or
\* stays in a get() that nobody will ever wake.
ProcessorRests == ~running ~> [](proc \in {"stopped", "dead", "getting"})

\* The docstring of shutdown (line 56, "shut the system down gracefully"): with
\* callbacks that all return, shutdown() drains the queue and comes back.
GracefulShutdown ==
    [](proc # "dead") => (joiner = "waiting" ~> joiner = "returned")

\* What the dispatcher promises: the events delivered are those of the log, in
\* its order, and shutdown() returns after all it found there; subscribers,
\* callbacks that fail or subscribe others, and the death of the processor do
\* not show.
Log == INSTANCE EventLog WITH
    log <- published,
    delivered <- done,
    flush <- IF joiner \in {"waiting", "released"} THEN "asked" ELSE joiner,
    before <- promised

ImplementsLog == Log!Spec
============================================================================
