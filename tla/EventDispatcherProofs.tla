----------------------- MODULE EventDispatcherProofs -----------------------
(***************************************************************************)
(* Proofs about EventDispatcher, for every set of events, types and        *)
(* callbacks.  The chain is: the published events are the done, the held   *)
(* and the queued ones, in order (InOrder); the count join() waits on is   *)
(* the number of the latter two (Accounting); hence a joiner is released   *)
(* only when all that was published is done (ShutdownDrained).             *)
(***************************************************************************)
EXTENDS EventDispatcher, TLAPS

\* TypeOK alone is not inductive: that the queue's count stays a natural
\* number when task_done() is called rests on Accounting.
TypeInv == TypeOK /\ Accounting

\* What taking an event gives: a list of one, and subscribers to count to.
LEMMA TakeOK ==
    ASSUME TypeOK, queue # <<>>, Take
    PROVE  /\ hand' \in {<<e>> : e \in Events} /\ hand' # <<>> /\ Len(hand') = 1
           /\ queue' \in Seq(Events) /\ Len(queue') = Len(queue) - 1
           /\ idx' = 0 /\ idx' <= Len(subscribers[TypeOf[hand'[1]]])
           /\ late' \in Nat
           /\ proc' = "iterate"
<1>1. Head(queue) \in Events
  BY DEF TypeOK
<1>2. hand' = <<Head(queue)>> /\ hand'[1] = Head(queue) /\ Len(hand') = 1 /\ hand' # <<>>
  BY DEF Take
<1>3. subscribers[TypeOf[Head(queue)]] \in Seq(Callbacks)
  BY <1>1, TypesAssumption DEF TypeOK
<1>4. 0 <= Len(subscribers[TypeOf[Head(queue)]])
  BY <1>3
<1>5. queue' \in Seq(Events) /\ Len(queue') = Len(queue) - 1
  BY DEF Take, TypeOK
<1> QED
  BY <1>1, <1>2, <1>4, <1>5 DEF Take, TypeOK

\* Taking an event moves one from the queue to the hand: the count stands.
LEMMA TakeKeeps ==
    ASSUME TypeOK, Accounting, queue # <<>>, hand = <<>>, Take,
           UNCHANGED <<running, subscribers, unfinished, joiner, published, done, promised>>
    PROVE  TypeOK' /\ Accounting'
<1> USE TypesAssumption, MaxSubsAssumption
<1>1. Accounting'
  <2>1. Len(hand) = 0 /\ Len(hand') = 1 /\ Len(queue') = Len(queue) - 1
    BY TakeOK
  <2>2. Len(queue) \in Nat
    BY DEF TypeOK
  <2> QED
    BY <2>1, <2>2 DEF Accounting
<1>2. hand' # <<>> /\ proc' = "iterate"
  BY TakeOK
<1>3. hand' \in {<<>>} \cup {<<e>> : e \in Events} /\ queue' \in Seq(Events) /\ idx' \in Nat
      /\ late' \in Nat
  BY TakeOK
<1>5. called' \in Seq(Callbacks)
  BY DEF Take
<1>4. idx' <= Len(subscribers'[TypeOf[hand'[1]]])
  BY TakeOK
<1> QED
  BY <1>1, <1>2, <1>3, <1>4, <1>5 DEF TypeOK

LEMMA TypeStep == TypeInv /\ [Next]_vars => TypeInv'
<1> SUFFICES ASSUME TypeOK, Accounting, [Next]_vars PROVE TypeOK' /\ Accounting'
  BY DEF TypeInv
<1> USE TypesAssumption, MaxSubsAssumption DEF TypeOK, Accounting
<1>1. ASSUME NEW y \in Types, NEW cb \in Callbacks, Subscribe(y, cb)
      PROVE  TypeOK' /\ Accounting'
  BY <1>1 DEF Subscribe
<1>2. ASSUME NEW e \in Events, Publish(e) PROVE TypeOK' /\ Accounting'
  BY <1>2 DEF Publish
<1>3. CASE Shutdown
  <2>1. Elements(published) \in SUBSET Events
    BY DEF Elements
  <2> QED
    BY <1>3, <2>1 DEF Shutdown
<1>4. CASE JoinReturns
  BY <1>4 DEF JoinReturns
<1>5. CASE Loop
  <2>1. CASE ~running \/ queue = <<>>
    BY <1>5, <2>1 DEF Loop
  <2>2. CASE running /\ queue # <<>>
    <3>1. Take /\ UNCHANGED <<running, subscribers, unfinished, joiner, published, done,
                              promised>> /\ hand = <<>>
      BY <1>5, <2>2 DEF Loop
    <3> QED
      BY <2>2, <3>1, TakeKeeps
  <2> QED
    BY <2>1, <2>2
<1>6. CASE Wake
  <2>1. Take /\ UNCHANGED <<running, subscribers, unfinished, joiner, published, done,
                            promised>> /\ hand = <<>> /\ queue # <<>>
    BY <1>6 DEF Wake
  <2> QED
    BY <2>1, TakeKeeps
<1>7. CASE Call
  BY <1>7 DEF Call
<1>8. CASE TaskDone
  <2>1. hand \in {<<e>> : e \in Events} /\ hand[1] \in Events /\ Len(hand) = 1
    BY <1>8 DEF TaskDone
  <2>2. Len(queue) \in Nat /\ unfinished = Len(queue) + 1
    BY <2>1
  <2>3. unfinished' = Len(queue) /\ hand' = <<>> /\ Len(hand') = 0 /\ queue' = queue
    BY <1>8, <2>2 DEF TaskDone
  <2>4. done' \in Seq(Events) /\ unfinished' \in Nat
    BY <1>8, <2>1, <2>2, <2>3 DEF TaskDone
  <2> QED
    BY <1>8, <2>3, <2>4 DEF TaskDone
<1>9. CASE Start
  BY <1>9 DEF Start
<1>10. CASE CallbackEnds
  BY <1>10 DEF CallbackEnds
<1>11. CASE CallbackCancelled
  BY <1>11 DEF CallbackCancelled
<1>12. CASE UNCHANGED vars
  BY <1>12 DEF vars
<1> QED
  BY <1>1, <1>2, <1>3, <1>4, <1>5, <1>6, <1>7, <1>8, <1>9, <1>10, <1>11, <1>12
  DEF Next, Process

LEMMA TypeInvHolds == Spec => []TypeInv
<1>1. Init => TypeInv
  BY TypesAssumption DEF Init, TypeInv, TypeOK, Accounting
<1> QED
  BY <1>1, TypeStep, PTL DEF Spec

\* Type correctness: the processor holds an event exactly while it delivers
\* one or died doing so, and _running is cleared by shutdown() alone.
THEOREM TypeCorrect == Spec => []TypeOK
BY TypeInvHolds, PTL DEF TypeInv

\* join() waits on exactly the events that are queued or in hand.
THEOREM AccountingHolds == Spec => []Accounting
BY TypeInvHolds, PTL DEF TypeInv

----------------------------------------------------------------------------
\* Order.  A held event stands between the done and the queued ones, so moving
\* it along leaves the concatenation as it is.

LEMMA HeadTail ==
    ASSUME NEW s \in Seq(Events), s # <<>>
    PROVE  <<Head(s)>> \o Tail(s) = s
OBVIOUS

LEMMA AppendConcat ==
    ASSUME NEW s \in Seq(Events), NEW t \in Seq(Events), NEW e \in Events
    PROVE  Append(s \o t, e) = s \o Append(t, e)
OBVIOUS

LEMMA OrderTake ==
    ASSUME TypeOK, InOrder, queue # <<>>, hand = <<>>, Take,
           UNCHANGED <<done, published>>
    PROVE  InOrder'
<1>1. queue \in Seq(Events) /\ done \in Seq(Events)
  BY DEF TypeOK
<1>2. published = done \o queue
  BY <1>1 DEF InOrder
<1>3. hand' = <<Head(queue)>> /\ queue' = Tail(queue)
  BY DEF Take
<1>4. <<Head(queue)>> \o Tail(queue) = queue
  BY <1>1, HeadTail
<1>5. Head(queue) \in Events /\ Tail(queue) \in Seq(Events)
  BY <1>1
<1>6. (done \o <<Head(queue)>>) \o Tail(queue) = done \o (<<Head(queue)>> \o Tail(queue))
  BY <1>1, <1>5
<1> QED
  BY <1>2, <1>3, <1>4, <1>6 DEF InOrder

LEMMA OrderStep == TypeOK /\ InOrder /\ [Next]_vars => InOrder'
<1> SUFFICES ASSUME TypeOK, InOrder, [Next]_vars PROVE InOrder'
  OBVIOUS
<1>1. CASE UNCHANGED <<published, done, hand, queue>>
  BY <1>1 DEF InOrder
<1>2. ASSUME NEW e \in Events, Publish(e) PROVE InOrder'
  <2>1. done \o hand \in Seq(Events) /\ queue \in Seq(Events)
    <3>1. done \in Seq(Events) /\ queue \in Seq(Events)
      BY DEF TypeOK
    <3>2. CASE hand = <<>>
      BY <3>1, <3>2
    <3>3. CASE \E x \in Events : hand = <<x>>
      BY <3>1, <3>3
    <3> QED
      BY <3>1, <3>2, <3>3 DEF TypeOK
  <2>2. published' = Append(published, e) /\ queue' = Append(queue, e)
        /\ done' = done /\ hand' = hand
    BY <1>2 DEF Publish
  <2>3. Append((done \o hand) \o queue, e) = (done \o hand) \o Append(queue, e)
    BY <2>1, AppendConcat
  <2> QED
    BY <2>2, <2>3 DEF InOrder
<1>3. CASE Loop \/ Wake
  <2>1. CASE UNCHANGED <<hand, queue>>
    BY <1>1, <1>3, <2>1 DEF Loop, Wake
  <2>2. CASE queue # <<>> /\ Take
    <3>1. hand = <<>> /\ UNCHANGED <<done, published>>
      BY <1>3 DEF Loop, Wake, TypeOK
    <3> QED
      BY <2>2, <3>1, OrderTake
  <2> QED
    BY <1>3, <2>1, <2>2 DEF Loop, Wake
<1>4. CASE TaskDone
  <2>1. hand \in {<<e>> : e \in Events} /\ done \in Seq(Events) /\ queue \in Seq(Events)
    BY <1>4 DEF TaskDone, TypeOK
  <2>2. hand = <<hand[1]>> /\ hand[1] \in Events
    BY <2>1
  <2>3. done' = Append(done, hand[1]) /\ hand' = <<>> /\ queue' = queue
        /\ published' = published
    BY <1>4 DEF TaskDone
  <2>4. Append(done, hand[1]) \o <<>> = done \o <<hand[1]>>
    BY <2>1, <2>2
  <2> QED
    BY <2>2, <2>3, <2>4 DEF InOrder
<1> QED
  BY <1>1, <1>2, <1>3, <1>4
  DEF Next, Process, Subscribe, Shutdown, JoinReturns, Start, Call, CallbackEnds,
      CallbackCancelled, vars

\* Events are done in the order of publication, none lost and none twice.
THEOREM OrderHolds == Spec => []InOrder
<1>1. Init => InOrder
  BY DEF Init, InOrder
<1> QED
  BY <1>1, OrderStep, TypeCorrect, PTL DEF Spec

----------------------------------------------------------------------------
\* The late event.  Only a get() that was already blocked when _running was
\* cleared can still take one: after that the loop condition is false, so the
\* processor never waits for the queue again.
LateInv ==
    /\ running => late = 0
    /\ ~running => late <= 1
    /\ proc = "getting" => late = 0

LEMMA LateStep == TypeOK /\ LateInv /\ [Next]_vars => LateInv'
<1> SUFFICES ASSUME TypeOK, LateInv, [Next]_vars PROVE LateInv'
  OBVIOUS
<1> USE DEF LateInv, TypeOK
<1>1. CASE UNCHANGED <<running, late, proc>>
  BY <1>1
<1>2. CASE Shutdown
  BY <1>2 DEF Shutdown
<1>3. CASE Loop
  BY <1>3 DEF Loop, Take
<1>4. CASE Wake
  BY <1>4 DEF Wake, Take
<1>5. CASE Start \/ Call \/ TaskDone \/ CallbackEnds \/ CallbackCancelled
  BY <1>5 DEF Start, Call, TaskDone, CallbackEnds, CallbackCancelled
<1> QED
  BY <1>1, <1>2, <1>3, <1>4, <1>5
  DEF Next, Process, Subscribe, Publish, JoinReturns, vars

\* Once _running is cleared the processor takes at most one more event.
THEOREM LateHolds == Spec => []AtMostOneLate
<1>1. Init => LateInv
  BY DEF Init, LateInv
<1>2. TypeOK /\ LateInv => AtMostOneLate
  BY DEF TypeOK, LateInv, AtMostOneLate
<1> QED
  BY <1>1, <1>2, LateStep, TypeCorrect, PTL DEF Spec

----------------------------------------------------------------------------
\* Draining.  The joiner is let go at the moment the count is zero: by
\* Accounting nothing is queued or in hand then, so by InOrder the events done
\* are those published, the promised ones among them; and done only grows.
DrainInv ==
    /\ promised \subseteq Elements(published)
    /\ joiner \in {"released", "returned"} => promised \subseteq Elements(done)

LEMMA AllDone ==
    ASSUME TypeOK, Accounting, InOrder, unfinished = 0
    PROVE  published = done
<1>1. Len(queue) \in Nat /\ Len(hand) \in Nat
  BY DEF TypeOK
<1>2. Len(queue) = 0 /\ Len(hand) = 0
  BY <1>1 DEF Accounting
<1>3. queue = <<>> /\ hand = <<>> /\ done \in Seq(Events)
  BY <1>2 DEF TypeOK
<1> QED
  BY <1>3 DEF InOrder

LEMMA ElementsAppend ==
    ASSUME NEW s \in Seq(Events), NEW e \in Events
    PROVE  Elements(s) \subseteq Elements(Append(s, e))
BY DEF Elements

LEMMA DrainStep ==
    TypeInv /\ InOrder /\ DrainInv /\ [Next]_vars /\ TypeInv' /\ InOrder' => DrainInv'
<1> SUFFICES ASSUME TypeInv, InOrder, DrainInv, [Next]_vars, TypeInv', InOrder'
             PROVE  DrainInv'
  OBVIOUS
<1>0. TypeOK /\ Accounting /\ TypeOK' /\ Accounting'
  BY DEF TypeInv
<1>1. CASE UNCHANGED <<promised, published, done, joiner>>
  BY <1>1 DEF DrainInv, Elements
<1>2. ASSUME NEW e \in Events, Publish(e) PROVE DrainInv'
  <2>1. published \in Seq(Events) /\ published' = Append(published, e)
    BY <1>0, <1>2 DEF Publish, TypeOK
  <2>2. Elements(published) \subseteq Elements(published')
    BY <2>1, ElementsAppend
  <2>3. UNCHANGED <<promised, done, joiner>>
    BY <1>2 DEF Publish
  <2>4. Elements(done') = Elements(done)
    BY <2>3
  <2>5. promised' \subseteq Elements(published')
    BY <2>2, <2>3 DEF DrainInv
  <2>6. Elements(published)' = Elements(published') /\ Elements(done)' = Elements(done')
    BY DEF Elements
  <2> QED
    BY <2>3, <2>4, <2>5, <2>6 DEF DrainInv
<1>3. CASE Shutdown
  <2>1. promised' = Elements(published) /\ UNCHANGED <<published, done, unfinished>>
    BY <1>3 DEF Shutdown
  <2>2. joiner' \in {"released", "returned"} => unfinished = 0
    BY <1>3 DEF Shutdown
  <2>3. unfinished = 0 => published = done
    BY <1>0, AllDone
  <2>4. Elements(published)' = Elements(published) /\ Elements(done)' = Elements(done)
    BY <2>1 DEF Elements
  <2> QED
    BY <2>1, <2>2, <2>3, <2>4 DEF DrainInv
<1>4. CASE JoinReturns
  <2>1. joiner = "released" /\ UNCHANGED <<promised, published, done>>
    BY <1>4 DEF JoinReturns
  <2>2. Elements(published)' = Elements(published) /\ Elements(done)' = Elements(done)
    BY <2>1 DEF Elements
  <2> QED
    BY <2>1, <2>2 DEF DrainInv
<1>5. CASE TaskDone
  <2>1. UNCHANGED <<promised, published, queue>> /\ hand' = <<>>
    BY <1>5 DEF TaskDone
  <2>2. hand \in {<<e>> : e \in Events} /\ hand[1] \in Events /\ done \in Seq(Events)
    BY <1>0, <1>5 DEF TaskDone, TypeOK
  <2>3. done' = Append(done, hand[1])
    BY <1>5 DEF TaskDone
  <2>4. Elements(done) \subseteq Elements(done')
    BY <2>2, <2>3, ElementsAppend
  <2>5. Elements(published)' = Elements(published) /\ Elements(done)' = Elements(done')
    BY <2>1 DEF Elements
  <2>6. CASE joiner' = joiner
    BY <2>1, <2>4, <2>5, <2>6 DEF DrainInv
  <2>7. CASE joiner' # joiner
    <3>1. unfinished' = 0
      BY <1>0, <1>5, <2>7 DEF TaskDone, TypeOK
    <3>2. published' = done'
      <4>1. Len(queue') \in Nat /\ Len(hand') = 0
        BY <1>0, <2>1 DEF TypeOK
      <4>2. unfinished' = Len(queue') + Len(hand')
        BY <1>0 DEF Accounting
      <4>3. queue' = <<>> /\ done' \in Seq(Events)
        BY <1>0, <3>1, <4>1, <4>2 DEF TypeOK
      <4>4. (done' \o <<>>) \o <<>> = done'
        BY <4>3
      <4>5. published' = (done' \o hand') \o queue'
        BY DEF InOrder
      <4> QED
        BY <2>1, <4>3, <4>4, <4>5
    <3> QED
      BY <2>1, <2>5, <3>2 DEF DrainInv
  <2> QED
    BY <2>6, <2>7
<1> QED
  BY <1>1, <1>2, <1>3, <1>4, <1>5
  DEF Next, Process, Subscribe, Start, Loop, Wake, Take, Call, CallbackEnds,
      CallbackCancelled, vars

\* What was published before shutdown() is done when shutdown() returns.
THEOREM DrainHolds == Spec => []ShutdownDrained
<1>1. Init => DrainInv
  BY DEF Init, DrainInv, Elements
<1>2. DrainInv => ShutdownDrained
  BY DEF DrainInv, ShutdownDrained
<1> QED
  BY <1>1, <1>2, DrainStep, TypeInvHolds, OrderHolds, PTL DEF Spec

\* What was called for the event in hand is the beginning of its subscribers'
\* list: a subscription made meanwhile goes to the end of that list.
CalledInv ==
    hand # <<>> =>
        /\ Len(called) = idx
        /\ \A i \in 1..idx : called[i] = subscribers[TypeOf[hand[1]]][i]

LEMMA CalledStep == TypeOK /\ CalledInv /\ [Next]_vars => CalledInv'
<1> SUFFICES ASSUME TypeOK, CalledInv, [Next]_vars, hand' # <<>>
             PROVE  /\ Len(called') = idx'
                    /\ \A i \in 1..idx' : called'[i] = subscribers'[TypeOf[hand'[1]]][i]
  BY DEF CalledInv
<1> DEFINE L == subscribers[TypeOf[hand[1]]]
<1>0. called \in Seq(Callbacks) /\ idx \in Nat /\ subscribers \in [Types -> Seq(Callbacks)]
  BY DEF TypeOK
<1>1. CASE UNCHANGED <<hand, idx, called, subscribers>>
  BY <1>1 DEF CalledInv
<1>2. ASSUME NEW y \in Types, NEW cb \in Callbacks, Subscribe(y, cb)
      PROVE  /\ Len(called') = idx'
             /\ \A i \in 1..idx' : called'[i] = subscribers'[TypeOf[hand'[1]]][i]
  <2>1. /\ UNCHANGED <<hand, idx, called>>
        /\ subscribers' = [subscribers EXCEPT ![y] = Append(@, cb)]
    BY <1>2 DEF Subscribe
  <2>2. hand[1] \in Events /\ idx <= Len(L)
    BY <2>1 DEF TypeOK
  <2>3. L \in Seq(Callbacks)
    BY <1>0, <2>2, TypesAssumption
  <2>4. ASSUME NEW i \in 1..idx PROVE subscribers'[TypeOf[hand[1]]][i] = L[i]
    <3>1. i \in 1..Len(L)
      BY <1>0, <2>2, <2>3
    <3> QED
      BY <1>0, <2>1, <2>2, <2>3, <3>1, TypesAssumption
  <2> QED
    BY <2>1, <2>4 DEF CalledInv
<1>3. CASE (Loop \/ Wake) /\ Take
  BY <1>3 DEF Take
<1>4. CASE Call
  <2>1. hand \in {<<e>> : e \in Events} /\ hand[1] \in Events /\ L \in Seq(Callbacks)
    BY <1>0, <1>4, TypesAssumption DEF Call, TypeOK
  <2>2. /\ idx < Len(L) /\ idx' = idx + 1 /\ called' = Append(called, L[idx + 1])
        /\ UNCHANGED <<hand, subscribers>>
    BY <1>4 DEF Call
  <2>3. Len(called) = idx /\ \A i \in 1..idx : called[i] = L[i]
    BY <2>2 DEF CalledInv
  <2>4. L[idx + 1] \in Callbacks
    BY <1>0, <2>1, <2>2
  <2>5. Len(called') = idx' /\ \A i \in 1..idx' : called'[i] = L[i]
    BY <1>0, <2>2, <2>3, <2>4
  <2> QED
    BY <2>2, <2>5
<1>5. CASE TaskDone
  BY <1>5 DEF TaskDone
<1> QED
  BY <1>1, <1>2, <1>3, <1>4, <1>5
  DEF Next, Process, Publish, Shutdown, JoinReturns, Start, Loop, Wake, CallbackEnds,
      CallbackCancelled, vars

\* Only task_done() adds to what is done.
LEMMA DoneBy == [Next]_vars /\ done' # done => TaskDone
  BY DEF Next, Process, Subscribe, Publish, Shutdown, JoinReturns, Start, Loop, Wake,
         Take, Call, CallbackEnds, CallbackCancelled, vars

\* When an event is done, exactly the subscribers to its type have been called,
\* each once and in order, those subscribed during the delivery included.
THEOREM CallbacksCalled == Spec => AllCallbacksCalled
<1>1. Init => CalledInv
  BY DEF Init, CalledInv
<1>2. TypeOK /\ CalledInv /\ [Next]_vars =>
        [done' # done => called = subscribers[TypeOf[hand[1]]]]_vars
  <2> SUFFICES ASSUME TypeOK, CalledInv, [Next]_vars, done' # done
               PROVE  called = subscribers[TypeOf[hand[1]]]
    OBVIOUS
  <2>1. TaskDone
    BY DoneBy
  <2>2. hand # <<>> /\ hand[1] \in Events /\ idx = Len(subscribers[TypeOf[hand[1]]])
    BY <2>1 DEF TaskDone, TypeOK
  <2>3. called \in Seq(Callbacks) /\ subscribers[TypeOf[hand[1]]] \in Seq(Callbacks)
    BY <2>2, TypesAssumption DEF TypeOK
  <2> QED
    BY <2>2, <2>3 DEF CalledInv
<1> QED
  BY <1>1, <1>2, CalledStep, TypeCorrect, PTL DEF Spec, AllCallbacksCalled

----------------------------------------------------------------------------
\* The refinement.  By InOrder what is done is where the log begins, and the
\* event in hand is the next one.
LEMMA HandIsNext ==
    ASSUME TypeOK, InOrder, hand # <<>>
    PROVE  /\ Len(done) \in Nat /\ Len(done) < Len(published)
           /\ published[Len(done) + 1] = hand[1]
<1>1. done \in Seq(Events) /\ queue \in Seq(Events)
  BY DEF TypeOK
<1>2. PICK e \in Events : hand = <<e>>
  BY DEF TypeOK
<1>3. done \o hand = Append(done, e)
  BY <1>1, <1>2
<1>4. published = Append(done, e) \o queue
  BY <1>3 DEF InOrder
<1>5. /\ Append(done, e) \in Seq(Events) /\ Len(Append(done, e)) = Len(done) + 1
      /\ Append(done, e)[Len(done) + 1] = e
  BY <1>1
<1>6. Len(published) = Len(done) + 1 + Len(queue) /\ Len(done) \in Nat /\ Len(queue) \in Nat
  BY <1>1, <1>4, <1>5
<1>7. published[Len(done) + 1] = e
  BY <1>1, <1>4, <1>5, <1>6
<1> QED
  BY <1>2, <1>6, <1>7

\* What the log says of each step.
LEMMA LogPublish ==
    ASSUME NEW e \in Events, Publish(e)
    PROVE  Log!Publish(e)
<1>1. Log!Elements(published) = Elements(published)
  BY DEF Log!Elements, Elements
<1> QED
  BY <1>1 DEF Publish, Log!Publish

LEMMA LogDeliver ==
    ASSUME TypeOK, InOrder, TaskDone
    PROVE  Log!Deliver
<1>1. hand # <<>>
  BY DEF TaskDone, TypeOK
<1>2. done' = Append(done, hand[1]) /\ UNCHANGED <<published, promised>>
      /\ \/ joiner' = joiner
         \/ joiner = "waiting" /\ joiner' = "released"
  BY DEF TaskDone
<1>3. Len(done) < Len(published) /\ published[Len(done) + 1] = hand[1]
  BY <1>1, HandIsNext
<1> QED
  BY <1>2, <1>3 DEF Log!Deliver

LEMMA LogFlush ==
    ASSUME TypeOK, Accounting, InOrder, Shutdown
    PROVE  Log!Flush
<1>1. Log!Elements(published) = Elements(published)
  BY DEF Log!Elements, Elements
<1>2. unfinished = 0 => done = published
  BY AllDone
<1> QED
  BY <1>1, <1>2 DEF Shutdown, Log!Flush

LEMMA LogReturns ==
    ASSUME DrainInv, JoinReturns
    PROVE  Log!FlushReturns
<1>1. promised \subseteq Elements(done)
  BY DEF JoinReturns, DrainInv
<1>2. Log!Elements(done) = Elements(done)
  BY DEF Log!Elements, Elements
<1> QED
  BY <1>1, <1>2 DEF JoinReturns, Log!FlushReturns

\* The dispatcher implements the log: publish appends, task_done() delivers the
\* next event of the log and no other, shutdown() is the flush, which returns
\* after all it found; all other steps do not show.
THEOREM LogImplemented == Spec => ImplementsLog
<1> DEFINE Inv == TypeInv /\ InOrder /\ DrainInv
<1>1. Init => Log!Init
  BY DEF Init, Log!Init
<1>2. Inv /\ [Next]_vars => [Log!Next]_(Log!vars)
  <2> SUFFICES ASSUME TypeOK, Accounting, InOrder, DrainInv, [Next]_vars
               PROVE  [Log!Next]_(Log!vars)
    BY DEF TypeInv
  <2>1. ASSUME NEW e \in Events, Publish(e) PROVE Log!Next
    BY <2>1, LogPublish DEF Log!Next
  <2>2. CASE TaskDone
    BY <2>2, LogDeliver DEF Log!Next
  <2>3. CASE Shutdown
    BY <2>3, LogFlush DEF Log!Next
  <2>4. CASE JoinReturns
    BY <2>4, LogReturns DEF Log!Next
  <2>5. CASE UNCHANGED <<published, done, joiner, promised>>
    BY <2>5 DEF Log!vars
  <2> QED
    BY <2>1, <2>2, <2>3, <2>4, <2>5
    DEF Next, Process, Subscribe, Start, Loop, Wake, Take, Call, CallbackEnds,
        CallbackCancelled, vars
<1>3. Spec => []Inv
  <2>1. Init => DrainInv
    BY DEF Init, DrainInv, Elements
  <2> QED
    BY <2>1, DrainStep, TypeInvHolds, OrderHolds, PTL DEF Spec
<1> QED
  BY <1>1, <1>2, <1>3, PTL DEF Spec, ImplementsLog, Log!Spec
============================================================================
