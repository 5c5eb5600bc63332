-------------------------- MODULE AIServiceProofs --------------------------
(***************************************************************************)
(* Proofs about AIService, for every set of callers, every set of          *)
(* providers, every threshold and every number of retries.                 *)
(*                                                                         *)
(* The bound on the failure counts is not inductive by itself: a count     *)
(* grows by one per caller in flight, so the invariant has to weigh the    *)
(* count of a disabled provider together with the callers still waiting    *)
(* for it (FailureBudget), and needs that no caller is sent to a disabled  *)
(* provider (WalkInFlight).                                                *)
(***************************************************************************)
EXTENDS AIService, FiniteSetTheorems, TLAPS

Names == Providers \cup {Unknown}

\* What a caller's own variables satisfy: the part of TypeOK a walk changes.
CallersOK ==
    /\ pc \in [Callers -> {"idle", "calling"}]
    /\ order \in [Callers -> Seq(Names)]
    /\ pos \in [Callers -> Nat]
    /\ attempt \in [Callers -> 0..MaxRetries]
    /\ outcome \in [Callers -> Outcomes]
    /\ \A c \in Callers : pc[c] = "calling" =>
          /\ pos[c] \in 1..Len(order[c])
          /\ order[c][pos[c]] \in Providers
          /\ attempt[c] \in 1..MaxRetries

\* Both ends of a walk, the next request and the return, leave the variables
\* of the callers well typed.
LEMMA EndOK ==
    ASSUME CallersOK, NEW c \in Callers, NEW r \in Outcomes, End(c, r)
    PROVE  CallersOK'
BY MaxRetriesAssumption DEF CallersOK, End

LEMMA SendOK ==
    ASSUME CallersOK, NEW c \in Callers, NEW o \in Seq(Names),
           NEW i \in 1..Len(o), o[i] \in Providers, Send(c, o, i)
    PROVE  CallersOK'
BY MaxRetriesAssumption DEF CallersOK, Send, Outcomes

LEMMA WalkOK ==
    ASSUME CallersOK, NEW c \in Callers, NEW o \in Seq(Names),
           NEW from \in Nat \ {0}, NEW st, Walk(c, o, from, st)
    PROVE  CallersOK'
<1>1. CASE \E i \in from..Len(o) : /\ IsNext(o, from, st, i)
                                    /\ IF o[i] \in Providers THEN Send(c, o, i)
                                                             ELSE End(c, "KeyError")
  <2>1. PICK i \in from..Len(o) : IF o[i] \in Providers THEN Send(c, o, i)
                                                       ELSE End(c, "KeyError")
    BY <1>1
  <2>2. i \in 1..Len(o)
    OBVIOUS
  <2>3. CASE o[i] \in Providers
    BY <2>1, <2>2, <2>3, SendOK
  <2>4. CASE o[i] \notin Providers
    BY <2>1, <2>4, EndOK DEF Outcomes
  <2> QED
    BY <2>3, <2>4
<1>2. CASE End(c, RaiseAPILimitExceeded)
  BY <1>2, EndOK DEF Outcomes, RaiseAPILimitExceeded
<1> QED
  BY <1>1, <1>2 DEF Walk

\* Only the caller that walks changes its place, and it ends up waiting for a
\* provider only if that provider is enabled.
LEMMA WalkInFlight ==
    ASSUME CallersOK, NEW c \in Callers, NEW o \in Seq(Names),
           NEW from \in Nat \ {0}, NEW st, Walk(c, o, from, st)
    PROVE  \A p \in Providers :
              /\ InFlight(p)' \subseteq InFlight(p) \cup {c}
              /\ c \in InFlight(p)' => st[p]
<1> SUFFICES ASSUME NEW p \in Providers
             PROVE  /\ InFlight(p)' \subseteq InFlight(p) \cup {c}
                    /\ c \in InFlight(p)' => st[p]
  OBVIOUS
<1>1. \A d \in Callers \ {c} : pc'[d] = pc[d] /\ order'[d] = order[d] /\ pos'[d] = pos[d]
  BY DEF Walk, End, Send, CallersOK
<1>2. InFlight(p)' \subseteq InFlight(p) \cup {c}
  BY <1>1 DEF InFlight, At
<1>3. ASSUME c \in InFlight(p)' PROVE st[p]
  <2>1. pc'[c] = "calling" /\ order'[c][pos'[c]] = p
    BY <1>3 DEF InFlight, At
  <2>2. ASSUME NEW r, End(c, r) PROVE FALSE
    BY <2>1, <2>2 DEF End, CallersOK
  <2>3. PICK i \in from..Len(o) : IsNext(o, from, st, i) /\ Send(c, o, i)
    BY <2>2 DEF Walk
  <2>4. order'[c][pos'[c]] = o[i]
    BY <2>3 DEF Send, CallersOK
  <2> QED
    BY <2>1, <2>3, <2>4 DEF IsNext, Enabled
<1> QED
  BY <1>2, <1>3

----------------------------------------------------------------------------
LEMMA TypeParts == TypeOK <=> /\ status \in [Providers -> BOOLEAN]
                              /\ fails \in [Providers -> Nat]
                              /\ CallersOK
BY DEF TypeOK, CallersOK, Names

LEMMA OrdersAreLists == \A o \in Orders : o \in Seq(Names)
BY OrdersAssumption DEF Names

\* A suspended caller stands at a provider of its list, so the walk that
\* follows its answer starts inside Nat \ {0}.
LEMMA AtOK ==
    ASSUME CallersOK, NEW c \in Callers, pc[c] = "calling"
    PROVE  /\ At(c) \in Providers
           /\ order[c] \in Seq(Names)
           /\ pos[c] + 1 \in Nat \ {0}
           /\ c \in InFlight(At(c))
BY DEF CallersOK, At, InFlight

\* Type correctness: in particular a suspended caller always has a provider of
\* its own list to wait for, and an attempt number within max_retries.
THEOREM TypeCorrect == Spec => []TypeOK
<1>1. Init => TypeOK
  <2> SUFFICES ASSUME Init PROVE TypeOK
    OBVIOUS
  <2>1. /\ status \in [Providers -> BOOLEAN]
        /\ fails \in [Providers -> Nat]
        /\ pc \in [Callers -> {"idle", "calling"}]
        /\ order \in [Callers -> Seq(Names)]
        /\ pos \in [Callers -> Nat]
        /\ outcome \in [Callers -> Outcomes]
    BY DEF Init, Outcomes
  <2>2. attempt \in [Callers -> 0..MaxRetries]
    BY MaxRetriesAssumption DEF Init
  <2>3. \A c \in Callers : pc[c] # "calling"
    BY DEF Init
  <2> QED
    BY <2>1, <2>2, <2>3 DEF TypeOK, Names
<1>2. TypeOK /\ [Next]_vars => TypeOK'
  <2> SUFFICES ASSUME TypeOK, [Next]_vars PROVE TypeOK'
    OBVIOUS
  <2>0. CallersOK /\ status \in [Providers -> BOOLEAN] /\ fails \in [Providers -> Nat]
    BY TypeParts
  <2>1. ASSUME NEW c \in Callers, Begin(c) PROVE TypeOK'
    <3>1. PICK o \in Orders : Walk(c, o, 1, status)
      BY <2>1 DEF Begin
    <3>2. CallersOK'
      BY <2>0, <3>1, OrdersAreLists, WalkOK
    <3> QED
      BY <2>0, <2>1, <3>2 DEF Begin, TypeOK, CallersOK, Names
  <2>2. ASSUME NEW c \in Callers, Reply(c) PROVE TypeOK'
    <3>1. pc[c] = "calling"
      BY <2>2 DEF Reply, Succeed, Retry, Fail, Ignore, Reject, Gets
    <3>2. At(c) \in Providers /\ order[c] \in Seq(Names) /\ pos[c] + 1 \in Nat \ {0}
      BY <2>0, <3>1, AtOK
    <3>3. CASE Succeed(c)
      <4>1. CallersOK'
        BY <2>0, <3>3, EndOK DEF Succeed, Outcomes
      <4> QED
        BY <2>0, <3>2, <3>3, <4>1 DEF Succeed, ResetFailures, TypeOK, CallersOK, Names
    <3>4. CASE Retry(c)
      BY <2>0, <3>4, MaxRetriesAssumption DEF Retry, Gets, TypeOK
    <3>5. CASE Fail(c)
      <4>1. CallersOK'
        BY <2>0, <3>2, <3>5, WalkOK DEF Fail
      <4>2. status' \in [Providers -> BOOLEAN] /\ fails' \in [Providers -> Nat]
        BY <2>0, <3>2, <3>5, ThresholdAssumption DEF Fail, CountFailure
      <4> QED
        BY <4>1, <4>2 DEF TypeOK, CallersOK, Names
    <3>6. CASE Ignore(c)
      <4>1. CallersOK'
        BY <2>0, <3>2, <3>6, WalkOK DEF Ignore
      <4> QED
        BY <2>0, <3>6, <4>1 DEF Ignore, TypeOK, CallersOK, Names
    <3>7. CASE Reject(c)
      <4>1. CallersOK'
        BY <2>0, <3>2, <3>7, WalkOK DEF Reject
      <4>2. status' \in [Providers -> BOOLEAN] /\ fails' \in [Providers -> Nat]
        BY <2>0, <3>2, <3>7, ThresholdAssumption DEF Reject, ResetThenCount
      <4> QED
        BY <4>1, <4>2 DEF TypeOK, CallersOK, Names
    <3> QED
      BY <2>2, <3>3, <3>4, <3>5, <3>6, <3>7 DEF Reply
  <2>3. ASSUME NEW c \in Callers, Cancelled(c) PROVE TypeOK'
    <3>1. CallersOK'
      BY <2>0, <2>3, EndOK DEF Cancelled, Outcomes
    <3> QED
      BY <2>0, <2>3, <3>1 DEF Cancelled, TypeOK, CallersOK, Names
  <2>4. CASE UNCHANGED vars
    BY <2>4 DEF vars, TypeOK
  <2> QED
    BY <2>1, <2>2, <2>3, <2>4 DEF Next
<1> QED
  BY <1>1, <1>2, PTL DEF Spec

----------------------------------------------------------------------------
\* A provider is disabled exactly while its count is at or past the threshold.
THEOREM BreakerSound == Spec => []BreakerConsistent
<1>1. Init => BreakerConsistent
  BY ThresholdAssumption DEF Init, BreakerConsistent
<1>2. TypeOK /\ BreakerConsistent /\ [Next]_vars => BreakerConsistent'
  <2> SUFFICES ASSUME TypeOK, BreakerConsistent, [Next]_vars PROVE BreakerConsistent'
    OBVIOUS
  <2>0. CallersOK
    BY TypeParts
  <2>1. CASE UNCHANGED <<status, fails>>
    BY <2>1 DEF BreakerConsistent
  <2>2. ASSUME NEW c \in Callers, pc[c] = "calling",
               CountFailure(At(c)) \/ ResetFailures(At(c)) \/ ResetThenCount(At(c))
        PROVE  BreakerConsistent'
    <3>1. At(c) \in Providers
      BY <2>0, <2>2, AtOK
    <3> DEFINE q == At(c)
    <3>2. status[q] \in BOOLEAN /\ fails[q] \in Nat /\ (status[q] <=> fails[q] < Threshold)
      BY <3>1 DEF BreakerConsistent, TypeOK
    <3> HIDE DEF q
    <3>3. \A p \in Providers \ {q} : status'[p] = status[p] /\ fails'[p] = fails[p]
      BY <2>2 DEF CountFailure, ResetFailures, ResetThenCount, TypeOK, q
    <3>4. status'[q] <=> fails'[q] < Threshold
      <4>1. CASE CountFailure(q)
        <5>1. fails'[q] = fails[q] + 1
          BY <3>1, <4>1 DEF CountFailure, TypeOK, q
        <5>2. status'[q] = (status[q] /\ fails[q] + 1 < Threshold)
          BY <3>1, <4>1 DEF CountFailure, TypeOK, q
        <5>3. fails[q] + 1 < Threshold => fails[q] < Threshold
          BY <3>2, ThresholdAssumption
        <5>4. status'[q] <=> fails[q] + 1 < Threshold
          BY <3>2, <5>2, <5>3, Zenon
        <5> QED
          BY <5>1, <5>4
      <4>2. CASE ResetFailures(q)
        BY <3>1, <4>2, ThresholdAssumption DEF ResetFailures, TypeOK, q
      <4>3. CASE ResetThenCount(q)
        BY <3>1, <4>3, ThresholdAssumption DEF ResetThenCount, TypeOK, q
      <4> QED
        BY <2>2, <4>1, <4>2, <4>3 DEF q
    <3> QED
      BY <3>3, <3>4 DEF BreakerConsistent
  <2> QED
    BY <2>1, <2>2 
    DEF Next, Begin, Reply, Cancelled, Succeed, Retry, Fail, Ignore, Reject, Gets, vars
<1> QED
  BY <1>1, <1>2, TypeCorrect, PTL DEF Spec

\* InFlight(p) is a finite set of callers.
LEMMA InFlightFinite ==
    ASSUME NEW p
    PROVE  /\ IsFiniteSet(InFlight(p))
           /\ Cardinality(InFlight(p)) \in Nat
           /\ Cardinality(InFlight(p)) <= Cardinality(Callers)
           /\ Cardinality(Callers) \in Nat
<1>1. InFlight(p) \in SUBSET Callers
  BY DEF InFlight
<1> QED
  BY <1>1, CallersAssumption, FS_Subset, FS_CardinalityType

\* Without a new arrival the number of callers in flight does not grow, and
\* it falls when one of them leaves.
LEMMA InFlightShrinks ==
    ASSUME NEW p, InFlight(p)' \subseteq InFlight(p)
    PROVE  /\ Cardinality(InFlight(p)') \in Nat
           /\ Cardinality(InFlight(p)') <= Cardinality(InFlight(p))
           /\ \A c \in InFlight(p) : c \notin InFlight(p)' =>
                 Cardinality(InFlight(p)') <= Cardinality(InFlight(p)) - 1
<1>1. IsFiniteSet(InFlight(p)) /\ Cardinality(InFlight(p)) \in Nat
  BY InFlightFinite
<1>2. Cardinality(InFlight(p)') <= Cardinality(InFlight(p)) /\ IsFiniteSet(InFlight(p)')
  BY <1>1, FS_Subset
<1>3. Cardinality(InFlight(p)') \in Nat
  BY <1>2, FS_CardinalityType
<1>4. ASSUME NEW c \in InFlight(p), c \notin InFlight(p)'
      PROVE  Cardinality(InFlight(p)') <= Cardinality(InFlight(p)) - 1
  <2>1. InFlight(p)' \in SUBSET (InFlight(p) \ {c})
    BY <1>4
  <2>2. /\ IsFiniteSet(InFlight(p) \ {c})
        /\ Cardinality(InFlight(p) \ {c}) = Cardinality(InFlight(p)) - 1
    BY <1>1, <1>4, FS_RemoveElement
  <2> QED
    BY <2>1, <2>2, FS_Subset
<1> QED
  BY <1>2, <1>3, <1>4

\* Any set of callers that misses one is smaller than the set of callers.
LEMMA OneMissing ==
    ASSUME NEW c \in Callers, NEW S \in SUBSET Callers, c \notin S
    PROVE  /\ Cardinality(S) \in Nat
           /\ Cardinality(S) <= Cardinality(Callers) - 1
<1>1. /\ IsFiniteSet(Callers \ {c})
      /\ Cardinality(Callers \ {c}) = Cardinality(Callers) - 1
  BY CallersAssumption, FS_RemoveElement
<1>2. S \in SUBSET (Callers \ {c})
  OBVIOUS
<1> QED
  BY <1>1, <1>2, FS_Subset, FS_CardinalityType

----------------------------------------------------------------------------
\* The inductive invariant: types, consistency of the two breaker tables, and
\* the budget of the disabled providers.
IInv == TypeOK /\ BreakerConsistent /\ FailureBudget

\* A provider whose tables do not change keeps its budget as long as nobody
\* new waits for it.
LEMMA BudgetKept ==
    ASSUME IInv, NEW p \in Providers, ~status'[p],
           status'[p] = status[p], fails'[p] = fails[p],
           InFlight(p)' \subseteq InFlight(p)
    PROVE  fails'[p] + Cardinality(InFlight(p)') <= Threshold - 1 + Cardinality(Callers)
<1>1. fails[p] + Cardinality(InFlight(p)) <= Threshold - 1 + Cardinality(Callers)
  BY DEF IInv, FailureBudget
<1>2. fails[p] \in Nat
  BY DEF IInv, TypeOK
<1> QED
  BY <1>1, <1>2, InFlightShrinks, InFlightFinite, ThresholdAssumption

\* The provider the answering caller c was at: c leaves it, because a disabled
\* provider is not walked to, so its failure is paid for by its own place.
LEMMA BudgetPaid ==
    ASSUME IInv, NEW c \in Callers, NEW p \in Providers, ~status'[p],
           c \in InFlight(p), c \notin InFlight(p)', InFlight(p)' \subseteq InFlight(p),
           CountFailure(p) \/ ResetThenCount(p)
    PROVE  fails'[p] + Cardinality(InFlight(p)') <= Threshold - 1 + Cardinality(Callers)
<1>1. fails[p] \in Nat /\ (status[p] <=> fails[p] < Threshold)
  BY DEF IInv, TypeOK, BreakerConsistent
<1>2. /\ Cardinality(InFlight(p)') \in Nat
      /\ Cardinality(InFlight(p)') <= Cardinality(InFlight(p)) - 1
      /\ Cardinality(InFlight(p)) \in Nat
      /\ Cardinality(Callers) \in Nat
  BY InFlightShrinks, InFlightFinite
<1>3. Cardinality(InFlight(p)') <= Cardinality(Callers) - 1
  BY <1>2, InFlightFinite
<1>4. CASE CountFailure(p)
  <2>1. fails'[p] = fails[p] + 1
    BY <1>4 DEF CountFailure, IInv, TypeOK
  <2>2. CASE status[p]
    BY <1>1, <1>2, <1>3, <2>1, <2>2, ThresholdAssumption
  <2>3. CASE ~status[p]
    <3>1. fails[p] + Cardinality(InFlight(p)) <= Threshold - 1 + Cardinality(Callers)
      BY <2>3 DEF IInv, FailureBudget
    <3> QED
      BY <1>1, <1>2, <2>1, <3>1, ThresholdAssumption
  <2> QED
    BY <2>2, <2>3
<1>5. CASE ResetThenCount(p)
  <2>1. fails'[p] = 1
    BY <1>5 DEF ResetThenCount, IInv, TypeOK
  <2> QED
    BY <1>2, <1>3, <2>1, ThresholdAssumption
<1> QED
  BY <1>4, <1>5

\* What one answer does to the other providers: nothing.
LEMMA OthersUntouched ==
    ASSUME TypeOK, NEW q \in Providers, NEW p \in Providers \ {q},
           CountFailure(q) \/ ResetThenCount(q) \/ ResetFailures(q)
    PROVE  status'[p] = status[p] /\ fails'[p] = fails[p]
BY DEF CountFailure, ResetThenCount, ResetFailures, TypeOK

LEMMA BudgetStep == IInv /\ [Next]_vars => FailureBudget'
<1> SUFFICES ASSUME IInv, [Next]_vars, NEW p \in Providers, ~status'[p]
             PROVE  fails'[p] + Cardinality(InFlight(p)') <= Threshold - 1 + Cardinality(Callers)
  BY DEF FailureBudget
<1>0. TypeOK /\ CallersOK
  BY TypeParts DEF IInv
<1>1. ASSUME NEW c \in Callers, Begin(c)
      PROVE  fails'[p] + Cardinality(InFlight(p)') <= Threshold - 1 + Cardinality(Callers)
  <2>1. PICK o \in Orders : Walk(c, o, 1, status)
    BY <1>1 DEF Begin
  <2>2. InFlight(p)' \subseteq InFlight(p) \cup {c} /\ (c \in InFlight(p)' => status[p])
    BY <1>0, <2>1, OrdersAreLists, WalkInFlight
  <2>3. status'[p] = status[p] /\ fails'[p] = fails[p]
    BY <1>1 DEF Begin
  <2> QED
    BY <2>2, <2>3, BudgetKept
<1>2. ASSUME NEW c \in Callers, Reply(c)
      PROVE  fails'[p] + Cardinality(InFlight(p)') <= Threshold - 1 + Cardinality(Callers)
  <2>0. pc[c] = "calling"
    BY <1>2 DEF Reply, Succeed, Retry, Fail, Ignore, Reject, Gets
  <2>1. /\ At(c) \in Providers /\ order[c] \in Seq(Names)
        /\ pos[c] + 1 \in Nat \ {0} /\ c \in InFlight(At(c))
    BY <1>0, <2>0, AtOK
  <2>2. CASE Succeed(c)
    <3>1. p # At(c)
      BY <1>0, <2>1, <2>2 DEF Succeed, ResetFailures, TypeOK
    <3>2. InFlight(p)' \subseteq InFlight(p)
      BY <1>0, <2>2 DEF Succeed, End, InFlight, At, CallersOK
    <3> QED
      BY <1>0, <2>1, <2>2, <3>1, <3>2, OthersUntouched, BudgetKept DEF Succeed
  <2>3. CASE Retry(c)
    <3>1. InFlight(p)' \subseteq InFlight(p)
      BY <2>3 DEF Retry, InFlight, At
    <3> QED
      BY <2>3, <3>1, BudgetKept DEF Retry
  <2>4. CASE Ignore(c)
    <3>1. InFlight(p)' \subseteq InFlight(p) \cup {c} /\ (c \in InFlight(p)' => status[p])
      BY <1>0, <2>1, <2>4, WalkInFlight DEF Ignore
    <3> QED
      BY <2>4, <3>1, BudgetKept DEF Ignore
  <2>5. ASSUME CountFailure(At(c)) \/ ResetThenCount(At(c)),
               Walk(c, order[c], pos[c] + 1, status')
        PROVE  fails'[p] + Cardinality(InFlight(p)') <= Threshold - 1 + Cardinality(Callers)
    <3>1. InFlight(p)' \subseteq InFlight(p) \cup {c} /\ (c \in InFlight(p)' => status'[p])
      BY <1>0, <2>1, <2>5, WalkInFlight
    <3>2. CASE p = At(c)
      <4>1. c \in InFlight(p) /\ c \notin InFlight(p)' /\ InFlight(p)' \subseteq InFlight(p)
        BY <2>1, <3>1, <3>2
      <4>2. CountFailure(p) \/ ResetThenCount(p)
        BY <2>5, <3>2
      <4> QED
        BY <4>1, <4>2, BudgetPaid
    <3>3. CASE p # At(c)
      BY <1>0, <2>1, <2>5, <3>1, <3>3, OthersUntouched, BudgetKept
    <3> QED
      BY <3>2, <3>3
  <2> QED
    BY <1>2, <2>2, <2>3, <2>4, <2>5 DEF Reply, Fail, Reject
<1>3. ASSUME NEW c \in Callers, Cancelled(c)
      PROVE  fails'[p] + Cardinality(InFlight(p)') <= Threshold - 1 + Cardinality(Callers)
  <2>1. InFlight(p)' \subseteq InFlight(p)
    BY <1>0, <1>3 DEF Cancelled, End, InFlight, At, CallersOK
  <2> QED
    BY <1>3, <2>1, BudgetKept DEF Cancelled
<1>4. CASE UNCHANGED vars
  <2>1. InFlight(p)' \subseteq InFlight(p)
    BY <1>4 DEF vars, InFlight, At
  <2> QED
    BY <1>4, <2>1, BudgetKept DEF vars
<1> QED
  BY <1>1, <1>2, <1>3, <1>4 DEF Next

\* The budget of every disabled provider, and with it the bound on the counts.
THEOREM BudgetHolds == Spec => []FailureBudget
<1>1. Init => FailureBudget
  BY DEF Init, FailureBudget
<1>2. TypeOK /\ BreakerConsistent /\ FailureBudget /\ [Next]_vars => FailureBudget'
  BY BudgetStep DEF IInv
<1> QED
  BY <1>1, <1>2, TypeCorrect, BreakerSound, PTL DEF Spec

\* No failure count passes threshold - 1 by more than the number of callers.
THEOREM BoundHolds == Spec => []FailureBound
<1>1. TypeOK /\ BreakerConsistent /\ FailureBudget => FailureBound
  <2> SUFFICES ASSUME TypeOK, BreakerConsistent, FailureBudget, NEW p \in Providers
               PROVE  fails[p] <= Threshold - 1 + Cardinality(Callers)
    BY DEF FailureBound
  <2>1. fails[p] \in Nat /\ Cardinality(InFlight(p)) \in Nat /\ Cardinality(Callers) \in Nat
    BY InFlightFinite DEF TypeOK
  <2>2. CASE status[p]
    BY <2>1, <2>2, ThresholdAssumption DEF BreakerConsistent
  <2>3. CASE ~status[p]
    BY <2>1, <2>3, ThresholdAssumption DEF FailureBudget
  <2> QED
    BY <2>2, <2>3
<1> QED
  BY <1>1, TypeCorrect, BreakerSound, BudgetHolds, PTL

----------------------------------------------------------------------------
\* A total outage is permanent: with nobody in flight only new calls start, a
\* new call finds no provider enabled, and so it ends without a request.
THEOREM OutageStays == Spec => OutagePermanent
<1>1. TypeOK /\ [Next]_vars => (Outage => Outage')
  <2> SUFFICES ASSUME TypeOK, [Next]_vars, Outage PROVE Outage'
    OBVIOUS
  <2>0. CallersOK
    BY TypeParts
  <2>1. ASSUME NEW c \in Callers, Begin(c) PROVE Outage'
    <3>1. PICK o \in Orders : Walk(c, o, 1, status)
      BY <2>1 DEF Begin
    <3>2. \A p \in Providers : c \notin InFlight(p)'
      BY <2>0, <3>1, OrdersAreLists, WalkInFlight DEF Outage
    <3>3. CallersOK'
      BY <2>0, <3>1, OrdersAreLists, WalkOK
    <3>4. pc'[c] = "idle"
      BY <3>2, <3>3 DEF InFlight, At, CallersOK
    <3>5. \A d \in Callers \ {c} : pc'[d] = pc[d]
      BY <2>0, <3>1 DEF Walk, End, Send, CallersOK
    <3> QED
      BY <2>1, <3>4, <3>5 DEF Outage, Begin
  <2>2. ASSUME NEW c \in Callers, Reply(c) \/ Cancelled(c) PROVE FALSE
    BY <2>2 DEF Outage, Reply, Cancelled, Succeed, Retry, Fail, Ignore, Reject, Gets
  <2>3. CASE UNCHANGED vars
    BY <2>3 DEF Outage, vars
  <2> QED
    BY <2>1, <2>2, <2>3 DEF Next
<1> QED
  BY <1>1, TypeCorrect, PTL DEF Spec, OutagePermanent

\* A disabled provider comes back only with the answer of a caller that was
\* waiting for it: after a malformed result that caller is idle or further down
\* its list.
THEOREM ReenablingHolds == Spec => ReenabledByLateAnswer
<1> DEFINE Late(p) == \E c \in InFlight(p) : pc'[c] = "idle" \/ pos'[c] # pos[c]
<1>1. TypeOK /\ [Next]_vars =>
          \A p \in Providers : ~status[p] /\ status'[p] => Late(p)
  <2> SUFFICES ASSUME TypeOK, [Next]_vars, NEW p \in Providers, ~status[p], status'[p]
               PROVE  Late(p)
    OBVIOUS
  <2>0. CallersOK /\ status \in [Providers -> BOOLEAN]
    BY TypeParts
  <2>1. ASSUME NEW c \in Callers, Succeed(c) PROVE Late(p)
    <3>1. p = At(c) /\ c \in InFlight(p)
      BY <2>0, <2>1 DEF Succeed, Gets, ResetFailures, InFlight
    <3> QED
      BY <2>0, <2>1, <3>1 DEF Succeed, End, CallersOK
  <2>2. ASSUME NEW c \in Callers, Reject(c) PROVE Late(p)
    <3>1. p = At(c) /\ c \in InFlight(p)
      BY <2>0, <2>2 DEF Reject, Gets, ResetThenCount, InFlight
    <3>2. CASE End(c, RaiseAPILimitExceeded) \/ End(c, "KeyError")
      BY <2>0, <3>1, <3>2 DEF End, CallersOK
    <3>3. ASSUME NEW i \in (pos[c] + 1)..Len(order[c]), Send(c, order[c], i)
          PROVE  Late(p)
      <4>1. pos'[c] = i /\ i # pos[c]
        BY <2>0, <2>2, <3>3 DEF Send, Reject, Gets, CallersOK
      <4> QED
        BY <3>1, <4>1
    <3> QED
      BY <2>2, <3>2, <3>3 DEF Reject, Walk
  <2>3. ASSUME NEW c \in Callers, Fail(c) PROVE FALSE
    BY <2>0, <2>3 DEF Fail, CountFailure
  <2>4. ASSUME NEW c \in Callers, Begin(c) \/ Retry(c) \/ Ignore(c) \/ Cancelled(c)
        PROVE  FALSE
    BY <2>4 DEF Begin, Retry, Ignore, Cancelled
  <2>5. CASE UNCHANGED vars
    BY <2>5 DEF vars
  <2> QED
    BY <2>1, <2>2, <2>3, <2>4, <2>5 DEF Next, Reply
<1> QED
  BY <1>1, TypeCorrect, PTL DEF Spec, ReenabledByLateAnswer

----------------------------------------------------------------------------
\* The callers that do not walk stay where they are.
LEMMA WalkOthers ==
    ASSUME CallersOK, NEW c \in Callers, NEW o \in Seq(Names), NEW from \in Nat \ {0},
           NEW st, Walk(c, o, from, st), NEW p
    PROVE  InFlight(p)' \ {c} = InFlight(p) \ {c}
<1>1. \A d \in Callers \ {c} : pc'[d] = pc[d] /\ order'[d] = order[d] /\ pos'[d] = pos[d]
  BY DEF Walk, End, Send, CallersOK
<1> QED
  BY <1>1 DEF InFlight, At

\* One step of the service is, for each provider, a step of its breaker or none.
LEMMA BreakerStep ==
    ASSUME TypeOK, [Next]_vars, NEW p \in Providers
    PROVE  Breaker(p)!Next \/ UNCHANGED <<status[p], fails[p], InFlight(p)>>
<1>0. CallersOK
  BY TypeParts
<1>1. ASSUME NEW c \in Callers, Begin(c)
      PROVE  Breaker(p)!Admit(c) \/ UNCHANGED <<status[p], fails[p], InFlight(p)>>
  <2>1. PICK o \in Orders : Walk(c, o, 1, status)
    BY <1>1 DEF Begin
  <2>2. InFlight(p)' \ {c} = InFlight(p) \ {c} /\ (c \in InFlight(p)' => status[p])
    BY <1>0, <2>1, OrdersAreLists, WalkInFlight, WalkOthers
  <2>3. c \notin InFlight(p)
    BY <1>1 DEF Begin, InFlight
  <2> QED
    BY <1>1, <2>2, <2>3 DEF Begin, Breaker!Admit
<1>2. ASSUME NEW c \in Callers, Reply(c)
      PROVE  \/ Breaker(p)!Admit(c) \/ Breaker(p)!Succeed(c) \/ Breaker(p)!Fail(c)
             \/ Breaker(p)!Reject(c) \/ Breaker(p)!Leave(c)
             \/ UNCHANGED <<status[p], fails[p], InFlight(p)>>
  <2>0. pc[c] = "calling"
    BY <1>2 DEF Reply, Succeed, Retry, Fail, Ignore, Reject, Gets
  <2>1. /\ At(c) \in Providers /\ order[c] \in Seq(Names)
        /\ pos[c] + 1 \in Nat \ {0} /\ c \in InFlight(At(c))
    BY <1>0, <2>0, AtOK
  <2>2. p # At(c) => c \notin InFlight(p)
    BY DEF InFlight
  <2>3. CASE Succeed(c)
    <3>1. InFlight(p)' = InFlight(p) \ {c}
      BY <1>0, <2>3 DEF Succeed, End, InFlight, At, CallersOK
    <3>2. CASE p = At(c)
      BY <2>1, <2>3, <3>1, <3>2 DEF Succeed, ResetFailures, TypeOK, Breaker!Succeed
    <3>3. CASE p # At(c)
      BY <2>1, <2>2, <2>3, <3>1, <3>3, OthersUntouched DEF Succeed
    <3> QED
      BY <3>2, <3>3
  <2>4. CASE Retry(c)
    BY <2>4 DEF Retry, InFlight, At
  <2>5. CASE Ignore(c)
    <3>1. InFlight(p)' \ {c} = InFlight(p) \ {c} /\ (c \in InFlight(p)' => status[p])
      BY <1>0, <2>1, <2>5, WalkInFlight, WalkOthers DEF Ignore
    <3>2. CASE c \in InFlight(p)
      BY <2>5, <3>1, <3>2 DEF Ignore, Breaker!Leave, Breaker!Release
    <3>3. CASE c \notin InFlight(p)
      BY <2>5, <3>1, <3>3 DEF Ignore, Breaker!Admit
    <3> QED
      BY <3>2, <3>3
  <2>6. ASSUME CountFailure(At(c)) \/ ResetThenCount(At(c)),
               Walk(c, order[c], pos[c] + 1, status')
        PROVE  \/ Breaker(p)!Admit(c) \/ Breaker(p)!Fail(c) \/ Breaker(p)!Reject(c)
               \/ UNCHANGED <<status[p], fails[p], InFlight(p)>>
    <3>1. InFlight(p)' \ {c} = InFlight(p) \ {c} /\ (c \in InFlight(p)' => status'[p])
      BY <1>0, <2>1, <2>6, WalkInFlight, WalkOthers
    <3>2. CASE p = At(c)
      <4>1. c \in InFlight(p)
        BY <2>1, <3>2
      <4>2. Breaker(p)!Release(c)
        BY <3>1, <4>1 DEF Breaker!Release
      <4>3. CASE CountFailure(p)
        BY <4>1, <4>2, <4>3 DEF CountFailure, TypeOK, Breaker!Fail
      <4>4. CASE ResetThenCount(p)
        BY <4>1, <4>2, <4>4 DEF ResetThenCount, TypeOK, Breaker!Reject
      <4> QED
        BY <2>6, <3>2, <4>3, <4>4
    <3>3. CASE p # At(c)
      <4>1. status'[p] = status[p] /\ fails'[p] = fails[p]
        BY <2>1, <2>6, <3>3, OthersUntouched
      <4> QED
        BY <2>2, <3>1, <3>3, <4>1 DEF Breaker!Admit
    <3> QED
      BY <3>2, <3>3
  <2> QED
    BY <1>2, <2>3, <2>4, <2>5, <2>6 DEF Reply, Fail, Reject
<1>3. ASSUME NEW c \in Callers, Cancelled(c)
      PROVE  Breaker(p)!Leave(c) \/ UNCHANGED <<status[p], fails[p], InFlight(p)>>
  <2>1. InFlight(p)' = InFlight(p) \ {c}
    BY <1>0, <1>3 DEF Cancelled, End, InFlight, At, CallersOK
  <2>2. CASE c \in InFlight(p)
    BY <1>3, <2>1, <2>2 DEF Cancelled, Breaker!Leave, Breaker!Release
  <2>3. CASE c \notin InFlight(p)
    BY <1>3, <2>1, <2>3 DEF Cancelled
  <2> QED
    BY <2>2, <2>3
<1>4. CASE UNCHANGED vars
  BY <1>4 DEF vars, InFlight, At
<1> QED
  BY <1>1, <1>2, <1>3, <1>4 DEF Next, Breaker!Next

\* The service implements one circuit breaker per provider.
THEOREM BreakerImplemented == Spec => BreakerPerProvider
<1>1. Init => \A p \in Providers : Breaker(p)!Init
  BY DEF Init, Breaker!Init, InFlight
<1>2. TypeOK /\ [Next]_vars =>
        \A p \in Providers : [Breaker(p)!Next]_(Breaker(p)!vars)
  BY BreakerStep DEF Breaker!vars
<1> QED
  BY <1>1, <1>2, TypeCorrect, PTL DEF Spec, BreakerPerProvider

----------------------------------------------------------------------------
\* The order of a call's requests: by position, then by attempt.
Forward(c) ==
    pc[c] = "calling" /\ pc'[c] = "calling" =>
        /\ order'[c] = order[c]
        /\ \/ pos'[c] = pos[c] /\ attempt'[c] \in {attempt[c], attempt[c] + 1}
           \/ pos'[c] > pos[c] /\ attempt'[c] = 1

\* A walk over the rest of the caller's own list ends the call or moves it to a
\* later position; it does not touch the other callers.
LEMMA WalkForward ==
    ASSUME CallersOK, NEW c \in Callers, NEW st,
           \/ Walk(c, order[c], pos[c] + 1, st)
           \/ pc[c] = "idle" /\ \E o \in Orders : Walk(c, o, 1, st)
    PROVE  \A d \in Callers : Forward(d)
<1>1. ASSUME NEW d \in Callers \ {c} PROVE Forward(d)
  <2>1. /\ pc'[d] = pc[d] /\ order'[d] = order[d] /\ pos'[d] = pos[d]
        /\ attempt'[d] = attempt[d]
    BY DEF Walk, End, Send, CallersOK
  <2> QED
    BY <2>1 DEF Forward
<1>2. Forward(c)
  <2>1. CASE pc[c] = "idle"
    BY <2>1 DEF Forward
  <2>2. ASSUME NEW r, End(c, r) PROVE Forward(c)
    BY <2>2 DEF End, Forward, CallersOK
  <2>3. ASSUME NEW i \in (pos[c] + 1)..Len(order[c]), Send(c, order[c], i) PROVE Forward(c)
    <3>1. pos[c] \in Nat /\ i > pos[c]
      BY DEF CallersOK
    <3>2. order'[c] = order[c] /\ pos'[c] = i /\ attempt'[c] = 1
      BY <2>3 DEF Send, CallersOK
    <3> QED
      BY <3>1, <3>2 DEF Forward
  <2> QED
    BY <2>1, <2>2, <2>3 DEF Walk
<1> QED
  BY <1>1, <1>2

\* A call's requests never go back, whatever the others do: with the bound on
\* the attempts this is the part of CallsEnd that needs no fairness.
THEOREM ForwardHolds == Spec => CallMovesForward
<1>1. TypeOK /\ [Next]_vars => \A c \in Callers : Forward(c)
  <2> SUFFICES ASSUME CallersOK, [Next]_vars, NEW d \in Callers PROVE Forward(d)
    BY TypeParts
  <2>1. ASSUME NEW c \in Callers, Begin(c) PROVE Forward(d)
    BY <2>1, WalkForward DEF Begin
  <2>2. ASSUME NEW c \in Callers, Fail(c) \/ Ignore(c) \/ Reject(c) PROVE Forward(d)
    BY <2>2, WalkForward DEF Fail, Ignore, Reject
  <2>3. ASSUME NEW c \in Callers, Succeed(c) \/ Cancelled(c) PROVE Forward(d)
    <3>1. PICK r : End(c, r)
      BY <2>3 DEF Succeed, Cancelled
    <3> QED
      BY <3>1 DEF End, Forward, CallersOK
  <2>4. ASSUME NEW c \in Callers, Retry(c) PROVE Forward(d)
    BY <2>4 DEF Retry, Forward, CallersOK
  <2>5. CASE UNCHANGED vars
    BY <2>5 DEF vars, Forward
  <2> QED
    BY <2>1, <2>2, <2>3, <2>4, <2>5 DEF Next, Reply
<1> QED
  BY <1>1, TypeCorrect, PTL DEF Spec, CallMovesForward, Forward
============================================================================
