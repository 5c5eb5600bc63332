---------------------------- MODULE CacheProofs ----------------------------
(***************************************************************************)
(* Proofs about Cache, for any number of callers, keys and versions and    *)
(* any way of giving keys to calls.  That a call returns what the function *)
(* has returned for it, or for a call with the same key, rests on what a   *)
(* caller is about to store: the function has returned that too.           *)
(***************************************************************************)
EXTENDS Cache, TLAPS

StoresComputed ==
    \A c \in Callers : at[c] = "setting" /\ value[c] # NoValue =>
        value[c] \in ComputedFor(SameKey(call[c]))

IInv == CacheTypeOK /\ StoresComputed /\ CacheReturns

LEMMA InitInv == CacheInit => IInv
<1> SUFFICES ASSUME CacheInit PROVE IInv
  OBVIOUS
<1>1. 0 \in 0..MaxVersion /\ {} \in SUBSET Value
  BY MaxVersionAssumption
<1>2. CacheTypeOK
  BY <1>1 DEF CacheInit, CacheTypeOK
<1>3. StoresComputed /\ CacheReturns
  BY DEF CacheInit, StoresComputed, CacheReturns
<1> QED
  BY <1>2, <1>3 DEF IInv

\* The function keeps what it has returned, and a call keeps its key.
LEMMA ComputedGrows ==
    ASSUME UNCHANGED settings, \A a \in Calls : computed[a] \subseteq computed'[a]
    PROVE  /\ \A a \in Calls : ComputedFor(SameKey(a)) \subseteq ComputedFor(SameKey(a))'
           /\ \A k \in Keys :
                 ComputedFor({a \in Calls : keyOf[a] = k})
                   \subseteq ComputedFor({a \in Calls : keyOf[a] = k})'
  BY DEF settings, ComputedFor, SameKey

\* The function has returned: its result counts as computed from then on.
LEMMA RecordStep ==
    ASSUME IInv, NEW c \in Callers, Record(c), UNCHANGED <<settings, call, value>>
    PROVE  /\ computed' \in [Calls -> SUBSET Value]
           /\ \A a \in Calls : computed[a] \subseteq computed'[a]
           /\ value[c] # NoValue => value[c] \in ComputedFor(SameKey(call[c]))'
<1>1. /\ call[c] \in Calls /\ value[c] \in Value \cup {NoValue}
      /\ computed \in [Calls -> SUBSET Value]
  BY DEF IInv, CacheTypeOK
<1>2. /\ computed' \in [Calls -> SUBSET Value]
      /\ \A a \in Calls : computed[a] \subseteq computed'[a]
      /\ value[c] # NoValue => value[c] \in computed'[call[c]]
  BY <1>1 DEF Record
<1>3. call[c] \in SameKey(call[c])'
  BY <1>1 DEF SameKey
<1> QED
  BY <1>2, <1>3 DEF ComputedFor

\* A caller returns from Redis or from the function with what is known already.
LEMMA KnownStep ==
    ASSUME IInv, CacheTypeOK', UNCHANGED <<settings, call>>,
           \A a \in Calls : computed[a] \subseteq computed'[a],
           \A c \in Callers : at'[c] \in {"idle", "setting"} /\ value'[c] # NoValue =>
               \/ at[c] \in {"idle", "setting"} /\ value[c] = value'[c]
               \/ value'[c] \in ComputedFor(SameKey(call[c]))',
           \A k \in Keys : store'[k] # NoValue =>
               \/ store[k] = store'[k]
               \/ \E c \in Callers : /\ at[c] = "setting" /\ value[c] = store'[k]
                                     /\ keyOf[call[c]] = k
    PROVE  IInv'
<1>1. call \in [Callers -> Calls] /\ keyOf' = keyOf /\ call' = call
  BY DEF IInv, CacheTypeOK, settings
<1>2. \A c \in Callers : at'[c] \in {"idle", "setting"} /\ value'[c] # NoValue =>
          value'[c] \in ComputedFor(SameKey(call[c]))'
  <2>1. SUFFICES ASSUME NEW c \in Callers, at[c] \in {"idle", "setting"},
                        value[c] = value'[c], value'[c] # NoValue
                 PROVE  value'[c] \in ComputedFor(SameKey(call[c]))'
    OBVIOUS
  <2>2. value[c] \in ComputedFor(SameKey(call[c]))
    BY <2>1 DEF IInv, StoresComputed, CacheReturns
  <2>3. call[c] \in Calls
    BY <1>1
  <2>4. ComputedFor(SameKey(call[c])) \subseteq ComputedFor(SameKey(call[c]))'
    BY <1>1, <2>3, ComputedGrows DEF ComputedFor, SameKey
  <2> QED
    BY <2>1, <2>2, <2>4
<1>3. \A k \in Keys : store'[k] # NoValue =>
          store'[k] \in ComputedFor({a \in Calls : keyOf[a] = k})'
  <2>1. SUFFICES ASSUME NEW k \in Keys, store'[k] # NoValue
                 PROVE  store'[k] \in ComputedFor({a \in Calls : keyOf[a] = k})
    BY ComputedGrows
  <2>2. CASE store[k] = store'[k]
    BY <2>1, <2>2 DEF IInv, CacheReturns
  <2>3. ASSUME NEW c \in Callers, at[c] = "setting", value[c] = store'[k], keyOf[call[c]] = k
        PROVE  store'[k] \in ComputedFor({a \in Calls : keyOf[a] = k})
    <3>1. value[c] \in ComputedFor(SameKey(call[c]))
      BY <2>1, <2>3 DEF IInv, StoresComputed
    <3>2. SameKey(call[c]) = {a \in Calls : keyOf[a] = k}
      BY <2>3 DEF SameKey
    <3> QED
      BY <2>3, <3>1, <3>2
  <2> QED
    BY <2>1, <2>2, <2>3
<1> QED
  BY <1>1, <1>2, <1>3 DEF IInv, StoresComputed, CacheReturns

LEMMA InvStep == IInv /\ [CacheNext]_cacheVars => IInv'
<1> SUFFICES ASSUME IInv, [CacheNext]_cacheVars PROVE IInv'
  OBVIOUS
<1>0. /\ keyOf \in [Calls -> Keys]
      /\ \A a \in Calls : a \in SameKey(a)
  BY KeyMapsAssumption DEF IInv, CacheTypeOK, SameKey
<1>1. ASSUME NEW c \in Callers, NEW a \in Calls, BeginCall(c, a) PROVE IInv'
  <2>1. CacheTypeOK'
    BY <1>1 DEF BeginCall, GoTo, IInv, CacheTypeOK, settings, SameKey
  <2> QED
    BY <1>1, <2>1 DEF BeginCall, GoTo, IInv, CacheTypeOK, StoresComputed, CacheReturns,
       settings, SameKey, ComputedFor
<1>2. ASSUME NEW c \in Callers, Hit(c) PROVE IInv'
  <2>1. call[c] \in Calls /\ keyOf[call[c]] \in Keys
    BY <1>0 DEF IInv, CacheTypeOK
  <2>2. CacheTypeOK'
    BY <1>2, <2>1 DEF Hit, GoTo, CacheKey, IInv, CacheTypeOK, settings, SameKey, Value
  <2>3. store[keyOf[call[c]]] \in ComputedFor(SameKey(call[c]))
    BY <1>2, <2>1 DEF Hit, CacheKey, IInv, CacheReturns, SameKey
  <2>4. value'[c] \in ComputedFor(SameKey(call[c]))'
    BY <1>2, <2>3 DEF Hit, CacheKey, IInv, CacheTypeOK, settings, ComputedFor, SameKey
  <2> QED
    BY <1>2, <2>2, <2>4, KnownStep DEF Hit, GoTo, IInv, CacheTypeOK
<1>3. ASSUME NEW c \in Callers, Miss(c) PROVE IInv'
  <2>1. CacheTypeOK'
    BY <1>3 DEF Miss, GoTo, IInv, CacheTypeOK, settings, SameKey
  <2> QED
    BY <1>3, <2>1, KnownStep DEF Miss, GoTo, IInv, CacheTypeOK
<1>4. ASSUME NEW c \in Callers, Read(c) PROVE IInv'
  <2>1. [of |-> call[c], version |-> source] \in Value /\ call[c] \in SameKey(call[c])
    BY <1>0 DEF IInv, CacheTypeOK, Value
  <2>2. CacheTypeOK'
    BY <1>4, <2>1 DEF Read, IInv, CacheTypeOK, settings, SameKey
  <2> QED
    BY <1>4, <2>2, KnownStep DEF Read, IInv, CacheTypeOK
<1>5. ASSUME NEW c \in Callers, FunctionReturns(c) \/ DirectReturns(c) PROVE IInv'
  <2>1. /\ UNCHANGED <<settings, closing, source, store, call, value>>
        /\ at' \in [Callers -> {"idle", "getting", "calling", "direct", "setting"}]
        /\ \A d \in Callers : d # c => at'[d] = at[d]
        /\ Record(c) /\ at[c] \in {"calling", "direct"} /\ at'[c] # "getting"
    BY <1>5 DEF FunctionReturns, DirectReturns, GoTo, IInv, CacheTypeOK
  <2>2. redis' \in BOOLEAN /\ (redis' => configured)
    <3>1. CASE redis' = redis
      BY <3>1 DEF IInv, CacheTypeOK
    <3>2. CASE redis' = configured
      BY <3>2 DEF IInv, CacheTypeOK
    <3> QED
      BY <1>5, <3>1, <3>2 DEF FunctionReturns, DirectReturns
  <2>3. CacheTypeOK'
    BY <2>1, <2>2, RecordStep DEF IInv, CacheTypeOK, settings, SameKey
  <2>4. \A a \in Calls : computed[a] \subseteq computed'[a]
    BY <2>1, RecordStep
  <2>5. value[c] # NoValue => value[c] \in ComputedFor(SameKey(call[c]))'
    BY <2>1, RecordStep
  <2> QED
    BY <2>1, <2>3, <2>4, <2>5, KnownStep
<1>6. ASSUME NEW c \in Callers, FunctionRaises(c) PROVE IInv'
  <2>1. CacheTypeOK'
    BY <1>6 DEF FunctionRaises, GoTo, IInv, CacheTypeOK, settings, SameKey
  <2> QED
    BY <1>6, <2>1, KnownStep DEF FunctionRaises, GoTo, IInv, CacheTypeOK
<1>7. ASSUME NEW c \in Callers, SetReturns(c) PROVE IInv'
  <2>1. call[c] \in Calls /\ keyOf[call[c]] \in Keys
    BY <1>0 DEF IInv, CacheTypeOK
  <2>2. \A k \in Keys : store'[k] = store[k] \/ (store'[k] = value[c] /\ keyOf[call[c]] = k)
    <3>1. store' = store \/ store' = [store EXCEPT ![keyOf[call[c]]] = value[c]]
      BY <1>7 DEF SetReturns, CacheKey
    <3>2. store \in [Keys -> Value \cup {NoValue}]
      BY DEF IInv, CacheTypeOK
    <3> QED
      BY <3>1, <3>2
  <2>3. store' \in [Keys -> Value \cup {NoValue}]
    BY <1>7, <2>1 DEF SetReturns, IInv, CacheTypeOK
  <2>4. CacheTypeOK'
    BY <1>7, <2>1, <2>2, <2>3 DEF SetReturns, GoTo, IInv, CacheTypeOK, settings, SameKey
  <2> QED
    BY <1>7, <2>2, <2>4, KnownStep DEF SetReturns, GoTo, IInv, CacheTypeOK
<1>8. ASSUME \/ \E k \in Keys : Expire(k)
             \/ Change \/ Invalidate \/ CloseCache \/ CloseCacheReturns
      PROVE  IInv'
  <2>1. /\ UNCHANGED <<settings, at, call, value, computed>>
        /\ closing' \in BOOLEAN
        /\ redis' \in {FALSE, redis, configured}
    BY <1>8 DEF Expire, Change, Invalidate, CloseCache, CloseCacheReturns, IInv, CacheTypeOK
  <2>2. redis' \in BOOLEAN /\ (redis' => configured)
    <3>1. CASE redis' = redis
      BY <3>1 DEF IInv, CacheTypeOK
    <3>2. CASE redis' = configured
      BY <3>2 DEF IInv, CacheTypeOK
    <3> QED
      BY <2>1, <3>1, <3>2
  <2>3. /\ store' \in [Keys -> Value \cup {NoValue}]
        /\ \A k \in Keys : store'[k] \in {store[k], NoValue}
    BY <1>8 DEF Expire, Change, Invalidate, CloseCache, CloseCacheReturns, IInv, CacheTypeOK
  <2>4. source' \in 0..MaxVersion
    <3>1. source' = source \/ (source < MaxVersion /\ source' = source + 1)
      BY <1>8 DEF Expire, Change, Invalidate, CloseCache, CloseCacheReturns
    <3> QED
      BY <3>1, MaxVersionAssumption DEF IInv, CacheTypeOK
  <2>5. CacheTypeOK'
    BY <2>1, <2>2, <2>3, <2>4 DEF IInv, CacheTypeOK, settings, SameKey
  <2> QED
    BY <2>1, <2>3, <2>5, KnownStep
<1>9. CASE UNCHANGED cacheVars
  BY <1>9 DEF cacheVars, settings, IInv, CacheTypeOK, StoresComputed, CacheReturns,
     ComputedFor, SameKey
<1> QED
  BY <1>1, <1>2, <1>3, <1>4, <1>5, <1>6, <1>7, <1>8, <1>9 DEF CacheNext

\* Type correctness: what is stored under a key, and what a caller holds, is a
\* result of a call with that key, a caller that waits for Redis holds nothing,
\* and there is a client only where the settings allow one.
THEOREM TypeCorrect == CacheSpec => []CacheTypeOK
<1>1. IInv => CacheTypeOK
  BY DEF IInv
<1> QED
  BY <1>1, InitInv, InvStep, PTL DEF CacheSpec

\* What a decorated call returns, and what is stored under its key, the function
\* has returned for this call or for one with the same key (the wrapper,
\* cache.py:214).
THEOREM ReturnsComputed == CacheSpec => []CacheReturns
<1>1. IInv => CacheReturns
  BY DEF IInv
<1> QED
  BY <1>1, InitInv, InvStep, PTL DEF CacheSpec
=============================================================================
