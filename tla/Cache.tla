------------------------------- MODULE Cache -------------------------------
(***************************************************************************)
(* The caching decorator of services/cache.py with the operations it uses, *)
(* on one event loop: calls of decorated functions, suspended in Redis or  *)
(* in the function; delete() and flush(); reconnection; close().           *)
(*                                                                         *)
(* A value is the call it is the result of and the version of what the     *)
(* function read.  NoValue is None: a None that was stored and an absent   *)
(* key are the same to get().                                              *)
(*                                                                         *)
(* Redis(...) opens no connection yet: whether _connect raises inside, and *)
(* leaves no client, depends on the settings alone, which do not change.   *)
(* A Redis that does not answer fails in get() and setex.                  *)
(***************************************************************************)
EXTENDS Naturals

CONSTANTS
    Callers,    \* tasks that call decorated functions, again and again
    Calls,      \* a decorated function and its arguments
    Keys,       \* keys in Redis
    KeyMaps,    \* the ways in which decorators give keys to calls
    NoValue,    \* None
    MaxVersion  \* bound: changes of what the functions read

ASSUME MaxVersionAssumption == MaxVersion \in Nat

ASSUME KeyMapsAssumption == KeyMaps \subseteq [Calls -> Keys]

VARIABLES
    keyOf,      \* the key of each call, chosen once; two calls can have the same
    configured, \* whether the settings let _connect make a client
    redis,      \* whether self.redis is set
    closing,    \* close() awaits
    source,     \* the version of what the functions read
    store,      \* what get() would return for each key
    at,         \* where each caller is
    call,       \* what it calls
    value,      \* what it holds or has returned
    computed    \* history: what the function has returned for each call

settings == <<keyOf, configured>>

cacheVars == <<settings, redis, closing, source, store, at, call, value, computed>>

Value == [of : Calls, version : 0..MaxVersion]

\* The calls that the cache cannot tell from a.
SameKey(a) == {b \in Calls : keyOf[b] = keyOf[a]}

CacheTypeOK ==
    /\ keyOf \in KeyMaps
    /\ configured \in BOOLEAN
    /\ redis \in BOOLEAN
    /\ redis => configured
    /\ closing \in BOOLEAN
    /\ source \in 0..MaxVersion
    /\ store \in [Keys -> Value \cup {NoValue}]
    /\ at \in [Callers -> {"idle", "getting", "calling", "direct", "setting"}]
    /\ call \in [Callers -> Calls]
    /\ value \in [Callers -> Value \cup {NoValue}]
    /\ computed \in [Calls -> SUBSET Value]
    /\ \A c \in Callers : value[c] # NoValue =>
           at[c] # "getting" /\ value[c].of \in SameKey(call[c])
    /\ \A k \in Keys : store[k] # NoValue => keyOf[store[k].of] = k

CacheInit ==
    /\ keyOf \in KeyMaps
    /\ configured \in BOOLEAN
    /\ redis = configured
    /\ closing = FALSE
    /\ source = 0
    /\ store = [k \in Keys |-> NoValue]
    /\ at = [c \in Callers |-> "idle"]
    /\ call \in [Callers -> Calls]
    /\ value = [c \in Callers |-> NoValue]
    /\ computed = [a \in Calls |-> {}]

GoTo(c, place) == at' = [at EXCEPT ![c] = place]

\* Mutant: the arguments are left out of the key.
CacheKey_NoArguments(a) == CHOOSE k \in Keys : TRUE

\* _generate_key: the prefix or the module, func.__name__, and digests of the
\* arguments that are not left out.  Two methods of one name, or two calls that
\* differ in an ignored or excluded argument, have one key.
CacheKey(a) == keyOf[a]

\* The wrapper begins: without a client the function is called directly, with
\* one get() is awaited, also while close() is under way.  A key that cannot be
\* pickled raises: the call is over before it began.
BeginCall(c, a) ==
    /\ at[c] = "idle"
    /\ GoTo(c, IF redis THEN "getting" ELSE "direct")
    /\ call' = [call EXCEPT ![c] = a]
    /\ value' = [value EXCEPT ![c] = NoValue]
    /\ UNCHANGED <<settings, redis, closing, source, store, computed>>

\* Mutant: a hit is stored once more, for a new time to live.
Hit_Restores(c) ==
    /\ at[c] = "getting"
    /\ store[CacheKey(call[c])] # NoValue
    /\ GoTo(c, "setting")
    /\ value' = [value EXCEPT ![c] = store[CacheKey(call[c])]]
    /\ UNCHANGED <<settings, redis, closing, source, store, call, computed>>

\* "if cached is not None: return cached".
Hit(c) ==
    /\ at[c] = "getting"
    /\ store[CacheKey(call[c])] # NoValue
    /\ GoTo(c, "idle")
    /\ value' = [value EXCEPT ![c] = store[CacheKey(call[c])]]
    /\ UNCHANGED <<settings, redis, closing, source, store, call, computed>>

\* Nothing there, or Redis failed; a lost connection makes a new client, also
\* after close().  The function is called.
Miss(c) ==
    /\ at[c] = "getting"
    /\ GoTo(c, "calling")
    /\ redis' \in {redis, configured}
    /\ UNCHANGED <<settings, closing, source, store, call, value, computed>>

\* The function reads what its result is made from; its caller gets it later.
Read(c) ==
    /\ at[c] \in {"calling", "direct"}
    /\ value[c] = NoValue
    /\ value' = [value EXCEPT ![c] = [of |-> call[c], version |-> source]]
    /\ UNCHANGED <<settings, redis, closing, source, store, at, call, computed>>

\* History: what the function has returned; None is not kept.
Record(c) == computed' = [computed EXCEPT ![call[c]] = @ \cup ({value[c]} \ {NoValue})]

\* The function returns, with a value or None, and set() begins: it connects
\* again when close() has finished in between.
FunctionReturns(c) ==
    /\ at[c] = "calling"
    /\ GoTo(c, "setting")
    /\ redis' = configured
    /\ Record(c)
    /\ UNCHANGED <<settings, closing, source, store, call, value>>

\* Without a client nothing is stored.
DirectReturns(c) ==
    /\ at[c] = "direct"
    /\ GoTo(c, "idle")
    /\ Record(c)
    /\ UNCHANGED <<settings, redis, closing, source, store, call, value>>

\* The function raises, and so does the wrapper.
FunctionRaises(c) ==
    /\ at[c] \in {"calling", "direct"}
    /\ GoTo(c, "idle")
    /\ value' = [value EXCEPT ![c] = NoValue]
    /\ UNCHANGED <<settings, redis, closing, source, store, call, computed>>

\* setex, whose failure is swallowed: the value is stored or it is not, over
\* whatever a faster caller stored, and returned in both cases.
SetReturns(c) ==
    /\ at[c] = "setting"
    /\ GoTo(c, "idle")
    /\ store' \in {store, [store EXCEPT ![CacheKey(call[c])] = value[c]]}
    /\ UNCHANGED <<settings, redis, closing, source, call, value, computed>>

\* The time to live ends; every value is stored with one.
Expire(k) ==
    /\ store[k] # NoValue
    /\ store' = [store EXCEPT ![k] = NoValue]
    /\ UNCHANGED <<settings, redis, closing, source, at, call, value, computed>>

\* delete() of a key and flush() of all, by other code; both connect again if
\* they can, and without a client there is nothing stored.
Invalidate ==
    /\ \/ \E k \in Keys : store' = [store EXCEPT ![k] = NoValue]
       \/ store' = [k \in Keys |-> NoValue]
    /\ redis' = configured
    /\ UNCHANGED <<settings, closing, source, at, call, value, computed>>

\* What the functions read changes.
Change ==
    /\ source < MaxVersion
    /\ source' = source + 1
    /\ UNCHANGED <<settings, redis, closing, store, at, call, value, computed>>

\* shutdown_cache: close() awaits the client it found, and then clears
\* self.redis, which may be another one by then; unless the client raises.
CloseCache ==
    /\ redis
    /\ closing' = TRUE
    /\ UNCHANGED <<settings, redis, source, store, at, call, value, computed>>

CloseCacheReturns ==
    /\ closing
    /\ closing' = FALSE
    /\ redis' \in {FALSE, redis}
    /\ UNCHANGED <<settings, source, store, at, call, value, computed>>

CacheNext ==
    \/ \E c \in Callers, a \in Calls : BeginCall(c, a)
    \/ \E c \in Callers :
          \/ Hit(c) \/ Miss(c) \/ Read(c) \/ FunctionReturns(c)
          \/ DirectReturns(c) \/ FunctionRaises(c) \/ SetReturns(c)
    \/ \E k \in Keys : Expire(k)
    \/ Change \/ Invalidate \/ CloseCache \/ CloseCacheReturns

CacheSpec == CacheInit /\ [][CacheNext]_cacheVars

----------------------------------------------------------------------------
\* Results of the calls in A that the function has returned.
ComputedFor(A) == UNION {computed[a] : a \in A}

\* What a call returned, and what is stored under a key, the function itself
\* has returned for this call or for one with the same key: through misses that
\* overlap, writes that overtake each other, failures of Redis and
\* reconnections.
CacheReturns ==
    /\ \A c \in Callers : at[c] = "idle" /\ value[c] # NoValue =>
           value[c] \in ComputedFor(SameKey(call[c]))
    /\ \A k \in Keys : store[k] # NoValue =>
           store[k] \in ComputedFor({a \in Calls : keyOf[a] = k})

Fresh(k) ==
    \/ store[k] = NoValue
    \/ \E a \in Calls : keyOf[a] = k /\ store[k] = [of |-> a, version |-> source]

\* A slow call can overwrite a newer value, also after a delete; the time to
\* live alone gets rid of it.  Once nothing changes any more, what is under a
\* key is, and stays, a current result of a call with that key.
CacheConverges == \A k \in Keys : <>[]Fresh(k)
=============================================================================
