----------------------------- MODULE AIService -----------------------------
(***************************************************************************)
(* The shared AIService object of services/ai_service.py: a list of        *)
(* providers tried in order, tenacity retries inside one provider, and a   *)
(* circuit breaker per provider.                                           *)
(*                                                                         *)
(* Every caller is an asyncio task inside analyze_content.  The only       *)
(* suspension point is the await on a provider (line 186, with tenacity's  *)
(* sleeps), so everything between two provider replies is one action: the  *)
(* failure bookkeeping, the search for the next enabled provider and the   *)
(* send of its request.                                                    *)
(***************************************************************************)
EXTENDS Naturals, Sequences, FiniteSets

CONSTANTS
    Callers,      \* concurrent analyze_content tasks
    Providers,    \* keys of self.providers
    Unknown,      \* a preferred provider that is not a key of self.providers
    Orders,       \* the preferred_providers lists callers pass
    Threshold,    \* circuit_breaker_threshold
    MaxRetries,   \* max_retries
    Replies       \* Replies[p]: what a call of provider p can come back with

\* What awaiting a provider gives: a usable dict, a truthy dict without
\* "analysis" (or a provider whose name is no ProviderType), a falsy result,
\* an exception tenacity retries, any other exception.
ReplyKinds == {"good", "malformed", "empty", "transient", "fatal"}

ASSUME CallersAssumption == IsFiniteSet(Callers)
ASSUME ProvidersAssumption == Unknown \notin Providers
ASSUME OrdersAssumption == Orders \subseteq Seq(Providers \cup {Unknown})
ASSUME ThresholdAssumption == Threshold \in Nat \ {0}
ASSUME MaxRetriesAssumption == MaxRetries \in Nat \ {0}
ASSUME RepliesAssumption == Replies \in [Providers -> SUBSET ReplyKinds]

VARIABLES
    status,    \* provider_status
    fails,     \* failure_counts
    pc,        \* "idle" or "calling": suspended at the await of line 186
    order,     \* providers_order of the caller's current call
    pos,       \* index of the provider the caller is at
    attempt,   \* tenacity's attempt number at that provider
    outcome    \* how the last call ended: "none" while it runs

vars == <<status, fails, pc, order, pos, attempt, outcome>>

Outcomes == {"none", "AnalysisResult", "TypeError", "KeyError", "CancelledError"}

TypeOK ==
    /\ status \in [Providers -> BOOLEAN]
    /\ fails \in [Providers -> Nat]
    /\ pc \in [Callers -> {"idle", "calling"}]
    /\ order \in [Callers -> Seq(Providers \cup {Unknown})]
    /\ pos \in [Callers -> Nat]
    /\ attempt \in [Callers -> 0..MaxRetries]
    /\ outcome \in [Callers -> Outcomes]
    /\ \A c \in Callers : pc[c] = "calling" =>
          /\ pos[c] \in 1..Len(order[c])
          /\ order[c][pos[c]] \in Providers
          /\ attempt[c] \in 1..MaxRetries

----------------------------------------------------------------------------
\* The provider a suspended caller is waiting for, and who waits for p.
At(c) == order[c][pos[c]]
InFlight(p) == {c \in Callers : pc[c] = "calling" /\ At(c) = p}

\* provider_status.get(name, True): a name that is not a key counts as enabled.
Enabled(name, st) == IF name \in Providers THEN st[name] ELSE TRUE

\* "for provider_name in providers_order": i is the next position at or after
\* from whose provider is not disabled.
IsNext(o, from, st, i) ==
    /\ i \in from..Len(o)
    /\ Enabled(o[i], st)
    /\ \A j \in from..(i - 1) : ~Enabled(o[j], st)

\* "raise APILimitExceeded(f'...')": the class takes no message, so what
\* reaches the caller is the TypeError of its constructor, which neither
\* backoff nor the caller's handler for APILimitExceeded recognises.
RaiseAPILimitExceeded == "TypeError"

End(c, result) ==
    /\ pc' = [pc EXCEPT ![c] = "idle"]
    /\ outcome' = [outcome EXCEPT ![c] = result]
    /\ order' = [order EXCEPT ![c] = <<>>]
    /\ pos' = [pos EXCEPT ![c] = 0]
    /\ attempt' = [attempt EXCEPT ![c] = 0]

Send(c, o, i) ==
    /\ pc' = [pc EXCEPT ![c] = "calling"]
    /\ order' = [order EXCEPT ![c] = o]
    /\ pos' = [pos EXCEPT ![c] = i]
    /\ attempt' = [attempt EXCEPT ![c] = 1]
    /\ outcome' = [outcome EXCEPT ![c] = "none"]

\* The loop from position from on, up to its next await.  An unknown name
\* raises KeyError at self.providers[name]; the except clause catches it and
\* raises KeyError again at failure_counts[name], which leaves the loop.
Walk(c, o, from, st) ==
    \/ \E i \in from..Len(o) :
          /\ IsNext(o, from, st, i)
          /\ IF o[i] \in Providers THEN Send(c, o, i) ELSE End(c, "KeyError")
    \/ /\ \A i \in from..Len(o) : ~Enabled(o[i], st)
       /\ End(c, RaiseAPILimitExceeded)

\* Mutant: "> threshold" where the code has ">= threshold".
CountFailure_OffByOne(p) ==
    /\ fails' = [fails EXCEPT ![p] = @ + 1]
    /\ status' = [status EXCEPT ![p] = @ /\ fails[p] + 1 <= Threshold]

\* _handle_provider_failure
CountFailure(p) ==
    /\ fails' = [fails EXCEPT ![p] = @ + 1]
    /\ status' = [status EXCEPT ![p] = @ /\ fails[p] + 1 < Threshold]

\* _reset_provider_failure_count
ResetFailures(p) ==
    /\ fails' = [fails EXCEPT ![p] = 0]
    /\ status' = [status EXCEPT ![p] = TRUE]

\* A truthy result whose AnalysisResult cannot be built: the count is reset,
\* then the exception is counted as one failure of the same provider.
ResetThenCount(p) ==
    /\ fails' = [fails EXCEPT ![p] = 1]
    /\ status' = [status EXCEPT ![p] = 1 < Threshold]

----------------------------------------------------------------------------
Init ==
    /\ status = [p \in Providers |-> TRUE]
    /\ fails = [p \in Providers |-> 0]
    /\ pc = [c \in Callers |-> "idle"]
    /\ order = [c \in Callers |-> <<>>]
    /\ pos = [c \in Callers |-> 0]
    /\ attempt = [c \in Callers |-> 0]
    /\ outcome = [c \in Callers |-> "none"]

\* analyze_content(text, language, preferred_providers) up to its first await.
Begin(c) ==
    /\ pc[c] = "idle"
    /\ \E o \in Orders : Walk(c, o, 1, status)
    /\ UNCHANGED <<status, fails>>

Gets(c, kind) == pc[c] = "calling" /\ kind \in Replies[At(c)]

\* A usable result: reset the breaker and return.
Succeed(c) ==
    /\ Gets(c, "good")
    /\ ResetFailures(At(c))
    /\ End(c, "AnalysisResult")

\* Mutant: one retry more than max_retries.
Retry_OffByOne(c) ==
    /\ Gets(c, "transient")
    /\ attempt[c] <= MaxRetries
    /\ attempt' = [attempt EXCEPT ![c] = @ + 1]
    /\ UNCHANGED <<status, fails, pc, order, pos, outcome>>

\* Mutant: the attempts start over instead of stopping.
Retry_Forever(c) ==
    /\ Gets(c, "transient")
    /\ attempt' = [attempt EXCEPT ![c] = (@ % MaxRetries) + 1]
    /\ UNCHANGED <<status, fails, pc, order, pos, outcome>>

\* httpx.RequestError or AIProviderError with attempts left: tenacity sleeps
\* and calls the same provider again, whatever its status is by then.
Retry(c) ==
    /\ Gets(c, "transient")
    /\ attempt[c] < MaxRetries
    /\ attempt' = [attempt EXCEPT ![c] = @ + 1]
    /\ UNCHANGED <<status, fails, pc, order, pos, outcome>>

\* Mutant: the walk goes on with the status read before the failure.
Fail_StaleStatus(c) ==
    /\ \/ Gets(c, "fatal")
       \/ Gets(c, "transient") /\ attempt[c] = MaxRetries
    /\ CountFailure(At(c))
    /\ Walk(c, order[c], pos[c] + 1, status)

\* An exception that leaves _call_provider_with_retry.
Fail(c) ==
    /\ \/ Gets(c, "fatal")
       \/ Gets(c, "transient") /\ attempt[c] = MaxRetries
    /\ CountFailure(At(c))
    /\ Walk(c, order[c], pos[c] + 1, status')

\* A falsy result: neither a success nor a failure, the loop moves on.
Ignore(c) ==
    /\ Gets(c, "empty")
    /\ Walk(c, order[c], pos[c] + 1, status)
    /\ UNCHANGED <<status, fails>>

\* A truthy result that cannot be turned into an AnalysisResult.
Reject(c) ==
    /\ Gets(c, "malformed")
    /\ ResetThenCount(At(c))
    /\ Walk(c, order[c], pos[c] + 1, status')

\* The caller's task is cancelled at its await: CancelledError is no Exception,
\* so it passes the except clause and nothing is counted.
Cancelled(c) ==
    /\ pc[c] = "calling"
    /\ End(c, "CancelledError")
    /\ UNCHANGED <<status, fails>>

Reply(c) == Succeed(c) \/ Retry(c) \/ Fail(c) \/ Ignore(c) \/ Reject(c)

Next == \E c \in Callers : Begin(c) \/ Reply(c) \/ Cancelled(c)

Spec == Init /\ [][Next]_vars

\* The default clients carry a timeout (lines 64-77), and a callable given to
\* the constructor is assumed to return: every await ends.
Fairness == \A c \in Callers : WF_vars(Reply(c))

FairSpec == Spec /\ Fairness

----------------------------------------------------------------------------
\* A provider is disabled exactly while its count has reached the threshold:
\* no interleaving of failures, late successes and malformed results leaves a
\* disabled provider with a low count, or an enabled one with a high count.
BreakerConsistent == \A p \in Providers : status[p] <=> fails[p] < Threshold

\* Requests that were in flight when a provider was disabled still count, so
\* the count passes the threshold, by at most the callers that shared it.
FailureBound ==
    \A p \in Providers : fails[p] <= Threshold - 1 + Cardinality(Callers)

\* The reason: a disabled provider receives no new caller, so what its count
\* can still grow by is what is in flight.
FailureBudget ==
    \A p \in Providers : ~status[p] =>
        fails[p] + Cardinality(InFlight(p)) <= Threshold - 1 + Cardinality(Callers)

\* Every provider is disabled and nobody is left waiting for one.
Outage ==
    /\ \A p \in Providers : ~status[p]
    /\ \A c \in Callers : pc[c] = "idle"

\* There is no half-open state: with no request in flight that could still
\* succeed, a service whose providers are all disabled stays so for good.
OutagePermanent == [][Outage => Outage']_vars

\* A disabled provider comes back only through the answer of a caller that was
\* already waiting for it, never through a new call.
ReenabledByLateAnswer ==
    [][\A p \in Providers : ~status[p] /\ status'[p] =>
          \E c \in InFlight(p) : pc'[c] = "idle" \/ pos'[c] # pos[c]]_vars

\* A call never goes back: as long as it runs it keeps its list, and its next
\* request is the next attempt at the same provider or the first one at a later
\* position, whatever the other callers do to the breakers meanwhile.  So it
\* makes at most max_retries requests per position of its list.
CallMovesForward ==
    [][\A c \in Callers : pc[c] = "calling" /\ pc'[c] = "calling" =>
          /\ order'[c] = order[c]
          /\ \/ pos'[c] = pos[c] /\ attempt'[c] \in {attempt[c], attempt[c] + 1}
             \/ pos'[c] > pos[c] /\ attempt'[c] = 1]_vars

\* Every call of analyze_content ends, with a result or with an exception.
CallsEnd == \A c \in Callers : pc[c] = "calling" ~> pc[c] = "idle"

\* The docstring of analyze_content (lines 127-130): what a call can end with.
DocumentedOutcome ==
    \A c \in Callers : outcome[c] \in
        {"none", "CancelledError", "AnalysisResult", "APILimitExceeded", "InvalidAPIResponse"}

\* Each provider's breaker, taken alone, behaves as CircuitBreaker promises,
\* whatever the callers do with the other providers in the same step: in
\* particular nobody is sent to a disabled provider, also when a caller's own
\* failure has just disabled the one that its list names next.
Breaker(p) == INSTANCE CircuitBreaker
    WITH closed <- status[p], count <- fails[p], waiting <- InFlight(p)

BreakerPerProvider ==
    /\ \A p \in Providers : Breaker(p)!Init
    /\ [][\A p \in Providers : [Breaker(p)!Next]_(Breaker(p)!vars)]_vars
============================================================================
