----------------------------- MODULE CMSClient -----------------------------
(***************************************************************************)
(* The HTTP client of services/cms_integration.py: calls that share one    *)
(* httpx client on one event loop, the retry loop, and close().  Every     *)
(* method sends through _request_with_retry, also those that change a post *)
(* (update_seo_meta, update_post).  A call is suspended in a request or in *)
(* the sleep between two; what the server does with a request, and whether *)
(* the client hears of it, are independent.                                *)
(***************************************************************************)
EXTENDS Naturals

CONSTANTS
    Requests,      \* calls of the public methods
    Posts,         \* those that change a post: update_seo_meta, update_post
    RetryAttempts  \* auth.retry_attempts; 0 would leave `response` unbound

ASSUME RetryAttemptsAssumption == RetryAttempts \in Nat \ {0}

ASSUME PostsAssumption == Posts \subseteq Requests

VARIABLES
    moved,    \* whether auth.endpoint answers 301, 302 or 303, as "http://" does
              \* where "https://" is meant
    client,   \* _http_client: "open", "closing" (aclose() is awaited), "closed" (None)
    pc,       \* where each call is
    attempt,  \* the loop variable
    sent,     \* requests that left for the server
    late,     \* requests the server has got and not carried out yet
    served,   \* requests the server has carried out
    answer    \* the CMSResponse

cmsVars == <<moved, client, pc, attempt, sent, late, served, answer>>

\* "success" is 2xx, "refused" any other status the server gave, "failure" the
\* 500 that the except clause of each method makes up.
Answers == {"none", "success", "refused", "failure"}

CMSTypeOK ==
    /\ moved \in BOOLEAN
    /\ client \in {"open", "closing", "closed"}
    /\ pc \in [Requests -> {"idle", "waiting", "sleeping", "done"}]
    /\ attempt \in [Requests -> 0..RetryAttempts]
    /\ sent \in [Requests -> 0..RetryAttempts]
    /\ late \in [Requests -> 0..RetryAttempts]
    /\ served \in [Requests -> 0..RetryAttempts]
    /\ answer \in [Requests -> Answers]

CMSInit ==
    /\ moved \in BOOLEAN
    /\ client = "open"
    /\ pc = [r \in Requests |-> "idle"]
    /\ attempt = [r \in Requests |-> 0]
    /\ sent = [r \in Requests |-> 0]
    /\ late = [r \in Requests |-> 0]
    /\ served = [r \in Requests |-> 0]
    /\ answer = [r \in Requests |-> "none"]

Return(r, a) ==
    /\ pc' = [pc EXCEPT ![r] = "done"]
    /\ answer' = [answer EXCEPT ![r] = a]

\* One pass of the loop up to its await.  A closed httpx client raises a
\* RuntimeError and None an AttributeError: neither is retried.
SendRequest(r) ==
    /\ attempt' = [attempt EXCEPT ![r] = @ + 1]
    /\ \/ /\ client = "open"
          /\ pc' = [pc EXCEPT ![r] = "waiting"]
          /\ sent' = [sent EXCEPT ![r] = @ + 1]
          /\ UNCHANGED answer
       \/ client # "open" /\ Return(r, "failure") /\ UNCHANGED sent
    /\ UNCHANGED <<moved, client, late, served>>

\* A public method is called.
Call(r) == pc[r] = "idle" /\ SendRequest(r)

\* Mutant: a call that finds the client closed waits for another one.
Wake_WaitsForClient(r) == pc[r] = "sleeping" /\ client = "open" /\ SendRequest(r)

\* The sleep is over.
Wake(r) == pc[r] = "sleeping" /\ SendRequest(r)

\* follow_redirects: httpx repeats a moved POST as a GET, without its body.
Rewritten(r) == moved /\ r \in Posts

\* The server does what it got a request for.  A POST that is moved is not
\* carried out, or it was before a 303 answered it.
CarriedOut(r) ==
    /\ \/ served' = [served EXCEPT ![r] = @ + 1]
       \/ Rewritten(r) /\ UNCHANGED served
    /\ UNCHANGED late

Arrived(r) ==
    /\ late' = [late EXCEPT ![r] = @ + 1]
    /\ UNCHANGED served

\* The request was lost, or is carried out now or later: the client cannot tell.
Uncertain(r) == CarriedOut(r) \/ Arrived(r) \/ UNCHANGED <<late, served>>

\* Mutant: a 5xx answer is returned as well.
Answered_Any(r) ==
    /\ pc[r] = "waiting"
    /\ Uncertain(r)
    /\ \E a \in {"success", "failure"} : Return(r, a)
    /\ UNCHANGED <<moved, client, attempt, sent>>

\* 2xx.  A body that is JSON and neither an object nor a list does not fit
\* CMSResponse: the ValidationError makes a failure of it.
Answered(r) ==
    /\ pc[r] = "waiting"
    /\ CarriedOut(r)
    /\ \E a \in {"success", "failure"} : Return(r, a)
    /\ UNCHANGED <<moved, client, attempt, sent>>

\* 3xx and 4xx are returned at once.  The server has not done what it refuses,
\* unless it refuses the GET that followed a POST.
Refused(r) ==
    /\ pc[r] = "waiting"
    /\ UNCHANGED <<late, served>> \/ (Rewritten(r) /\ CarriedOut(r))
    /\ \E a \in {"refused", "failure"} : Return(r, a)
    /\ UNCHANGED <<moved, client, attempt, sent>>

\* An exception that is neither NetworkError nor TimeoutException, such as
\* RemoteProtocolError, leaves the loop.
Escapes(r) ==
    /\ pc[r] = "waiting"
    /\ Uncertain(r)
    /\ Return(r, "failure")
    /\ UNCHANGED <<moved, client, attempt, sent>>

\* Mutant: "<=" for "<": one attempt too many.
Retries_OneMore(r) == attempt[r] <= RetryAttempts

Retries(r) == attempt[r] < RetryAttempts

\* A 5xx answer, a NetworkError or a timeout: sleep and try again, or give up.
Failed(r) ==
    /\ pc[r] = "waiting"
    /\ Uncertain(r)
    /\ \/ Retries(r) /\ pc' = [pc EXCEPT ![r] = "sleeping"] /\ UNCHANGED answer
       \/ ~Retries(r) /\ Return(r, "failure")
    /\ UNCHANGED <<moved, client, attempt, sent>>

\* The server gets round to a request nobody waits for any more.
Late(r) ==
    /\ late[r] > 0
    /\ late' = [late EXCEPT ![r] = @ - 1]
    /\ served' = [served EXCEPT ![r] = @ + 1]
    /\ UNCHANGED <<moved, client, pc, attempt, sent, answer>>

\* close(): requests in flight end in one of the ways above.
Close ==
    /\ client = "open"
    /\ client' = "closing"
    /\ UNCHANGED <<moved, pc, attempt, sent, late, served, answer>>

CloseReturns ==
    /\ client = "closing"
    /\ client' = "closed"
    /\ UNCHANGED <<moved, pc, attempt, sent, late, served, answer>>

Continue(r) == Answered(r) \/ Refused(r) \/ Escapes(r) \/ Failed(r) \/ Wake(r)

CMSNext ==
    \/ \E r \in Requests : Call(r) \/ Continue(r) \/ Late(r)
    \/ Close \/ CloseReturns

CMSSpec == CMSInit /\ [][CMSNext]_cmsVars

----------------------------------------------------------------------------
\* What an answer is worth, through retries, lost answers, late executions and
\* close(): success means carried out and a refusal of the only request sent
\* means not carried out, neither of them for a POST to an endpoint that
\* redirects; and no call is carried out more often than retry_attempts, a POST
\* included.
CMSAnswersHold ==
    \A r \in Requests :
        /\ answer[r] = "success" /\ ~Rewritten(r) => served[r] > 0
        /\ answer[r] = "refused" /\ sent[r] = 1 /\ ~Rewritten(r) => served[r] + late[r] = 0
        /\ served[r] + late[r] <= sent[r]
        /\ sent[r] <= RetryAttempts

\* An answer is final: once a call has one nothing is sent for it any more, by
\* no retry that was on its way; what the server has got by then can still be
\* carried out, and nothing else.
CMSAnswersFinal ==
    [][\A r \in Requests : answer[r] # "none" =>
          /\ answer'[r] = answer[r]
          /\ sent'[r] = sent[r]
          /\ served'[r] + late'[r] = served[r] + late[r]]_cmsVars

\* Every call ends, with the client closed under it or not.
CMSCallsEnd == \A r \in Requests : pc[r] = "waiting" ~> pc[r] = "done"
=============================================================================
