----------------------------- MODULE CMSProofs -----------------------------
(***************************************************************************)
(* Proofs about CMSClient, for any number of calls and attempts.  What an  *)
(* answer is worth rests on Accounted: of the requests a call has sent,    *)
(* one may be waited for, and only the others can have been carried out or *)
(* be late.                                                                *)
(***************************************************************************)
EXTENDS CMSClient, TLAPS

Accounted ==
    \A r \in Requests :
        /\ pc[r] = "idle" => attempt[r] = 0
        /\ pc[r] = "sleeping" => attempt[r] < RetryAttempts
        /\ pc[r] = "waiting" => served[r] + late[r] < sent[r]
        /\ served[r] + late[r] <= sent[r]
        /\ sent[r] <= attempt[r]
        /\ answer[r] # "none" => pc[r] = "done"

IInv == CMSTypeOK /\ Accounted /\ CMSAnswersHold

LEMMA InitInv == CMSInit => IInv
  BY RetryAttemptsAssumption DEF CMSInit, IInv, CMSTypeOK, Accounted, CMSAnswersHold, Answers

\* A pass of the loop begins in a call that has an attempt left.
LEMMA SendStep ==
    ASSUME IInv, NEW r \in Requests, pc[r] \in {"idle", "sleeping"}, SendRequest(r)
    PROVE  IInv'
<1>1. attempt[r] < RetryAttempts
  BY RetryAttemptsAssumption DEF IInv, CMSTypeOK, Accounted
<1>2. /\ attempt' \in [Requests -> 0..RetryAttempts]
      /\ attempt' = [attempt EXCEPT ![r] = @ + 1]
      /\ UNCHANGED <<moved, client, late, served>>
  BY <1>1, RetryAttemptsAssumption DEF SendRequest, IInv, CMSTypeOK
<1>3. CASE /\ pc' = [pc EXCEPT ![r] = "waiting"]
           /\ sent' = [sent EXCEPT ![r] = @ + 1]
           /\ UNCHANGED answer
  BY <1>1, <1>2, <1>3, RetryAttemptsAssumption
  DEF IInv, CMSTypeOK, Accounted, CMSAnswersHold, Answers, Rewritten
<1>4. CASE Return(r, "failure") /\ UNCHANGED sent
  BY <1>1, <1>2, <1>4, RetryAttemptsAssumption
  DEF Return, IInv, CMSTypeOK, Accounted, CMSAnswersHold, Answers, Rewritten
<1> QED
  BY <1>3, <1>4 DEF SendRequest

\* While a call waits, its last request may be carried out, be late, or be lost.
LEMMA UncertainStep ==
    ASSUME IInv, NEW r \in Requests, pc[r] = "waiting", Uncertain(r)
    PROVE  /\ served' \in [Requests -> 0..RetryAttempts]
           /\ late' \in [Requests -> 0..RetryAttempts]
           /\ served'[r] + late'[r] <= sent[r]
           /\ \A q \in Requests \ {r} : served'[q] = served[q] /\ late'[q] = late[q]
<1>1. /\ served \in [Requests -> 0..RetryAttempts] /\ late \in [Requests -> 0..RetryAttempts]
      /\ sent[r] \in 0..RetryAttempts /\ served[r] + late[r] < sent[r]
  BY DEF IInv, CMSTypeOK, Accounted
<1>2. CASE CarriedOut(r)
  BY <1>1, <1>2, RetryAttemptsAssumption DEF CarriedOut
<1>3. CASE Arrived(r)
  BY <1>1, <1>3, RetryAttemptsAssumption DEF Arrived
<1> QED
  BY <1>1, <1>2, <1>3 DEF Uncertain

\* A call that waited returns: with a success only if it was carried out, with
\* a refusal only if its last request was not.
LEMMA ReturnStep ==
    ASSUME IInv, NEW r \in Requests, NEW a \in Answers \ {"none"}, Return(r, a),
           pc[r] = "waiting", UNCHANGED <<moved, client, attempt, sent>>,
           served' \in [Requests -> 0..RetryAttempts],
           late' \in [Requests -> 0..RetryAttempts],
           served'[r] + late'[r] <= sent[r],
           \A q \in Requests \ {r} : served'[q] = served[q] /\ late'[q] = late[q],
           a = "success" /\ ~Rewritten(r) => served'[r] > 0,
           a = "refused" /\ ~Rewritten(r) => served'[r] + late'[r] = served[r] + late[r]
    PROVE  IInv'
<1>1. /\ pc' = [pc EXCEPT ![r] = "done"]
      /\ answer' = [answer EXCEPT ![r] = a]
  BY DEF Return
<1>2. CMSTypeOK'
  BY <1>1 DEF IInv, CMSTypeOK, Answers
<1>3. Accounted'
  BY <1>1 DEF IInv, CMSTypeOK, Accounted
<1>4. a = "refused" /\ sent[r] = 1 /\ ~Rewritten(r) => served'[r] + late'[r] = 0
  <2>1. served[r] + late[r] < sent[r] /\ served[r] + late[r] \in Nat
    BY DEF IInv, CMSTypeOK, Accounted
  <2> QED
    BY <2>1
<1>5. CMSAnswersHold'
  BY <1>1, <1>4 DEF IInv, CMSTypeOK, CMSAnswersHold, Rewritten
<1> QED
  BY <1>2, <1>3, <1>5 DEF IInv

LEMMA InvStep == IInv /\ [CMSNext]_cmsVars => IInv'
<1> SUFFICES ASSUME IInv, [CMSNext]_cmsVars PROVE IInv'
  OBVIOUS
<1>1. ASSUME NEW r \in Requests, Call(r) \/ Wake(r) PROVE IInv'
  BY <1>1, SendStep DEF Call, Wake
<1>2. ASSUME NEW r \in Requests, Answered(r) PROVE IInv'
  <2>1. CarriedOut(r) => Uncertain(r)
    BY DEF Uncertain
  <2>2. ~Rewritten(r) => served'[r] > 0
    BY <1>2 DEF Answered, CarriedOut, IInv, CMSTypeOK
  <2> QED
    BY <1>2, <2>1, <2>2, ReturnStep, UncertainStep DEF Answered, Answers
<1>3. ASSUME NEW r \in Requests, Refused(r) PROVE IInv'
  <2>1. Uncertain(r) /\ (~Rewritten(r) => UNCHANGED <<late, served>>)
    BY <1>3 DEF Refused, Uncertain
  <2> QED
    BY <1>3, <2>1, ReturnStep, UncertainStep DEF Refused, Answers
<1>4. ASSUME NEW r \in Requests, Escapes(r) PROVE IInv'
  BY <1>4, ReturnStep, UncertainStep DEF Escapes, Answers
<1>5. ASSUME NEW r \in Requests, Failed(r) PROVE IInv'
  <2>1. CASE Retries(r) /\ pc' = [pc EXCEPT ![r] = "sleeping"] /\ UNCHANGED answer
    <3>1. /\ served' \in [Requests -> 0..RetryAttempts]
          /\ late' \in [Requests -> 0..RetryAttempts]
          /\ served'[r] + late'[r] <= sent[r]
          /\ \A q \in Requests \ {r} : served'[q] = served[q] /\ late'[q] = late[q]
          /\ UNCHANGED <<moved, client, attempt, sent, answer>>
      BY <1>5, <2>1, UncertainStep DEF Failed
    <3>2. CMSTypeOK'
      BY <2>1, <3>1 DEF IInv, CMSTypeOK
    <3>3. pc[r] = "waiting" /\ answer[r] = "none" /\ attempt[r] < RetryAttempts
      BY <1>5, <2>1 DEF Failed, Retries, IInv, Accounted
    <3>4. Accounted'
      BY <2>1, <3>1, <3>3 DEF IInv, CMSTypeOK, Accounted
    <3>5. CMSAnswersHold'
      BY <3>1, <3>3 DEF IInv, CMSTypeOK, CMSAnswersHold, Rewritten
    <3> QED
      BY <3>2, <3>4, <3>5 DEF IInv
  <2>2. CASE Return(r, "failure")
    BY <1>5, <2>2, ReturnStep, UncertainStep DEF Failed, Answers
  <2> QED
    BY <1>5, <2>1, <2>2 DEF Failed
<1>6. ASSUME NEW r \in Requests, Late(r) PROVE IInv'
  BY <1>6, RetryAttemptsAssumption
  DEF Late, IInv, CMSTypeOK, Accounted, CMSAnswersHold, Answers, Rewritten
<1>7. CASE Close \/ CloseReturns
  BY <1>7 DEF Close, CloseReturns, IInv, CMSTypeOK, Accounted, CMSAnswersHold, Answers, Rewritten
<1>8. CASE UNCHANGED cmsVars
  BY <1>8 DEF cmsVars, IInv, CMSTypeOK, Accounted, CMSAnswersHold, Answers, Rewritten
<1> QED
  BY <1>1, <1>2, <1>3, <1>4, <1>5, <1>6, <1>7, <1>8 DEF CMSNext, Continue

\* Type correctness: the retry loop makes no attempt too many, so no counter
\* passes retry_attempts, whatever the server carries out late.
THEOREM TypeCorrect == CMSSpec => []CMSTypeOK
<1>1. IInv => CMSTypeOK
  BY DEF IInv
<1> QED
  BY <1>1, InitInv, InvStep, PTL DEF CMSSpec

\* What an answer is worth, for any number of calls, attempts and late
\* executions (_request_with_retry, cms_integration.py:103).
THEOREM AnswersTrue == CMSSpec => []CMSAnswersHold
<1>1. IInv => CMSAnswersHold
  BY DEF IInv
<1> QED
  BY <1>1, InitInv, InvStep, PTL DEF CMSSpec

\* After its answer a call is over: it neither waits nor sleeps, so that no step
\* of its own is left, and the server moves a request from late to served.
LEMMA FinalStep ==
    ASSUME IInv, CMSNext, NEW r \in Requests, answer[r] # "none"
    PROVE  /\ answer'[r] = answer[r]
           /\ sent'[r] = sent[r]
           /\ served'[r] + late'[r] = served[r] + late[r]
<1>1. pc[r] = "done"
  BY DEF IInv, Accounted
<1>2. ASSUME NEW q \in Requests, Call(q) \/ Wake(q)
      PROVE  q # r /\ answer'[r] = answer[r] /\ sent'[r] = sent[r] /\ UNCHANGED <<late, served>>
  BY <1>1, <1>2 DEF Call, Wake, SendRequest, Return, IInv, CMSTypeOK
<1>3. ASSUME NEW q \in Requests, Answered(q) \/ Refused(q) \/ Escapes(q) \/ Failed(q)
      PROVE  /\ answer'[r] = answer[r] /\ sent'[r] = sent[r]
             /\ late'[r] = late[r] /\ served'[r] = served[r]
  <2>1. q # r
    BY <1>1, <1>3 DEF Answered, Refused, Escapes, Failed
  <2>2. answer'[r] = answer[r] /\ UNCHANGED sent
    BY <1>3, <2>1 DEF Answered, Refused, Escapes, Failed, Return, IInv, CMSTypeOK
  <2>3. late'[r] = late[r] /\ served'[r] = served[r]
    BY <1>3, <2>1 DEF Answered, Refused, Escapes, Failed, Uncertain, CarriedOut, Arrived,
       IInv, CMSTypeOK
  <2> QED
    BY <2>2, <2>3
<1>4. ASSUME NEW q \in Requests, Late(q)
      PROVE  /\ UNCHANGED <<answer, sent>>
             /\ served'[r] + late'[r] = served[r] + late[r]
  BY <1>4 DEF Late, IInv, CMSTypeOK
<1>5. CASE Close \/ CloseReturns
  BY <1>5 DEF Close, CloseReturns
<1> QED
  BY <1>2, <1>3, <1>4, <1>5 DEF CMSNext, Continue

\* An answer is final: nothing is sent for its call afterwards, and only what
\* the server had got by then is still carried out.
THEOREM AnswersStay == CMSSpec => CMSAnswersFinal
<1>1. IInv /\ [CMSNext]_cmsVars =>
        [\A r \in Requests : answer[r] # "none" =>
           /\ answer'[r] = answer[r]
           /\ sent'[r] = sent[r]
           /\ served'[r] + late'[r] = served[r] + late[r]]_cmsVars
  BY FinalStep
<1> QED
  BY <1>1, InitInv, InvStep, PTL DEF CMSSpec, CMSAnswersFinal
=============================================================================
