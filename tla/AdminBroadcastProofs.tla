------------------------ MODULE AdminBroadcastProofs ------------------------
(***************************************************************************)
(* Proofs about AdminBroadcast, for any number of admins, users, texts,    *)
(* prompts, jobs and clicks.                                               *)
(*                                                                         *)
(* That only previewed texts are sent rests on TextPreviewed: a text that  *)
(* is stored was shown to the admin in whose user_data it is, which is     *)
(* where a job looks for it.  The prompts never go away and never change   *)
(* their text (PromptsStay).                                               *)
(***************************************************************************)
EXTENDS AdminBroadcast, SequenceTheorems, TLAPS

Click(n) == [prompt : 1..n, confirm : BOOLEAN]

\* More prompts: the clicks on the old ones are still clicks on prompts.
LEMMA ClicksStay ==
    ASSUME NEW m \in Nat, NEW n \in Nat, m <= n, NEW c \in Seq(Click(m))
    PROVE  c \in Seq(Click(n))
<1>1. Click(m) \subseteq Click(n)
  BY DEF Click
<1> QED
  BY <1>1, SeqDef

LEMMA HeadOf == ASSUME NEW S, NEW s \in Seq(S), s # <<>> PROVE Head(s) \in S /\ Tail(s) \in Seq(S)
  OBVIOUS

\* A click that waits is on a prompt that was shown.
LEMMA ClickShown ==
    ASSUME TypeOK, clicks # <<>>
    PROVE  Head(clicks).prompt \in 1..Len(prompts) /\ Tail(clicks) \in Seq(Click(Len(prompts)))
<1>1. clicks \in Seq(Click(Len(prompts)))
  BY DEF TypeOK, Click
<1>2. Head(clicks) \in Click(Len(prompts)) /\ Tail(clicks) \in Seq(Click(Len(prompts)))
  BY <1>1, HeadOf
<1> QED
  BY <1>2 DEF Click

\* The prompts only become more, or lose their keyboard.
PromptsStay ==
    /\ prompts' \in Seq(Prompt)
    /\ Len(prompts) <= Len(prompts') /\ Len(prompts') <= MaxPrompts
    /\ \A i \in 1..Len(prompts) :
          prompts'[i].admin = prompts[i].admin /\ prompts'[i].text = prompts[i].text

LEMMA Shown ==
    ASSUME TypeOK, NEW a \in Admins, NEW text \in Texts, Len(prompts) < MaxPrompts,
           prompts' = Append(prompts, [admin |-> a, text |-> text, live |-> TRUE])
    PROVE  /\ PromptsStay
           /\ Len(prompts) + 1 \in 1..Len(prompts')
           /\ prompts'[Len(prompts) + 1].admin = a
           /\ prompts'[Len(prompts) + 1].text = text
<1>1. [admin |-> a, text |-> text, live |-> TRUE] \in Prompt
  BY DEF Prompt
<1> QED
  BY <1>1, BoundsAssumption DEF TypeOK, PromptsStay

LEMMA Edited ==
    ASSUME TypeOK, NEW i \in 1..Len(prompts),
           prompts' = [prompts EXCEPT ![i].live = FALSE]
    PROVE  PromptsStay
<1>1. prompts[i] \in Prompt
  BY DEF TypeOK
<1>2. [prompts[i] EXCEPT !.live = FALSE] \in Prompt
  BY <1>1 DEF Prompt
<1>3. /\ prompts' \in Seq(Prompt) /\ Len(prompts') = Len(prompts)
      /\ \A k \in 1..Len(prompts) :
            prompts'[k] = IF k = i THEN [prompts[i] EXCEPT !.live = FALSE] ELSE prompts[k]
  BY <1>2 DEF TypeOK
<1> QED
  BY <1>1, <1>3 DEF PromptsStay, TypeOK, Prompt

LEMMA Unedited == ASSUME TypeOK, UNCHANGED prompts PROVE PromptsStay
  BY DEF TypeOK, PromptsStay

\* The handlers on the dispatcher thread, by what they do to the prompts.
LEMMA PromptsStep == TypeOK /\ [Next]_vars => PromptsStay
<1> SUFFICES ASSUME TypeOK, [Next]_vars PROVE PromptsStay
  OBVIOUS
<1>1. ASSUME NEW a \in Admins, NEW text \in Texts,
             ProcessMessage(a, text) \/ ProcessMessageFails(a, text)
      PROVE PromptsStay
  BY <1>1, Shown, Unedited DEF ProcessMessage, ProcessMessageFails
<1>2. CASE Conclude
  <2>1. handling \in 1..Len(prompts)
    BY <1>2 DEF Conclude, Idle, TypeOK
  <2> QED
    BY <1>2, <2>1, Edited, Unedited DEF Conclude, EditAndReset
<1>3. CASE CancelBroadcast
  <2>1. Head(clicks).prompt \in 1..Len(prompts)
    BY <1>3, ClickShown DEF CancelBroadcast
  <2> QED
    BY <1>3, <2>1, Edited, Unedited DEF CancelBroadcast, EditAndReset
<1>4. CASE UNCHANGED prompts
  BY <1>4, Unedited
<1>5. CASE \/ \E a \in Admins : StartBroadcast(a)
           \/ \E i \in 1..Len(prompts), confirm \in BOOLEAN : Press(i, confirm)
           \/ Confirm \/ AnswerFails
           \/ \E j \in 1..Len(jobs) : RunJob(j) \/ JobMissed(j)
  <2>1. UNCHANGED prompts
    BY <1>5 DEF StartBroadcast, Press, Confirm, AnswerFails, RunJob, JobStart, JobFails,
                JobSend, JobReport, JobMissed
  <2> QED
    BY <2>1, Unedited
<1> QED
  BY <1>1, <1>2, <1>3, <1>4, <1>5 DEF Next, vars

----------------------------------------------------------------------------
\* What each step does to the conversation data of an admin.
LEMMA ResetOK ==
    ASSUME TypeOK, NEW a \in Admins, Reset(a) PROVE userData' \in [Admins -> UserData]
  BY DEF Reset, Empty, TypeOK, UserData, States

LEMMA OwnerOK == ASSUME TypeOK, NEW i \in 1..Len(prompts) PROVE Owner(i) \in Admins
<1>1. prompts[i] \in Prompt
  BY DEF TypeOK
<1> QED
  BY <1>1 DEF Owner, Prompt

LEMMA UserDataOK == TypeOK /\ [Next]_vars => userData' \in [Admins -> UserData]
<1> SUFFICES ASSUME TypeOK, [Next]_vars PROVE userData' \in [Admins -> UserData]
  OBVIOUS
<1>1. ASSUME NEW a \in Admins, StartBroadcast(a) PROVE userData' \in [Admins -> UserData]
  BY <1>1 DEF StartBroadcast, TypeOK, UserData, States
<1>2. ASSUME NEW a \in Admins, NEW text \in Texts, ProcessMessage(a, text)
      PROVE userData' \in [Admins -> UserData]
  BY <1>2 DEF ProcessMessage, TypeOK, UserData, States
<1>3. ASSUME NEW a \in Admins, NEW text \in Texts, ProcessMessageFails(a, text)
      PROVE userData' \in [Admins -> UserData]
  BY <1>3, ResetOK DEF ProcessMessageFails, TypeOK
<1>4. ASSUME NEW i \in 1..Len(prompts), EditAndReset(i) PROVE userData' \in [Admins -> UserData]
  BY <1>4, ResetOK, OwnerOK DEF EditAndReset, TypeOK
<1>5. CASE Conclude
  <2>1. handling \in 1..Len(prompts)
    BY <1>5 DEF Conclude, Idle, TypeOK
  <2> QED
    BY <1>4, <1>5, <2>1 DEF Conclude
<1>6. CASE CancelBroadcast
  BY <1>4, <1>6, ClickShown DEF CancelBroadcast
<1>7. CASE UNCHANGED userData
  BY <1>7 DEF TypeOK
<1> QED
  BY <1>1, <1>2, <1>3, <1>5, <1>6, <1>7
  DEF Next, vars, Press, Confirm, AnswerFails, RunJob, JobStart, JobFails, JobSend, JobReport,
      JobMissed

\* Changing one job.
LEMMA JobsChange ==
    ASSUME jobs \in Seq(Job), NEW j \in 1..Len(jobs), NEW job \in Job,
           jobs' = [jobs EXCEPT ![j] = job]
    PROVE  jobs' \in Seq(Job) /\ Len(jobs') = Len(jobs)
           /\ \A k \in 1..Len(jobs) : jobs'[k] = IF k = j THEN job ELSE jobs[k]
  OBVIOUS

\* A job knows the prompt it was confirmed on.
JobsShown == \A j \in 1..Len(jobs) : jobs[j].prompt \in 1..Len(prompts)

TypeInv == TypeOK /\ JobsShown

JobsOK ==
    /\ jobs' \in Seq(Job)
    /\ \A j \in 1..Len(jobs') :
          /\ jobs'[j].at = "sending" => jobs'[j].text # NoText
          /\ jobs'[j].prompt \in 1..Len(prompts)

LEMMA OneJobOK ==
    ASSUME TypeInv, NEW j \in 1..Len(jobs), NEW job \in Job,
           jobs' = [jobs EXCEPT ![j] = job], job.prompt = jobs[j].prompt,
           job.at = "sending" => job.text # NoText
    PROVE  JobsOK
<1>1. /\ jobs' \in Seq(Job) /\ Len(jobs') = Len(jobs)
      /\ \A k \in 1..Len(jobs) : jobs'[k] = IF k = j THEN job ELSE jobs[k]
  BY JobsChange DEF TypeInv, TypeOK
<1> QED
  BY <1>1 DEF JobsOK, TypeInv, TypeOK, JobsShown

LEMMA ConfirmOK == ASSUME TypeInv, Confirm PROVE JobsOK
<1>0. PICK at \in {"pending", "missed"} :
          jobs' = Append(jobs, [prompt |-> Head(clicks).prompt, at |-> at, text |-> NoText,
                                sent |-> {}, failed |-> {}, reported |-> FALSE])
  BY DEF Confirm
<1> DEFINE job == [prompt |-> Head(clicks).prompt, at |-> at, text |-> NoText,
                   sent |-> {}, failed |-> {}, reported |-> FALSE]
<1>1. job.prompt \in 1..Len(prompts) /\ Len(prompts) <= MaxPrompts /\ Len(prompts) \in Nat
  BY ClickShown DEF Confirm, TypeInv, TypeOK
<1>2. job \in Job
  BY <1>1, BoundsAssumption DEF Job
<1>3. jobs' = Append(jobs, job)
  BY <1>0
<1>4. job.at \in {"pending", "missed"}
  OBVIOUS
<1> HIDE DEF job
<1>5. /\ jobs' \in Seq(Job) /\ Len(jobs') = Len(jobs) + 1
      /\ \A k \in 1..Len(jobs') : jobs'[k] = IF k = Len(jobs) + 1 THEN job ELSE jobs[k]
  BY <1>2, <1>3 DEF TypeInv, TypeOK
<1>6. \A k \in 1..Len(jobs') : k = Len(jobs) + 1 \/ k \in 1..Len(jobs)
  BY <1>5 DEF TypeInv, TypeOK
<1>7. \A k \in 1..Len(jobs) :
         /\ jobs[k].at = "sending" => jobs[k].text # NoText
         /\ jobs[k].prompt \in 1..Len(prompts)
  BY DEF TypeInv, TypeOK, JobsShown
<1> QED
  BY <1>1, <1>4, <1>5, <1>6, <1>7 DEF JobsOK

LEMMA RunOK == ASSUME TypeInv, NEW j \in 1..Len(jobs), RunJob(j) \/ JobMissed(j) PROVE JobsOK
<1>1. /\ jobs[j] \in Job
      /\ jobs[j].at = "sending" => jobs[j].text # NoText
      /\ jobs[j].prompt \in 1..Len(prompts)
  BY DEF TypeInv, TypeOK, JobsShown
<1>2. CASE JobStart(j)
  <2> DEFINE job == [jobs[j] EXCEPT !.at = "sending", !.text = JobData(j).message]
  <2>1. JobData(j).message \in Texts
    BY <1>1, <1>2, OwnerOK DEF JobStart, JobData, TypeInv, TypeOK, UserData
  <2>2. job \in Job /\ job.prompt = jobs[j].prompt /\ job.text # NoText
    BY <1>1, <2>1, TextsAssumption DEF Job
  <2>3. jobs' = [jobs EXCEPT ![j] = job]
    BY <1>2 DEF JobStart
  <2> QED
    BY <2>2, <2>3, OneJobOK
<1>3. ASSUME NEW reported \in BOOLEAN, Release(j, reported) PROVE JobsOK
  <2> DEFINE job == [jobs[j] EXCEPT !.at = "ended", !.reported = reported]
  <2>1. job \in Job /\ job.prompt = jobs[j].prompt /\ job.at = "ended"
    BY <1>1 DEF Job
  <2>2. jobs' = [jobs EXCEPT ![j] = job]
    BY <1>3 DEF Release
  <2> QED
    BY <2>1, <2>2, OneJobOK
<1>4. CASE JobFails(j)
  BY <1>3, <1>4 DEF JobFails
<1>5. CASE JobReport(j)
  <2>1. JobData(j).chat \in BOOLEAN
    BY <1>1, OwnerOK DEF JobData, TypeInv, TypeOK, UserData
  <2> QED
    BY <1>3, <1>5, <2>1 DEF JobReport
<1>6. ASSUME NEW u \in Users, JobSend(j, u) PROVE JobsOK
  <2>1. CASE jobs' = [jobs EXCEPT ![j].sent = @ \cup {u}]
    <3> DEFINE job == [jobs[j] EXCEPT !.sent = @ \cup {u}]
    <3>1. job \in Job /\ job.prompt = jobs[j].prompt /\ job.text = jobs[j].text /\ job.at = jobs[j].at
      BY <1>1 DEF Job
    <3>2. jobs' = [jobs EXCEPT ![j] = job]
      BY <2>1
    <3> HIDE DEF job
    <3> QED
      BY <1>1, <3>1, <3>2, OneJobOK
  <2>2. CASE jobs' = [jobs EXCEPT ![j].failed = @ \cup {u}]
    <3> DEFINE job == [jobs[j] EXCEPT !.failed = @ \cup {u}]
    <3>1. job \in Job /\ job.prompt = jobs[j].prompt /\ job.text = jobs[j].text /\ job.at = jobs[j].at
      BY <1>1 DEF Job
    <3>2. jobs' = [jobs EXCEPT ![j] = job]
      BY <2>2
    <3> HIDE DEF job
    <3> QED
      BY <1>1, <3>1, <3>2, OneJobOK
  <2> QED
    BY <1>6, <2>1, <2>2 DEF JobSend
<1>7. CASE JobMissed(j)
  <2> DEFINE job == [jobs[j] EXCEPT !.at = "missed"]
  <2>1. job \in Job /\ job.prompt = jobs[j].prompt /\ job.at = "missed"
    BY <1>1 DEF Job
  <2>2. jobs' = [jobs EXCEPT ![j] = job]
    BY <1>7 DEF JobMissed
  <2> QED
    BY <2>1, <2>2, OneJobOK
<1> QED
  BY <1>2, <1>4, <1>5, <1>6, <1>7 DEF RunJob

LEMMA JobsStep == TypeInv /\ [Next]_vars => JobsOK
<1> SUFFICES ASSUME TypeInv, [Next]_vars PROVE JobsOK
  OBVIOUS
<1>1. CASE UNCHANGED jobs
  BY <1>1 DEF JobsOK, TypeInv, TypeOK, JobsShown
<1> QED
  BY <1>1, ConfirmOK, RunOK
  DEF Next, vars, StartBroadcast, ProcessMessage, ProcessMessageFails, Press, AnswerFails,
      Conclude, CancelBroadcast

\* The clicks that wait are on prompts that were shown.
LEMMA ClicksStep == TypeInv /\ [Next]_vars => clicks' \in Seq(Click(Len(prompts)))
<1> SUFFICES ASSUME TypeInv, [Next]_vars PROVE clicks' \in Seq(Click(Len(prompts)))
  OBVIOUS
<1>1. clicks \in Seq(Click(Len(prompts)))
  BY DEF TypeInv, TypeOK, Click
<1>2. ASSUME NEW i \in 1..Len(prompts), NEW confirm \in BOOLEAN, Press(i, confirm)
      PROVE clicks' \in Seq(Click(Len(prompts)))
  <2>1. [prompt |-> i, confirm |-> confirm] \in Click(Len(prompts))
    BY DEF Click
  <2> QED
    BY <1>1, <1>2, <2>1 DEF Press
<1>3. CASE Confirm \/ AnswerFails \/ CancelBroadcast
  BY <1>3, ClickShown DEF Confirm, AnswerFails, CancelBroadcast, TypeInv
<1>4. CASE UNCHANGED clicks
  BY <1>1, <1>4
<1> QED
  BY <1>2, <1>3, <1>4
  DEF Next, vars, StartBroadcast, ProcessMessage, ProcessMessageFails, Conclude, RunJob,
      JobStart, JobFails, JobSend, JobReport, JobMissed

\* The lock, and the prompt whose confirmation is being handled.
LEMMA HandlingStep ==
    TypeInv /\ [Next]_vars => lock' \in BOOLEAN /\ handling' \in 0..Len(prompts)
<1> SUFFICES ASSUME TypeInv, [Next]_vars
             PROVE  lock' \in BOOLEAN /\ handling' \in 0..Len(prompts)
  OBVIOUS
<1>1. Len(prompts) \in Nat /\ handling \in 0..Len(prompts) /\ lock \in BOOLEAN
  BY DEF TypeInv, TypeOK
<1>2. CASE Confirm
  BY <1>1, <1>2, ClickShown DEF Confirm, TypeInv
<1>3. CASE Conclude
  BY <1>1, <1>3 DEF Conclude
<1>4. ASSUME NEW j \in 1..Len(jobs), RunJob(j) \/ JobMissed(j)
      PROVE  lock' \in BOOLEAN /\ handling' \in 0..Len(prompts)
  BY <1>1, <1>4 DEF RunJob, JobStart, JobFails, JobSend, JobReport, JobMissed, Release
<1> QED
  BY <1>1, <1>2, <1>3, <1>4
  DEF Next, vars, StartBroadcast, ProcessMessage, ProcessMessageFails, Press, AnswerFails,
      CancelBroadcast

LEMMA TypeInit == Init => TypeInv
<1> SUFFICES ASSUME Init PROVE TypeInv
  OBVIOUS
<1>1. Empty \in UserData
  BY DEF Empty, UserData, States
<1>2. /\ <<>> \in Seq(Prompt) /\ <<>> \in Seq(Job) /\ <<>> \in Seq(Click(Len(prompts)))
      /\ Len(<<>>) = 0
  OBVIOUS
<1>3. /\ userData \in [Admins -> UserData] /\ prompts \in Seq(Prompt) /\ jobs \in Seq(Job)
      /\ clicks \in Seq(Click(Len(prompts))) /\ Len(prompts) = 0 /\ Len(jobs) = 0
      /\ lock = FALSE /\ handling = 0
  BY <1>1, <1>2 DEF Init
<1>4. JobsShown
  BY <1>3 DEF JobsShown
<1>5. clicks \in Seq([prompt : 1..Len(prompts), confirm : BOOLEAN])
  BY <1>3 DEF Click
<1>6. TypeOK
  <2>1. lock \in BOOLEAN
    BY <1>3
  <2>2. Len(prompts) <= MaxPrompts /\ handling \in 0..Len(prompts)
    BY <1>3, BoundsAssumption
  <2>3. \A j \in 1..Len(jobs) : jobs[j].at = "sending" => jobs[j].text # NoText
    BY <1>3
  <2> QED
    BY <1>3, <1>5, <2>1, <2>2, <2>3 DEF TypeOK
<1> QED
  BY <1>4, <1>6 DEF TypeInv

LEMMA TypeStep == TypeInv /\ [Next]_vars => TypeInv'
<1> SUFFICES ASSUME TypeInv, [Next]_vars PROVE TypeInv'
  OBVIOUS
<1>1. PromptsStay /\ JobsOK /\ userData' \in [Admins -> UserData]
      /\ clicks' \in Seq(Click(Len(prompts)))
      /\ lock' \in BOOLEAN /\ handling' \in 0..Len(prompts)
  BY PromptsStep, JobsStep, UserDataOK, ClicksStep, HandlingStep DEF TypeInv
<1>2. Len(prompts) \in Nat /\ Len(prompts') \in Nat /\ Len(prompts) <= Len(prompts')
  BY <1>1 DEF PromptsStay, TypeInv, TypeOK
<1>3. clicks' \in Seq(Click(Len(prompts')))
  BY <1>1, <1>2, ClicksStay
<1>4. TypeOK'
  BY <1>1, <1>2, <1>3 DEF TypeOK, JobsOK, PromptsStay, Click
<1>5. JobsShown'
  BY <1>1, <1>2 DEF JobsShown, JobsOK
<1> QED
  BY <1>4, <1>5 DEF TypeInv

\* Type correctness, for any number of admins, prompts, jobs and clicks: no
\* handler and no job leaves user_data, the prompts or the clicks malformed.
THEOREM TypeCorrect == Spec => []TypeOK
<1>1. TypeInv => TypeOK
  BY DEF TypeInv
<1> QED
  BY <1>1, TypeInit, TypeStep, PTL DEF Spec

----------------------------------------------------------------------------
\* The conversation data of one admin, and how a step can change it.
LEMMA WholeInit == Init => UserDataWhole
  BY DEF Init, UserDataWhole, Empty

LEMMA ResetWhole ==
    ASSUME TypeInv, UserDataWhole, NEW a \in Admins, Reset(a) PROVE UserDataWhole'
  BY DEF TypeInv, TypeOK, UserDataWhole, Reset, Empty

LEMMA WholeStep == TypeInv /\ UserDataWhole /\ [Next]_vars => UserDataWhole'
<1> SUFFICES ASSUME TypeInv, UserDataWhole, [Next]_vars PROVE UserDataWhole'
  OBVIOUS
<1>0. userData \in [Admins -> UserData]
  BY DEF TypeInv, TypeOK
<1>1. ASSUME NEW a \in Admins, StartBroadcast(a) PROVE UserDataWhole'
  <2>1. /\ userData'[a].state = "WAITING_MESSAGE" /\ userData'[a].chat = TRUE
        /\ \A b \in Admins \ {a} : userData'[b] = userData[b]
    BY <1>0, <1>1 DEF StartBroadcast, UserData
  <2> QED
    BY <2>1 DEF UserDataWhole
<1>2. ASSUME NEW a \in Admins, NEW text \in Texts, ProcessMessage(a, text) PROVE UserDataWhole'
  BY <1>0, <1>2, TextsAssumption DEF ProcessMessage, UserDataWhole, UserData, States
<1>3. CASE UNCHANGED userData
  BY <1>3 DEF UserDataWhole
<1>4. ASSUME NEW a \in Admins, NEW text \in Texts, ProcessMessageFails(a, text)
      PROVE UserDataWhole'
  BY <1>3, <1>4, ResetWhole DEF ProcessMessageFails
<1>5. ASSUME NEW i \in 1..Len(prompts), EditAndReset(i) PROVE UserDataWhole'
  BY <1>3, <1>5, ResetWhole, OwnerOK DEF EditAndReset, TypeInv
<1>6. CASE Conclude
  <2>1. handling \in 1..Len(prompts)
    BY <1>6 DEF Conclude, Idle, TypeInv, TypeOK
  <2> QED
    BY <1>5, <1>6, <2>1 DEF Conclude
<1>7. CASE CancelBroadcast
  BY <1>5, <1>7, ClickShown DEF CancelBroadcast, TypeInv
<1> QED
  BY <1>1, <1>2, <1>3, <1>4, <1>6, <1>7
  DEF Next, vars, Press, Confirm, AnswerFails, RunJob, JobStart, JobFails, JobSend, JobReport,
      JobMissed

\* A text is stored only with its state and its chat, whatever fails and
\* whichever prompt is clicked (_reset_broadcast, admin.py:333).
THEOREM Whole == Spec => []UserDataWhole
  BY TypeInit, TypeStep, WholeInit, WholeStep, PTL DEF Spec

----------------------------------------------------------------------------
\* A stored text was shown to the admin in whose user_data it is.
TextPreviewed ==
    \A a \in Admins : userData[a].message # NoText =>
        \E i \in 1..Len(prompts) : Owner(i) = a /\ prompts[i].text = userData[a].message

LEMMA PreviewsStay ==
    ASSUME TypeInv, [Next]_vars, NEW i \in 1..Len(prompts)
    PROVE  i \in 1..Len(prompts') /\ Owner(i)' = Owner(i) /\ prompts'[i].text = prompts[i].text
<1>1. PromptsStay
  BY PromptsStep DEF TypeInv
<1>2. Len(prompts) \in Nat /\ Len(prompts') \in Nat
  BY <1>1 DEF PromptsStay, TypeInv, TypeOK
<1> QED
  BY <1>1, <1>2 DEF PromptsStay, Owner

\* Where a text can come from: it was there already, or has just been shown.
LEMMA TextsStep ==
    ASSUME TypeInv, [Next]_vars, NEW b \in Admins, userData'[b].message # NoText,
           userData'[b].message # userData[b].message
    PROVE  \E i \in 1..Len(prompts') : Owner(i)' = b /\ prompts'[i].text = userData'[b].message
<1>0. userData \in [Admins -> UserData]
  BY DEF TypeInv, TypeOK
<1>1. ASSUME NEW a \in Admins, Reset(a) PROVE FALSE
  BY <1>0, <1>1 DEF Reset, Empty
<1>2. ASSUME NEW i \in 1..Len(prompts), EditAndReset(i) PROVE FALSE
  BY <1>1, <1>2, OwnerOK DEF EditAndReset, TypeInv
<1>3. CASE Conclude
  <2>1. handling \in 1..Len(prompts)
    BY <1>3 DEF Conclude, Idle, TypeInv, TypeOK
  <2> QED
    BY <1>2, <1>3, <2>1 DEF Conclude
<1>4. CASE CancelBroadcast
  BY <1>2, <1>4, ClickShown DEF CancelBroadcast, TypeInv
<1>5. ASSUME NEW a \in Admins, StartBroadcast(a) PROVE FALSE
  <2>1. userData'[b].message = userData[b].message
    BY <1>0, <1>5 DEF StartBroadcast, UserData
  <2> QED
    BY <2>1
<1>6. ASSUME NEW a \in Admins, NEW text \in Texts, ProcessMessageFails(a, text) PROVE FALSE
  BY <1>1, <1>6 DEF ProcessMessageFails
<1>7. ASSUME NEW a \in Admins, NEW text \in Texts, ProcessMessage(a, text)
      PROVE \E i \in 1..Len(prompts') : Owner(i)' = b /\ prompts'[i].text = userData'[b].message
  <2>1. /\ b = a => userData'[b].message = text
        /\ b # a => userData'[b] = userData[b]
    BY <1>0, <1>7 DEF ProcessMessage, UserData
  <2>2. /\ Len(prompts) + 1 \in 1..Len(prompts')
        /\ prompts'[Len(prompts) + 1].admin = a
        /\ prompts'[Len(prompts) + 1].text = text
    BY <1>7, Shown DEF ProcessMessage, TypeInv
  <2> QED
    BY <2>1, <2>2 DEF Owner
<1>8. CASE UNCHANGED userData
  BY <1>8
<1> QED
  BY <1>3, <1>4, <1>5, <1>6, <1>7, <1>8
  DEF Next, vars, Press, Confirm, AnswerFails, RunJob, JobStart, JobFails, JobSend, JobReport,
      JobMissed

LEMMA PreviewedStep == TypeInv /\ TextPreviewed /\ [Next]_vars => TextPreviewed'
<1> SUFFICES ASSUME TypeInv, TextPreviewed, [Next]_vars,
                    NEW b \in Admins, userData'[b].message # NoText
             PROVE  \E i \in 1..Len(prompts') :
                       Owner(i)' = b /\ prompts'[i].text = userData'[b].message
  BY DEF TextPreviewed, Owner
<1>1. CASE userData'[b].message = userData[b].message
  <2>1. PICK i \in 1..Len(prompts) : Owner(i) = b /\ prompts[i].text = userData[b].message
    BY <1>1 DEF TextPreviewed
  <2> QED
    BY <1>1, <2>1, PreviewsStay
<1> QED
  BY <1>1, TextsStep

\* What a step does to the jobs: a new one has sent nothing; one that starts
\* takes the stored text; one that reports has tried everybody.
LEMMA JobSteps ==
    ASSUME TypeInv, [Next]_vars, NEW j \in 1..Len(jobs')
    PROVE  \/ /\ j \in 1..Len(jobs)
              /\ jobs'[j].prompt = jobs[j].prompt
              /\ \/ jobs'[j].text = jobs[j].text
                 \/ jobs'[j].text = JobData(j).message
              /\ \/ jobs'[j].sent = jobs[j].sent /\ jobs'[j].failed = jobs[j].failed
                 \/ \E u \in Users \ (jobs[j].sent \cup jobs[j].failed) :
                       \/ jobs'[j].sent = jobs[j].sent \cup {u} /\ jobs'[j].failed = jobs[j].failed
                       \/ jobs'[j].failed = jobs[j].failed \cup {u} /\ jobs'[j].sent = jobs[j].sent
              /\ jobs'[j].reported => jobs[j].reported \/ jobs[j].sent \cup jobs[j].failed = Users
           \/ jobs'[j].text = NoText /\ jobs'[j].sent = {} /\ jobs'[j].failed = {}
              /\ ~jobs'[j].reported
<1>1. jobs \in Seq(Job)
  BY DEF TypeInv, TypeOK
<1>2. CASE UNCHANGED jobs
  BY <1>2
<1>3. CASE Confirm
  BY <1>1, <1>3 DEF Confirm
<1>4. ASSUME NEW k \in 1..Len(jobs), RunJob(k) \/ JobMissed(k)
      PROVE  /\ j \in 1..Len(jobs)
             /\ j # k => jobs'[j] = jobs[j]
  BY <1>1, <1>4 DEF RunJob, JobStart, JobFails, JobSend, JobReport, JobMissed, Release
<1>5. ASSUME NEW k \in 1..Len(jobs), j = k, JobStart(k) \/ JobFails(k) \/ JobReport(k) \/ JobMissed(k)
      PROVE  /\ jobs'[j].prompt = jobs[j].prompt
             /\ jobs'[j].text = jobs[j].text \/ jobs'[j].text = JobData(j).message
             /\ jobs'[j].sent = jobs[j].sent /\ jobs'[j].failed = jobs[j].failed
             /\ jobs'[j].reported => jobs[j].reported \/ jobs[j].sent \cup jobs[j].failed = Users
  <2>1. jobs[j] \in Job
    BY <1>1, <1>5
  <2>2. CASE JobStart(k) \/ JobMissed(k)
    BY <1>1, <1>5, <2>1, <2>2 DEF JobStart, JobMissed, Job
  <2>3. ASSUME NEW reported, Release(k, reported)
        PROVE  /\ jobs'[j].prompt = jobs[j].prompt /\ jobs'[j].text = jobs[j].text
               /\ jobs'[j].sent = jobs[j].sent /\ jobs'[j].failed = jobs[j].failed
               /\ jobs'[j].reported = reported
    BY <1>1, <1>5, <2>1, <2>3 DEF Release, Job
  <2> QED
    BY <1>5, <2>2, <2>3 DEF JobFails, JobReport
<1>6. ASSUME NEW k \in 1..Len(jobs), j = k, NEW u \in Users, JobSend(k, u)
      PROVE  /\ jobs'[j].prompt = jobs[j].prompt /\ jobs'[j].text = jobs[j].text
             /\ jobs'[j].reported = jobs[j].reported
             /\ u \notin jobs[j].sent \cup jobs[j].failed
             /\ \/ jobs'[j].sent = jobs[j].sent \cup {u} /\ jobs'[j].failed = jobs[j].failed
                \/ jobs'[j].failed = jobs[j].failed \cup {u} /\ jobs'[j].sent = jobs[j].sent
  <2>1. jobs[j] \in Job
    BY <1>1, <1>6
  <2> QED
    BY <1>1, <1>6, <2>1 DEF JobSend, Job
<1>7. CASE \E k \in 1..Len(jobs) : RunJob(k) \/ JobMissed(k)
  <2>1. PICK k \in 1..Len(jobs) : RunJob(k) \/ JobMissed(k)
    BY <1>7
  <2>2. CASE j # k
    BY <1>4, <2>1, <2>2
  <2>3. CASE j = k
    BY <1>5, <1>6, <2>1, <2>3 DEF RunJob
  <2> QED
    BY <2>2, <2>3
<1> QED
  BY <1>2, <1>3, <1>7
  DEF Next, vars, StartBroadcast, ProcessMessage, ProcessMessageFails, Press, AnswerFails,
      Conclude, CancelBroadcast

FaithfulInv == TypeInv /\ TextPreviewed /\ JobsFaithful

LEMMA FaithfulInit == Init => FaithfulInv
<1>1. Init => TextPreviewed /\ JobsFaithful
  BY DEF Init, TextPreviewed, JobsFaithful, OnlyPreviewedIsSent, ReportIsComplete, Empty
<1> QED
  BY <1>1, TypeInit DEF FaithfulInv

LEMMA SentStep == FaithfulInv /\ [Next]_vars => OnlyPreviewedIsSent'
<1> SUFFICES ASSUME FaithfulInv, [Next]_vars, NEW j \in 1..Len(jobs'), jobs'[j].text # NoText
             PROVE  \E i \in 1..Len(prompts') : /\ Owner(i)' = Owner(jobs[j].prompt)'
                                                /\ prompts'[i].text = jobs'[j].text
                                                /\ jobs'[j].prompt = jobs[j].prompt
  BY DEF OnlyPreviewedIsSent, Owner
<1>1. TypeInv
  BY DEF FaithfulInv
<1>2. /\ j \in 1..Len(jobs) /\ jobs'[j].prompt = jobs[j].prompt
      /\ jobs'[j].text = jobs[j].text \/ jobs'[j].text = JobData(j).message
  BY <1>1, JobSteps
<1> DEFINE a == Owner(jobs[j].prompt)
<1>3. jobs[j].prompt \in 1..Len(prompts) /\ a \in Admins
  BY <1>1, <1>2, OwnerOK DEF TypeInv, JobsShown
<1>4. PICK i \in 1..Len(prompts) : Owner(i) = a /\ prompts[i].text = jobs'[j].text
  <2>1. CASE jobs'[j].text = jobs[j].text
    BY <1>2, <2>1 DEF FaithfulInv, JobsFaithful, OnlyPreviewedIsSent
  <2>2. CASE jobs'[j].text = JobData(j).message
    BY <1>2, <1>3, <2>2 DEF FaithfulInv, TextPreviewed, JobData
  <2> QED
    BY <1>2, <2>1, <2>2
<1>5. i \in 1..Len(prompts') /\ Owner(i)' = Owner(i) /\ prompts'[i].text = prompts[i].text
  BY <1>1, PreviewsStay
<1>6. Owner(jobs[j].prompt)' = prompts'[jobs'[j].prompt].admin
  BY DEF Owner
<1>7. prompts'[jobs[j].prompt].admin = prompts[jobs[j].prompt].admin
  BY <1>1, <1>3, PromptsStep DEF PromptsStay, TypeInv
<1> QED
  BY <1>2, <1>4, <1>5, <1>6, <1>7 DEF Owner

LEMMA ReportStep == FaithfulInv /\ [Next]_vars => ReportIsComplete'
<1> SUFFICES ASSUME FaithfulInv, [Next]_vars, NEW j \in 1..Len(jobs')
             PROVE  /\ jobs'[j].sent \cap jobs'[j].failed = {}
                    /\ jobs'[j].reported => jobs'[j].sent \cup jobs'[j].failed = Users
  BY DEF ReportIsComplete
<1>1. TypeInv
  BY DEF FaithfulInv
<1>2. CASE ~jobs'[j].reported /\ jobs'[j].sent = {} /\ jobs'[j].failed = {}
  BY <1>2
<1>3. CASE /\ j \in 1..Len(jobs)
           /\ \/ jobs'[j].sent = jobs[j].sent /\ jobs'[j].failed = jobs[j].failed
              \/ \E u \in Users \ (jobs[j].sent \cup jobs[j].failed) :
                    \/ jobs'[j].sent = jobs[j].sent \cup {u} /\ jobs'[j].failed = jobs[j].failed
                    \/ jobs'[j].failed = jobs[j].failed \cup {u} /\ jobs'[j].sent = jobs[j].sent
           /\ jobs'[j].reported => jobs[j].reported \/ jobs[j].sent \cup jobs[j].failed = Users
  <2>1. /\ jobs[j].sent \cap jobs[j].failed = {}
        /\ jobs[j].reported => jobs[j].sent \cup jobs[j].failed = Users
    BY <1>3 DEF FaithfulInv, JobsFaithful, ReportIsComplete
  <2> QED
    BY <1>3, <2>1
<1> QED
  BY <1>1, <1>2, <1>3, JobSteps

\* A job sends only what was shown to the admin whose click started it, and it
\* reports a result only after everyone was tried once (_send_broadcast,
\* admin.py:286), although the text is read from live data.
THEOREM Faithful == Spec => []JobsFaithful
<1>1. FaithfulInv /\ [Next]_vars => FaithfulInv'
  BY TypeStep, PreviewedStep, SentStep, ReportStep DEF FaithfulInv, JobsFaithful
<1>2. FaithfulInv => JobsFaithful
  BY DEF FaithfulInv
<1> QED
  BY <1>1, <1>2, FaithfulInit, PTL DEF Spec

----------------------------------------------------------------------------
\* A job that is confirmed takes the lock, and one that ends gives it back.
LEMMA LockStep == TypeInv /\ LockHasOwner /\ [Next]_vars => LockHasOwner'
<1> SUFFICES ASSUME TypeInv, LockHasOwner, [Next]_vars, lock', NoneMissed'
             PROVE  \E j \in 1..Len(jobs') : jobs'[j].at \in {"pending", "sending"}
  BY DEF LockHasOwner, Unfinished
<1>1. jobs \in Seq(Job)
  BY DEF TypeInv, TypeOK
<1>2. CASE Confirm
  <2>1. Len(jobs) + 1 \in 1..Len(jobs') /\ jobs'[Len(jobs) + 1].at \in {"pending", "missed"}
    BY <1>1, <1>2 DEF Confirm
  <2> QED
    BY <2>1 DEF NoneMissed
<1>3. CASE UNCHANGED <<lock, jobs>>
  BY <1>3 DEF LockHasOwner, NoneMissed, Unfinished
<1>4. ASSUME NEW k \in 1..Len(jobs), JobMissed(k) PROVE FALSE
  <2>1. jobs[k] \in Job
    BY <1>1
  <2>2. Len(jobs') = Len(jobs) /\ jobs'[k] = [jobs[k] EXCEPT !.at = "missed"]
    BY <1>1, <1>4 DEF JobMissed
  <2>3. jobs'[k].at = "missed"
    BY <2>1, <2>2 DEF Job
  <2> QED
    BY <2>2, <2>3 DEF NoneMissed
<1>5. ASSUME NEW k \in 1..Len(jobs), JobFails(k) \/ JobReport(k) PROVE FALSE
  BY <1>5 DEF JobFails, JobReport, Release
<1>6. ASSUME NEW k \in 1..Len(jobs), JobStart(k) \/ \E u \in Users : JobSend(k, u)
      PROVE  k \in 1..Len(jobs') /\ jobs'[k].at = "sending"
  <2>1. jobs[k] \in Job
    BY <1>1
  <2>2. CASE JobStart(k)
    <3> DEFINE job == [jobs[k] EXCEPT !.at = "sending", !.text = JobData(k).message]
    <3>1. jobs' = [jobs EXCEPT ![k] = job] /\ job.at = "sending"
      BY <2>1, <2>2 DEF JobStart, Job
    <3> HIDE DEF job
    <3> QED
      BY <1>1, <3>1
  <2>3. ASSUME NEW u \in Users, JobSend(k, u)
        PROVE  k \in 1..Len(jobs') /\ jobs'[k].at = "sending"
    <3> DEFINE sent == [jobs[k] EXCEPT !.sent = @ \cup {u}]
               failed == [jobs[k] EXCEPT !.failed = @ \cup {u}]
    <3>1. sent.at = "sending" /\ failed.at = "sending"
      BY <2>1, <2>3 DEF JobSend, Running, Job
    <3>2. jobs' = [jobs EXCEPT ![k] = sent] \/ jobs' = [jobs EXCEPT ![k] = failed]
      BY <2>3 DEF JobSend
    <3> HIDE DEF sent, failed
    <3> QED
      BY <1>1, <3>1, <3>2
  <2> QED
    BY <1>6, <2>2, <2>3
<1> QED
  BY <1>2, <1>3, <1>4, <1>5, <1>6
  DEF Next, vars, StartBroadcast, ProcessMessage, ProcessMessageFails, Press, AnswerFails,
      Conclude, CancelBroadcast, RunJob

\* A lock that is held has a job that will release it, unless the scheduler has
\* dropped one (broadcast_lock, admin.py:262 and 331).
THEOREM LockOwned == Spec => []LockHasOwner
<1>1. Init => LockHasOwner
  BY DEF Init, LockHasOwner
<1> QED
  BY <1>1, TypeInit, TypeStep, LockStep, PTL DEF Spec

----------------------------------------------------------------------------
Forward(j) ==
    /\ j <= Len(jobs')
    /\ jobs[j].at # "pending" => jobs'[j].text = jobs[j].text
    /\ jobs[j].sent \subseteq jobs'[j].sent
    /\ jobs[j].failed \subseteq jobs'[j].failed
    /\ jobs[j].at \in {"ended", "missed"} => jobs'[j] = jobs[j]

\* A step of one job leaves the others alone.
LEMMA OneForward ==
    ASSUME TypeInv, NEW j \in 1..Len(jobs), NEW k \in 1..Len(jobs), NEW job \in Job,
           jobs' = [jobs EXCEPT ![k] = job],
           jobs[k].at \in {"pending", "sending"},
           jobs[k].at # "pending" => job.text = jobs[k].text,
           jobs[k].sent \subseteq job.sent, jobs[k].failed \subseteq job.failed
    PROVE  Forward(j)
<1>1. /\ Len(jobs') = Len(jobs) /\ Len(jobs) \in Nat
      /\ jobs'[j] = IF j = k THEN job ELSE jobs[j]
  BY JobsChange DEF TypeInv, TypeOK
<1> QED
  BY <1>1 DEF Forward

LEMMA RunForward ==
    ASSUME TypeInv, NEW j \in 1..Len(jobs), NEW k \in 1..Len(jobs), RunJob(k) \/ JobMissed(k)
    PROVE  Forward(j)
<1>1. jobs[k] \in Job /\ jobs[k].prompt \in 1..Len(prompts)
  BY DEF TypeInv, TypeOK, JobsShown
<1>2. CASE JobStart(k)
  <2> DEFINE job == [jobs[k] EXCEPT !.at = "sending", !.text = JobData(k).message]
  <2>1. JobData(k).message \in Texts \cup {NoText}
    BY <1>1, OwnerOK DEF JobData, TypeInv, TypeOK, UserData
  <2>2. /\ job \in Job /\ job.sent = jobs[k].sent /\ job.failed = jobs[k].failed
        /\ jobs[k].at = "pending" /\ jobs' = [jobs EXCEPT ![k] = job]
    BY <1>1, <1>2, <2>1 DEF JobStart, Job
  <2> HIDE DEF job
  <2> QED
    BY <2>2, OneForward
<1>3. ASSUME NEW reported \in BOOLEAN, Release(k, reported), jobs[k].at \in {"pending", "sending"}
      PROVE  Forward(j)
  <2> DEFINE job == [jobs[k] EXCEPT !.at = "ended", !.reported = reported]
  <2>1. /\ job \in Job /\ job.sent = jobs[k].sent /\ job.failed = jobs[k].failed
        /\ job.text = jobs[k].text /\ jobs' = [jobs EXCEPT ![k] = job]
    BY <1>1, <1>3 DEF Release, Job
  <2> HIDE DEF job
  <2> QED
    BY <1>3, <2>1, OneForward
<1>4. CASE JobFails(k)
  BY <1>3, <1>4 DEF JobFails
<1>5. CASE JobReport(k)
  <2>1. JobData(k).chat \in BOOLEAN
    BY <1>1, OwnerOK DEF JobData, TypeInv, TypeOK, UserData
  <2> QED
    BY <1>3, <1>5, <2>1 DEF JobReport, Running
<1>6. ASSUME NEW u \in Users, JobSend(k, u) PROVE Forward(j)
  <2> DEFINE sent == [jobs[k] EXCEPT !.sent = @ \cup {u}]
             failed == [jobs[k] EXCEPT !.failed = @ \cup {u}]
  <2>1. /\ sent \in Job /\ sent.text = jobs[k].text
        /\ sent.sent = jobs[k].sent \cup {u} /\ sent.failed = jobs[k].failed
    BY <1>1 DEF Job
  <2>2. /\ failed \in Job /\ failed.text = jobs[k].text
        /\ failed.failed = jobs[k].failed \cup {u} /\ failed.sent = jobs[k].sent
    BY <1>1 DEF Job
  <2>3. jobs[k].at = "sending"
    BY <1>6 DEF JobSend, Running
  <2>4. jobs' = [jobs EXCEPT ![k] = sent] \/ jobs' = [jobs EXCEPT ![k] = failed]
    BY <1>6 DEF JobSend
  <2> HIDE DEF sent, failed
  <2> QED
    BY <2>1, <2>2, <2>3, <2>4, OneForward
<1>7. CASE JobMissed(k)
  <2> DEFINE job == [jobs[k] EXCEPT !.at = "missed"]
  <2>1. /\ job \in Job /\ job.sent = jobs[k].sent /\ job.failed = jobs[k].failed
        /\ jobs[k].at = "pending" /\ jobs' = [jobs EXCEPT ![k] = job]
    BY <1>1, <1>7 DEF JobMissed, Job
  <2> HIDE DEF job
  <2> QED
    BY <2>1, OneForward
<1> QED
  BY <1>2, <1>4, <1>5, <1>6, <1>7 DEF RunJob

LEMMA ForwardStep ==
    ASSUME TypeInv, [Next]_vars, NEW j \in 1..Len(jobs) PROVE Forward(j)
<1>1. jobs \in Seq(Job)
  BY DEF TypeInv, TypeOK
<1>2. CASE UNCHANGED jobs
  BY <1>1, <1>2 DEF Forward
<1>3. CASE Confirm
  BY <1>1, <1>3 DEF Confirm, Forward
<1> QED
  BY <1>2, <1>3, RunForward
  DEF Next, vars, StartBroadcast, ProcessMessage, ProcessMessageFails, Press, AnswerFails,
      Conclude, CancelBroadcast

\* The text of a job is read once, when it starts, and what it has reached of
\* the users only grows (_send_broadcast, admin.py:286), whatever the admin
\* writes and confirms meanwhile.
THEOREM ForwardHolds == Spec => JobsMoveForward
<1>1. TypeInv /\ [Next]_vars => [\A j \in 1..Len(jobs) :
          /\ j <= Len(jobs')
          /\ jobs[j].at # "pending" => jobs'[j].text = jobs[j].text
          /\ jobs[j].sent \subseteq jobs'[j].sent
          /\ jobs[j].failed \subseteq jobs'[j].failed
          /\ jobs[j].at \in {"ended", "missed"} => jobs'[j] = jobs[j]]_vars
  BY ForwardStep DEF Forward
<1> QED
  BY <1>1, TypeInit, TypeStep, PTL DEF Spec, JobsMoveForward
=============================================================================
