--------------------------- MODULE AdminBroadcast ---------------------------
(***************************************************************************)
(* The broadcast conversation of handlers/admin.py.  The dispatcher thread *)
(* runs one handler at a time; _send_broadcast runs on a thread of the job *)
(* queue, with the admin's live user_data dictionary as its context.       *)
(*                                                                         *)
(* A prompt is a confirmation message with its two buttons: it stays on    *)
(* the admin's screen, clickable, until an edit takes its keyboard away.   *)
(* The "back" buttons of this file lead nowhere (their callback data does  *)
(* not match "^admin_"), so pressing one is no action here.                *)
(***************************************************************************)
EXTENDS Naturals, Sequences, FiniteSets

CONSTANTS
    Admins,      \* users that pass @restricted
    Users,       \* what db.get_all_users() returns
    Texts,       \* broadcast texts
    NoText,      \* an absent 'broadcast_message'
    MaxPrompts,  \* bound: prompts shown in a behaviour
    MaxJobs,     \* bound: confirmations handled in a behaviour
    MaxClicks    \* bound: clicks waiting for the dispatcher thread

ASSUME TextsAssumption == NoText \notin Texts
ASSUME UsersAssumption == IsFiniteSet(Users)
ASSUME BoundsAssumption == MaxPrompts \in Nat /\ MaxJobs \in Nat /\ MaxClicks \in Nat

VARIABLES
    lock,       \* broadcast_lock
    userData,   \* context.user_data of each admin
    prompts,    \* the prompts shown so far, in order
    clicks,     \* button presses the dispatcher has not handled
    handling,   \* the prompt whose confirmation is being handled, 0 for none
    jobs        \* the jobs given to run_once, in order

vars == <<lock, userData, prompts, clicks, handling, jobs>>

States == {"none", "WAITING_MESSAGE", "WAITING_CONFIRMATION"}

UserData == [state : States, message : Texts \cup {NoText}, chat : BOOLEAN]

Prompt == [admin : Admins, text : Texts, live : BOOLEAN]

Job == [prompt : 1..MaxPrompts, at : {"pending", "sending", "ended", "missed"},
        text : Texts \cup {NoText}, sent : SUBSET Users, failed : SUBSET Users,
        reported : BOOLEAN]

TypeOK ==
    /\ lock \in BOOLEAN
    /\ userData \in [Admins -> UserData]
    /\ prompts \in Seq(Prompt) /\ Len(prompts) <= MaxPrompts
    /\ clicks \in Seq([prompt : 1..Len(prompts), confirm : BOOLEAN])
    /\ handling \in 0..Len(prompts)
    /\ jobs \in Seq(Job)
    /\ \A j \in 1..Len(jobs) : jobs[j].at = "sending" => jobs[j].text # NoText

----------------------------------------------------------------------------
Empty == [state |-> "none", message |-> NoText, chat |-> FALSE]

Idle == handling = 0
Owner(i) == prompts[i].admin
JobData(j) == userData[Owner(jobs[j].prompt)]
Running(j) == jobs[j].at = "sending"
Unfinished(j) == jobs[j].at \in {"pending", "sending"}
NoneMissed == \A j \in 1..Len(jobs) : jobs[j].at # "missed"

Init ==
    /\ lock = FALSE
    /\ userData = [a \in Admins |-> Empty]
    /\ prompts = <<>>
    /\ clicks = <<>>
    /\ handling = 0
    /\ jobs = <<>>

\* Mutant: the text is not popped.
Reset_KeepsMessage(a) ==
    userData' = [userData EXCEPT ![a].state = "none", ![a].chat = FALSE]

\* _reset_broadcast
Reset(a) == userData' = [userData EXCEPT ![a] = Empty]

\* _start_broadcast: the only place where the lock is looked at.  The state is
\* set before the edit that may fail, and stays set when it does.
StartBroadcast(a) ==
    /\ Idle
    /\ ~lock
    /\ userData' = [userData EXCEPT ![a].state = "WAITING_MESSAGE", ![a].chat = TRUE]
    /\ UNCHANGED <<lock, prompts, clicks, handling, jobs>>

\* _process_broadcast_message: show the prompt, then store the text.
ProcessMessage(a, text) ==
    /\ Idle
    /\ userData[a].state = "WAITING_MESSAGE"
    /\ Len(prompts) < MaxPrompts
    /\ prompts' = Append(prompts, [admin |-> a, text |-> text, live |-> TRUE])
    /\ userData' = [userData EXCEPT ![a].message = text,
                                    ![a].state = "WAITING_CONFIRMATION"]
    /\ UNCHANGED <<lock, clicks, handling, jobs>>

\* The same when the database or reply_text fails: the conversation is reset,
\* unless the error message cannot be sent either, which skips the reset.  A
\* send that timed out may have shown the prompt all the same.
ProcessMessageFails(a, text) ==
    /\ Idle
    /\ userData[a].state = "WAITING_MESSAGE"
    /\ \/ UNCHANGED prompts
       \/ /\ Len(prompts) < MaxPrompts
          /\ prompts' = Append(prompts, [admin |-> a, text |-> text, live |-> TRUE])
    /\ Reset(a) \/ UNCHANGED userData
    /\ UNCHANGED <<lock, clicks, handling, jobs>>

\* The admin presses a button of a prompt that still shows its keyboard.
Press(i, confirm) ==
    /\ prompts[i].live
    /\ Len(clicks) < MaxClicks
    /\ clicks' = Append(clicks, [prompt |-> i, confirm |-> confirm])
    /\ UNCHANGED <<lock, userData, prompts, handling, jobs>>

\* _handle_broadcast_confirmation, "confirm_broadcast", lines 262-267: neither
\* the lock, nor the state, nor the prompt the click came from is checked.  If
\* run_once raises, the except clause edits and resets like the rest of the
\* handler: the lock is set for a job that never runs.
Confirm ==
    /\ Idle
    /\ clicks # <<>> /\ Head(clicks).confirm
    /\ Len(jobs) < MaxJobs
    /\ lock' = TRUE
    /\ \E at \in {"pending", "missed"} :
          jobs' = Append(jobs, [prompt |-> Head(clicks).prompt, at |-> at,
                                text |-> NoText, sent |-> {}, failed |-> {},
                                reported |-> FALSE])
    /\ handling' = Head(clicks).prompt
    /\ clicks' = Tail(clicks)
    /\ UNCHANGED <<userData, prompts>>

\* query.answer() raises before the try: the click has no effect at all.
AnswerFails ==
    /\ Idle
    /\ clicks # <<>>
    /\ clicks' = Tail(clicks)
    /\ UNCHANGED <<lock, userData, prompts, handling, jobs>>

\* The edit of prompt i and the reset: the keyboard goes unless every edit
\* failed, in which case the exception also skips the reset.
EditAndReset(i) ==
    \/ /\ prompts' = [prompts EXCEPT ![i].live = FALSE]
       /\ Reset(Owner(i))
    \/ UNCHANGED <<prompts, userData>>

\* Lines 269-284: the rest of the confirmation, racing with the job.
Conclude ==
    /\ ~Idle
    /\ EditAndReset(handling)
    /\ handling' = 0
    /\ UNCHANGED <<lock, clicks, jobs>>

\* The same handler on "cancel_broadcast".
CancelBroadcast ==
    /\ Idle
    /\ clicks # <<>> /\ ~Head(clicks).confirm
    /\ EditAndReset(Head(clicks).prompt)
    /\ clicks' = Tail(clicks)
    /\ UNCHANGED <<lock, handling, jobs>>

\* "finally: self.broadcast_lock = False", whatever is still being sent.
Release(j, reported) ==
    /\ lock' = FALSE
    /\ jobs' = [jobs EXCEPT ![j].at = "ended", ![j].reported = reported]

\* Mutant: "if not message" is missing.
JobStart_Unchecked(j) ==
    /\ jobs[j].at = "pending"
    /\ jobs' = [jobs EXCEPT ![j].at = "sending", ![j].text = JobData(j).message]
    /\ UNCHANGED <<lock, userData, prompts, clicks, handling>>

\* _send_broadcast reads the message from the live user_data.
JobStart(j) ==
    /\ jobs[j].at = "pending"
    /\ JobData(j).message # NoText
    /\ jobs' = [jobs EXCEPT ![j].at = "sending", ![j].text = JobData(j).message]
    /\ UNCHANGED <<lock, userData, prompts, clicks, handling>>

\* Mutant: the lock is released on the successful path only.
JobFails_KeepsLock(j) ==
    /\ jobs[j].at = "pending"
    /\ jobs' = [jobs EXCEPT ![j].at = "ended"]
    /\ UNCHANGED <<lock, userData, prompts, clicks, handling>>

\* No message, or the user list cannot be read: nothing is sent.
JobFails(j) ==
    /\ jobs[j].at = "pending"
    /\ Release(j, FALSE)
    /\ UNCHANGED <<userData, prompts, clicks, handling>>

\* One send_message of the loop, delivered or not.
JobSend(j, u) ==
    /\ Running(j)
    /\ u \notin jobs[j].sent \cup jobs[j].failed
    /\ \/ jobs' = [jobs EXCEPT ![j].sent = @ \cup {u}]
       \/ jobs' = [jobs EXCEPT ![j].failed = @ \cup {u}]
    /\ UNCHANGED <<lock, userData, prompts, clicks, handling>>

\* Mutant: the report does not wait for the loop over the users.
JobReport_Early(j) ==
    /\ Running(j)
    /\ \E reported \in {FALSE, JobData(j).chat} : Release(j, reported)
    /\ UNCHANGED <<userData, prompts, clicks, handling>>

\* The report to admin_chat_id, read only now; it needs the chat to be there
\* still, and may fail to be sent.
JobReport(j) ==
    /\ Running(j)
    /\ jobs[j].sent \cup jobs[j].failed = Users
    /\ \E reported \in {FALSE, JobData(j).chat} : Release(j, reported)
    /\ UNCHANGED <<userData, prompts, clicks, handling>>

\* APScheduler gets to the job more than misfire_grace_time late and drops it:
\* _send_broadcast, and its finally clause, never run.
JobMissed(j) ==
    /\ jobs[j].at = "pending"
    /\ jobs' = [jobs EXCEPT ![j].at = "missed"]
    /\ UNCHANGED <<lock, userData, prompts, clicks, handling>>

RunJob(j) ==
    JobStart(j) \/ JobFails(j) \/ JobReport(j) \/ \E u \in Users : JobSend(j, u)

Next ==
    \/ \E a \in Admins : StartBroadcast(a)
    \/ \E a \in Admins, text \in Texts :
          ProcessMessage(a, text) \/ ProcessMessageFails(a, text)
    \/ \E i \in 1..Len(prompts), confirm \in BOOLEAN : Press(i, confirm)
    \/ Confirm \/ AnswerFails \/ Conclude \/ CancelBroadcast
    \/ \E j \in 1..Len(jobs) : RunJob(j) \/ JobMissed(j)

Spec == Init /\ [][Next]_vars

\* The dispatcher thread finishes its handler, and the job threads run.
Fairness ==
    /\ WF_vars(Conclude)
    /\ \A j \in 1..MaxJobs : WF_vars(j \in 1..Len(jobs) /\ RunJob(j))

FairSpec == Spec /\ Fairness

----------------------------------------------------------------------------
\* The conversation data is whole: a text is stored only with its state and
\* its chat, through failed sends, late clicks and resets by other prompts.
UserDataWhole ==
    \A a \in Admins :
        /\ userData[a].state = "none" <=> ~userData[a].chat
        /\ userData[a].message # NoText => userData[a].chat
        /\ userData[a].state = "WAITING_CONFIRMATION" => userData[a].message # NoText

\* A lock that is held belongs to a job that will release it, unless a job was
\* missed or not taken on.
LockHasOwner ==
    lock /\ NoneMissed => \E j \in 1..Len(jobs) : Unfinished(j)

\* A text that goes out was shown in a prompt to the admin whose click started
\* the job: never another admin's text, nor one that was only typed.
OnlyPreviewedIsSent ==
    \A j \in 1..Len(jobs) : jobs[j].text # NoText =>
        \E i \in 1..Len(prompts) : /\ Owner(i) = Owner(jobs[j].prompt)
                                   /\ prompts[i].text = jobs[j].text

\* A result is reported only after everyone was tried, and nobody twice.
ReportIsComplete ==
    \A j \in 1..Len(jobs) :
        /\ jobs[j].sent \cap jobs[j].failed = {}
        /\ jobs[j].reported => jobs[j].sent \cup jobs[j].failed = Users

\* What a job sends was previewed, and what it reports is complete, through
\* prompts and texts that replace each other while it runs.
JobsFaithful == OnlyPreviewedIsSent /\ ReportIsComplete

\* Everyone gets the same text, the one the job found when it started, although
\* the admin can write and confirm another one meanwhile; nobody is taken back
\* from the result, and a job that is over does not change.
JobsMoveForward ==
    [][\A j \in 1..Len(jobs) :
          /\ j <= Len(jobs')
          /\ jobs[j].at # "pending" => jobs'[j].text = jobs[j].text
          /\ jobs[j].sent \subseteq jobs'[j].sent
          /\ jobs[j].failed \subseteq jobs'[j].failed
          /\ jobs[j].at \in {"ended", "missed"} => jobs'[j] = jobs[j]]_vars

\* While nothing is missed the lock does not stay: broadcasts can start again.
LockReleased == []NoneMissed => (lock ~> ~lock)

\* The prompt (lines 229-234): "this message will be sent to ... users, are
\* you sure?": a job sends the text of the prompt that was confirmed.
SendsWhatWasConfirmed ==
    \A j \in 1..Len(jobs) : jobs[j].text \in {NoText, prompts[jobs[j].prompt].text}
============================================================================
