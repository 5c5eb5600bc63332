---------------------------- MODULE Competition ----------------------------
(***************************************************************************)
(* The competition analysis of handlers/competition.py, of which           *)
(* handlers/backlinks.py is a copy with the same commands, patterns and    *)
(* user_data keys.  One handler is one action: the dispatcher thread runs  *)
(* one at a time.  Each reply or edit can raise, and one that timed out    *)
(* may have arrived all the same; the error paths send again and can raise *)
(* too.  What is left of that here is which data a handler leaves behind   *)
(* and what the user has seen.                                             *)
(*                                                                         *)
(* Clicks that change none of this are no actions: a list of the saved     *)
(* reports, "comp_details:" (_show_competitor_details does not exist, the  *)
(* AttributeError is caught), and the buttons that match a pattern and no  *)
(* branch: "view_comp_saved:", "download_comp_report:",                    *)
(* "comp_full_chart:".  "back", also the data of every cancel button,      *)
(* matches no pattern, so that cancelling leaves the action chosen.        *)
(***************************************************************************)
CONSTANTS
    Users,
    Domains,   \* the texts validate_domain accepts, stripped and in lower case
    NoDomain,  \* stands for any other text
    TooLong,   \* per analysis, domains whose buttons exceed Telegram's 64 bytes
    BeforeColon \* per domain, what stands before its first colon

VARIABLES
    action,    \* user_data['competition_action'], "none" when it is absent
    state,     \* user_data['competition_state']
    reports,   \* the reports each user has seen
    history,   \* the reports that db.save_competition_query saved
    charts     \* the texts whose charts each user has been sent

competitionVars == <<action, state, reports, history, charts>>

Actions == {"analyze_competitors", "full_report", "compare_keywords"}

Analyses == {"analyze_competitors", "full_report"}

States == {"none", "IDLE", "AWAITING_DOMAIN", "AWAITING_KEYWORDS", "PROCESSING"}

\* Mutant: the action is stored as the state.
Awaits_Action(a) == a

Awaits(a) == IF a = "compare_keywords" THEN "AWAITING_KEYWORDS" ELSE "AWAITING_DOMAIN"

Report == [choice : Analyses, input : Domains]

ChartTexts == {BeforeColon[d] : d \in Domains}

CompetitionTypeOK ==
    /\ action \in [Users -> Actions \cup {"none"}]
    /\ state \in [Users -> States]
    /\ reports \in [Users -> SUBSET Report]
    /\ history \in [Users -> SUBSET Report]
    /\ charts \in [Users -> SUBSET ChartTexts]

CompetitionInit ==
    /\ action = [u \in Users |-> "none"]
    /\ state = [u \in Users |-> "none"]
    /\ reports = [u \in Users |-> {}]
    /\ history = [u \in Users |-> {}]
    /\ charts = [u \in Users |-> {}]

SetState(u, s) == state' = [state EXCEPT ![u] = s]

\* /competition: the state is set before the menu is sent.  The action stays.
CompetitionMenu(u) ==
    /\ SetState(u, "IDLE")
    /\ UNCHANGED <<action, reports, history, charts>>

\* _request_target_domain, _request_full_report_domain, _request_compare_keywords:
\* both entries are stored before the prompt, and stay when it cannot be shown.
RequestInput(u, a) ==
    /\ action' = [action EXCEPT ![u] = a]
    /\ SetState(u, Awaits(a))
    /\ UNCHANGED <<reports, history, charts>>

\* The text is no domain.  Nothing happens, unless the reply fails: then the
\* outer except clause resets the state once its own message is out.
RejectText(u) ==
    /\ SetState(u, "IDLE")
    /\ UNCHANGED <<action, reports, history, charts>>

\* No action, or the one that wants keywords: "invalid request".  The state was
\* set to PROCESSING before that and stays, unless the reply fails and the
\* error message goes out.
RejectAction(u) ==
    /\ action[u] \notin Analyses
    /\ \E s \in {"PROCESSING", "IDLE"} : SetState(u, s)
    /\ UNCHANGED <<action, reports, history, charts>>

\* Mutant: the query is saved before the report is sent.
SaveReport_First(u, r) ==
    \/ reports' = reports /\ history' = [history EXCEPT ![u] = @ \cup {r}]
    \/ /\ reports' = [reports EXCEPT ![u] = @ \cup {r}]
       /\ history' = [history EXCEPT ![u] = @ \cup {r}]

\* Mutant: the query is saved before the message with the buttons is sent.
SaveReport_BeforeButtons(u, r) ==
    /\ reports' = [reports EXCEPT ![u] = @ \cup {r}]
    /\ history' \in {history, [history EXCEPT ![u] = @ \cup {r}]}

\* The report goes out, and then to the history: unless the database fails,
\* which is swallowed, or the last message of the report could not be sent.
SaveReport(u, r) ==
    /\ reports' = [reports EXCEPT ![u] = @ \cup {r}]
    /\ \/ UNCHANGED history
       \/ /\ r.input \notin TooLong[r.choice]
          /\ history' = [history EXCEPT ![u] = @ \cup {r}]

\* A summary carries its buttons and is refused with them; a full report has
\* been read by the time its buttons are refused.
Readable(r) == r.choice = "analyze_competitors" => r.input \notin TooLong[r.choice]

\* Mutant: the state is reset on the successful path only.
Analyse_KeepsState(u, d) ==
    LET r == [choice |-> action[u], input |-> d] IN
    /\ action[u] \in Analyses
    /\ \/ SetState(u, "PROCESSING") /\ UNCHANGED <<reports, history>>
       \/ SetState(u, "IDLE") /\ Readable(r) /\ SaveReport(u, r)
    /\ UNCHANGED <<action, charts>>

\* _analyze_competitors, _generate_full_report: the analyzer finds nothing or
\* raises, or a message fails; or the report is shown.  "finally: IDLE".
Analyse(u, d) ==
    LET r == [choice |-> action[u], input |-> d] IN
    /\ action[u] \in Analyses
    /\ SetState(u, "IDLE")
    /\ \/ UNCHANGED <<reports, history>>
       \/ Readable(r) /\ SaveReport(u, r)
    /\ UNCHANGED <<action, charts>>

\* process_domain_input: the state is written and never read.  The action is
\* the last one chosen, however long ago and whatever was cancelled since.
ProcessDomainInput(u, d) ==
    \/ d = NoDomain /\ RejectText(u)
    \/ d \in Domains /\ (Analyse(u, d) \/ RejectAction(u))

\* action.split(":")[1] of "comp_chart:<domain>".  validate_domain drops both
\* schemes and all that follows the first "/" from what it looks at, not from
\* the text: "https://example.com" leaves "https" here, "http://..." leaves
\* "http", "example.com/a:b" leaves "example.com/a", and the rest themselves.
ChartDomain(d) == BeforeColon[d]

\* _generate_competition_chart, from the buttons of a summary: the analyzer is
\* asked once more, and the chart is sent if everything succeeds.
SendChart(u, d) ==
    /\ [choice |-> "analyze_competitors", input |-> d] \in reports[u]
    /\ charts' = [charts EXCEPT ![u] = @ \cup {ChartDomain(d)}]
    /\ UNCHANGED <<action, state, reports, history>>

\* The process starts again: user_data is kept in memory only.
CompetitionRestart ==
    /\ action' = [u \in Users |-> "none"]
    /\ state' = [u \in Users |-> "none"]
    /\ UNCHANGED <<reports, history, charts>>
=============================================================================
