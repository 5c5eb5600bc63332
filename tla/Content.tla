------------------------------ MODULE Content ------------------------------
(***************************************************************************)
(* The content analysis of handlers/content.py.  A handler is one action,  *)
(* as in Competition: replies and edits that fail are folded into what the *)
(* user has seen and what was saved.                                       *)
(***************************************************************************)
EXTENDS Naturals

CONSTANTS
    Users,
    Messages   \* text messages: records with at least the field words

VARIABLES
    tool,      \* user_data['content_tool'], "none" when it is absent
    analyses,  \* the results each user has seen
    records    \* the results that db.save_content_analysis saved

\* The tools of the menu: the second "_"-separated part of "content_<id>" and
\* the least number of words.
TOOLS ==
    [kw_density       |-> [part |-> "kw",          min_length |-> 50],
     readability      |-> [part |-> "readability", min_length |-> 100],
     seo_optimize     |-> [part |-> "seo",         min_length |-> 150],
     content_summary  |-> [part |-> "content",     min_length |-> 200],
     plagiarism_check |-> [part |-> "plagiarism",  min_length |-> 50]]

Tools == DOMAIN TOOLS

\* The analysis functions return a text and never raise: a report, or an
\* apology when the AI service finds nothing or fails.
Outcomes == {"report", "apology"}

Analysis == [choice : Tools, input : Messages \X Outcomes]

ContentTypeOK ==
    /\ tool \in [Users -> Tools \cup {"none"}]
    /\ analyses \in [Users -> SUBSET Analysis]
    /\ records \in [Users -> SUBSET Analysis]

ContentInit ==
    /\ tool = [u \in Users |-> "none"]
    /\ analyses = [u \in Users |-> {}]
    /\ records = [u \in Users |-> {}]

\* data.split('_')[1] is compared with the whole id.
Selects(clicked, t) == t = TOOLS[clicked].part

\* handle_content_callback on a tool's button: the tool is stored before the
\* prompt is shown.  No tool found: nothing changes, and the old one stays.
ChooseTool(u, clicked) ==
    /\ \E t \in Tools : Selects(clicked, t) /\ tool' = [tool EXCEPT ![u] = t]
    /\ UNCHANGED <<analyses, records>>

\* send_analysis_result: show, then save.  An error of either is reported to
\* the user as an error in showing the result.
SendAnalysisResult(u, r) ==
    /\ analyses' = [analyses EXCEPT ![u] = @ \cup {r}]
    /\ records' \in {records, [records EXCEPT ![u] = @ \cup {r}]}

\* process_content_input, when a tool is chosen and the text is long enough.
\* Nothing clears the tool: each later text is analysed as well.  A text over
\* 5000 characters is cut after its words were counted.
ProcessContentInput(u, m) ==
    /\ tool[u] # "none"
    /\ m.words >= TOOLS[tool[u]].min_length
    /\ \E outcome \in Outcomes :
          SendAnalysisResult(u, [choice |-> tool[u], input |-> <<m, outcome>>])
    /\ UNCHANGED tool

\* The process starts again.
ContentRestart ==
    /\ tool' = [u \in Users |-> "none"]
    /\ UNCHANGED <<analyses, records>>
=============================================================================
