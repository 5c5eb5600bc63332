-------------------------------- MODULE Bot --------------------------------
(***************************************************************************)
(* The features registered with the one dispatcher of bot/main.py, and the *)
(* way an update finds its handler: of all handlers of a group, the first  *)
(* one registered that accepts the update gets it, and no other.  Which    *)
(* features a bot has, in which order, is chosen once.                     *)
(*                                                                         *)
(* The admin feature is here for its text handler, which accepts every     *)
(* text and ignores it unless a broadcast is being written (see            *)
(* AdminBroadcast).                                                        *)
(***************************************************************************)
EXTENDS Naturals, Sequences, FiniteSets, Competition

CONSTANTS
    Messages,   \* the text messages, with a chat, a number of words and a domain
    Orders,     \* the orders of registration
    MaxResults  \* bound: different results shown in a behaviour

VARIABLES order, tool, analyses, records

INSTANCE Content

contentVars == <<tool, analyses, records>>

vars == <<order, action, state, reports, history, charts, tool, analyses, records>>

\* handlers/backlinks.py registers the same handlers for the same updates.
Backlinks == INSTANCE Competition

\* The order in main.py; the technical and the dashboard handlers accept none
\* of the updates below.
MainOrder == <<"admin", "content", "technical", "backlinks", "competition", "dashboard">>

\* A feature is registered once.
ASSUME OrdersAssumption ==
    \A o \in Orders : \A i, j \in 1..Len(o) : o[i] = o[j] => i = j

Features == {MainOrder[i] : i \in 1..Len(MainOrder)}

Chats == {"private", "group"}

\* Filters.text, without or with Filters.chat_type.private.
TakesText(f, chat) ==
    \/ f \in {"admin", "content"}
    \/ f \in {"backlinks", "competition"} /\ chat = "private"

\* "/competition", "^comp_": the copy registers them too.
TakesCompetition(f) == f \in {"backlinks", "competition"}

IsFirst(i, accepting) == \A j \in accepting : i <= j

\* f is the feature that gets an update which the features in takers accept.
Gets(f, takers) ==
    LET accepting == {i \in 1..Len(order) : order[i] \in takers} IN
    \E i \in accepting : order[i] = f /\ IsFirst(i, accepting)

GetsText(f, chat) == Gets(f, {g \in Features : TakesText(g, chat)})

GetsCompetition(f) == Gets(f, {g \in Features : TakesCompetition(g)})

TypeOK == order \in Orders /\ CompetitionTypeOK /\ ContentTypeOK

Init == order \in Orders /\ CompetitionInit /\ ContentInit

Results == UNION {reports[u] \cup analyses[u] : u \in Users}

\* The command and the buttons.  Buttons sent before a restart still work.
CompetitionUpdate(u) ==
    \/ /\ GetsCompetition("competition")
       /\ \/ CompetitionMenu(u)
          \/ \E a \in Actions : RequestInput(u, a)
          \/ \E d \in Domains : SendChart(u, d)
    \/ /\ GetsCompetition("backlinks")
       /\ \/ Backlinks!CompetitionMenu(u)
          \/ \E a \in Actions : Backlinks!RequestInput(u, a)
          \/ \E d \in Domains : Backlinks!SendChart(u, d)

CompetitionText(u, m) ==
    \/ GetsText("competition", m.chat) /\ ProcessDomainInput(u, m.domain)
    \/ GetsText("backlinks", m.chat) /\ Backlinks!ProcessDomainInput(u, m.domain)

\* "^content_" is registered before "^content_menu$" and takes its clicks too.
ContentUpdate(u) ==
    /\ Gets("content", {"content"})
    /\ \E clicked \in Tools : ChooseTool(u, clicked)

ContentText(u, m) == GetsText("content", m.chat) /\ ProcessContentInput(u, m)

Text(u, m) ==
    /\ Cardinality(Results) < MaxResults
    /\ \/ CompetitionText(u, m) /\ UNCHANGED contentVars
       \/ ContentText(u, m) /\ UNCHANGED competitionVars

Restart == CompetitionRestart /\ ContentRestart

Next ==
    /\ \/ \E u \in Users : CompetitionUpdate(u) /\ UNCHANGED contentVars
       \/ \E u \in Users : ContentUpdate(u) /\ UNCHANGED competitionVars
       \/ \E u \in Users, m \in Messages : Text(u, m)
       \/ Restart
    /\ UNCHANGED order

Spec == Init /\ [][Next]_vars

----------------------------------------------------------------------------
CompetitionDialogue == INSTANCE Dialogue WITH
    Choices <- Actions, Inputs <- Domains, NoChoice <- "none",
    choice <- action, shown <- reports, saved <- history

ContentDialogue == INSTANCE Dialogue WITH
    Choices <- Tools, Inputs <- Messages \X Outcomes, NoChoice <- "none",
    choice <- tool, shown <- analyses, saved <- records

\* Whatever fails, is cancelled or restarted, both features keep to Dialogue: a
\* result is of the analysis the user chose last, and it is saved only when it
\* was shown.
KeepsDialogues == CompetitionDialogue!Spec /\ ContentDialogue!Spec

\* competition_state fits competition_action between handlers: PROCESSING stays
\* behind only when the chosen action wants no domain, and a state that waits
\* for input names the input of that action.
StateFitsAction ==
    \A u \in Users :
        /\ state[u] = "PROCESSING" => action[u] \notin Analyses
        /\ state[u] = "AWAITING_KEYWORDS" => action[u] = "compare_keywords"
        /\ state[u] = "AWAITING_DOMAIN" => action[u] \in Analyses

\* Four of the five content tools cannot be chosen, so nobody ever gets their
\* results.
ToolsReached ==
    \A u \in Users : \A r \in analyses[u] : r.choice = "readability"

\* A feature shows results only where its text handler is reached: with the
\* admin handlers in front no text gets to any other, and in a group none gets
\* to the competition analysis.
FeaturesReached ==
    \A u \in Users :
        /\ reports[u] # {} => GetsText("competition", "private") \/ GetsText("backlinks", "private")
        /\ \A r \in analyses[u] : \A i, j \in 1..Len(order) :
              order[j] = "content" /\ i < j => ~TakesText(order[i], r.input[1].chat)

\* What is in the history had all its messages accepted, the one with the
\* buttons too, and no summary was read whose buttons are refused.
HistoryReached ==
    \A u \in Users :
        /\ \A r \in history[u] : r \in reports[u] /\ r.input \notin TooLong[r.choice]
        /\ \A r \in reports[u] : Readable(r)

\* A chart answers a summary the user has seen, but it is of what that
\* summary's button kept of its domain: nothing, a part, or another domain.
ChartsReached ==
    \A u \in Users : \A c \in charts[u] :
        \E r \in reports[u] : r.choice = "analyze_competitors" /\ c = BeforeColon[r.input]

\* What users can get out of the bot at all, in each order of registration.
OnlyReachable == ToolsReached /\ FeaturesReached /\ HistoryReached /\ ChartsReached
=============================================================================
