----------------------------- MODULE BotProofs -----------------------------
(***************************************************************************)
(* Proofs about Bot, for every order in which the features can be          *)
(* registered, any number of users and any domains and messages.  The two  *)
(* analyses that share their user_data are one module twice, so that a     *)
(* step of either is a step of Competition (Copy, Steps).                  *)
(***************************************************************************)
EXTENDS Bot, TLAPS

\* What a step can do, whichever feature gets the update.
CompetitionStep ==
    /\ UNCHANGED contentVars
    /\ \E u \in Users :
          \/ CompetitionMenu(u)
          \/ \E a \in Actions : RequestInput(u, a)
          \/ \E d \in Domains : SendChart(u, d)
          \/ \E m \in Messages :
                /\ GetsText("competition", m.chat) \/ GetsText("backlinks", m.chat)
                /\ ProcessDomainInput(u, m.domain)

ContentStep ==
    /\ UNCHANGED competitionVars
    /\ \E u \in Users :
          \/ \E clicked \in Tools : ChooseTool(u, clicked)
          \/ \E m \in Messages : GetsText("content", m.chat) /\ ProcessContentInput(u, m)

Stutter == UNCHANGED competitionVars /\ UNCHANGED contentVars

LEMMA Copy ==
    ASSUME NEW u, NEW a, NEW d
    PROVE  /\ Backlinks!CompetitionMenu(u) = CompetitionMenu(u)
           /\ Backlinks!RequestInput(u, a) = RequestInput(u, a)
           /\ Backlinks!SendChart(u, d) = SendChart(u, d)
           /\ Backlinks!ProcessDomainInput(u, d) = ProcessDomainInput(u, d)
<1>1. Backlinks!CompetitionMenu(u) = CompetitionMenu(u)
  BY Zenon DEF CompetitionMenu, Backlinks!CompetitionMenu, SetState, Backlinks!SetState
<1>2. Backlinks!RequestInput(u, a) = RequestInput(u, a)
  BY Zenon DEF RequestInput, Backlinks!RequestInput, SetState, Backlinks!SetState,
              Awaits, Backlinks!Awaits
<1>3. Backlinks!SendChart(u, d) = SendChart(u, d)
  BY Zenon DEF SendChart, Backlinks!SendChart, ChartDomain, Backlinks!ChartDomain
<1>4. Backlinks!ProcessDomainInput(u, d) = ProcessDomainInput(u, d)
  BY Zenon DEF ProcessDomainInput, Backlinks!ProcessDomainInput, RejectText,
              Backlinks!RejectText, Analyse, Backlinks!Analyse, RejectAction,
              Backlinks!RejectAction, SetState, Backlinks!SetState, SaveReport,
              Backlinks!SaveReport, Readable, Backlinks!Readable, Analyses,
              Backlinks!Analyses
<1> QED  BY <1>1, <1>2, <1>3, <1>4

LEMMA Steps ==
    ASSUME [Next]_vars
    PROVE  /\ CompetitionStep \/ ContentStep \/ Restart \/ Stutter
           /\ UNCHANGED order
<1>1. ASSUME NEW u \in Users, CompetitionUpdate(u), UNCHANGED contentVars
      PROVE  CompetitionStep
  BY <1>1, Copy DEF CompetitionUpdate, CompetitionStep, Actions, Backlinks!Actions
<1>2. ASSUME NEW u \in Users, ContentUpdate(u), UNCHANGED competitionVars
      PROVE  ContentStep
  BY <1>2 DEF ContentUpdate, ContentStep
<1>3. ASSUME NEW u \in Users, NEW m \in Messages, Text(u, m)
      PROVE  CompetitionStep \/ ContentStep
  BY <1>3, Copy DEF Text, CompetitionText, ContentText, CompetitionStep, ContentStep
<1>4. UNCHANGED vars => Stutter /\ UNCHANGED order
  BY DEF vars, Stutter, competitionVars, contentVars
<1> QED  BY <1>1, <1>2, <1>3, <1>4 DEF Next

-----------------------------------------------------------------------------
(***************************************************************************)
(* Type correctness.                                                       *)
(***************************************************************************)

LEMMA PartIsReadability ==
    ASSUME NEW clicked \in Tools, NEW t \in Tools, Selects(clicked, t)
    PROVE  t = "readability"
  BY DEF Selects, Tools, TOOLS

LEMMA TypeInit == ASSUME Init PROVE TypeOK
  BY DEF Init, TypeOK, CompetitionInit, ContentInit, CompetitionTypeOK, ContentTypeOK, States

LEMMA CompetitionTypeStep ==
    ASSUME CompetitionTypeOK, CompetitionStep
    PROVE  CompetitionTypeOK'
<1>1. PICK u \in Users :
          \/ CompetitionMenu(u)
          \/ \E a \in Actions : RequestInput(u, a)
          \/ \E d \in Domains : SendChart(u, d)
          \/ \E m \in Messages : ProcessDomainInput(u, m.domain)
  BY DEF CompetitionStep
<1>2. CASE CompetitionMenu(u)
  BY <1>2 DEF CompetitionMenu, SetState, CompetitionTypeOK, States
<1>3. ASSUME NEW a \in Actions, RequestInput(u, a) PROVE CompetitionTypeOK'
  BY <1>3 DEF RequestInput, SetState, Awaits, CompetitionTypeOK, States
<1>4. ASSUME NEW d \in Domains, SendChart(u, d) PROVE CompetitionTypeOK'
  BY <1>4 DEF SendChart, ChartDomain, ChartTexts, CompetitionTypeOK
<1>5. ASSUME NEW d, RejectText(u) PROVE CompetitionTypeOK'
  BY <1>5 DEF RejectText, SetState, CompetitionTypeOK, States
<1>6. ASSUME RejectAction(u) PROVE CompetitionTypeOK'
  BY <1>6 DEF RejectAction, SetState, CompetitionTypeOK, States
<1>7. ASSUME NEW d \in Domains, Analyse(u, d) PROVE CompetitionTypeOK'
  <2> DEFINE r == [choice |-> action[u], input |-> d]
  <2>1. r \in Report
    BY <1>7 DEF Analyse, Report
  <2>2. reports' \in [Users -> SUBSET Report] /\ history' \in [Users -> SUBSET Report]
    BY <1>7, <2>1 DEF Analyse, SaveReport, CompetitionTypeOK
  <2> QED  BY <1>7, <2>2 DEF Analyse, SetState, CompetitionTypeOK, States
<1> QED  BY <1>1, <1>2, <1>3, <1>4, <1>5, <1>6, <1>7 DEF ProcessDomainInput

LEMMA ContentTypeStep ==
    ASSUME ContentTypeOK, ContentStep
    PROVE  ContentTypeOK'
<1>1. PICK u \in Users :
          \/ \E clicked \in Tools : ChooseTool(u, clicked)
          \/ \E m \in Messages : ProcessContentInput(u, m)
  BY DEF ContentStep
<1>2. ASSUME NEW clicked \in Tools, ChooseTool(u, clicked) PROVE ContentTypeOK'
  BY <1>2 DEF ChooseTool, ContentTypeOK
<1>3. ASSUME NEW m \in Messages, ProcessContentInput(u, m) PROVE ContentTypeOK'
  <2>1. PICK outcome \in Outcomes :
            SendAnalysisResult(u, [choice |-> tool[u], input |-> <<m, outcome>>])
    BY <1>3 DEF ProcessContentInput
  <2> DEFINE r == [choice |-> tool[u], input |-> <<m, outcome>>]
  <2>2. r \in Analysis
    BY <1>3 DEF ProcessContentInput, ContentTypeOK, Analysis
  <2> HIDE DEF r
  <2>3. analyses' \in [Users -> SUBSET Analysis] /\ records' \in [Users -> SUBSET Analysis]
    BY <2>1, <2>2 DEF SendAnalysisResult, ContentTypeOK, r
  <2> QED  BY <1>3, <2>3 DEF ProcessContentInput, ContentTypeOK
<1> QED  BY <1>1, <1>2, <1>3

LEMMA TypeStep == ASSUME TypeOK, [Next]_vars PROVE TypeOK'
<1>1. CASE CompetitionStep
  BY <1>1, Steps, CompetitionTypeStep DEF TypeOK, CompetitionStep, contentVars, ContentTypeOK
<1>2. CASE ContentStep
  BY <1>2, Steps, ContentTypeStep DEF TypeOK, ContentStep, competitionVars, CompetitionTypeOK
<1>3. CASE Restart
  BY <1>3, Steps DEF Restart, CompetitionRestart, ContentRestart, TypeOK, CompetitionTypeOK,
     ContentTypeOK, States
<1>4. CASE Stutter
  BY <1>4, Steps DEF Stutter, competitionVars, contentVars, TypeOK, CompetitionTypeOK,
     ContentTypeOK
<1> QED  BY <1>1, <1>2, <1>3, <1>4, Steps

\* The entries of user_data, and what was shown and saved, have their types in
\* every order of registration (handlers/competition.py, handlers/content.py).
THEOREM TypeCorrect == Spec => []TypeOK
  BY TypeInit, TypeStep, PTL DEF Spec

-----------------------------------------------------------------------------
(***************************************************************************)
(* competition_state and competition_action.  StateFitsAction is inductive *)
(* under TypeOK.                                                           *)
(***************************************************************************)

LEMMA StateFitsStep ==
    ASSUME TypeOK, StateFitsAction, [Next]_vars
    PROVE  StateFitsAction'
<1> USE DEF StateFitsAction
<1>0. /\ action \in [Users -> Actions \cup {"none"}]
      /\ state \in [Users -> States]
  BY DEF TypeOK, CompetitionTypeOK
<1>1. ASSUME NEW u \in Users, CompetitionMenu(u) PROVE StateFitsAction'
  BY <1>0, <1>1 DEF CompetitionMenu, SetState
<1>2. ASSUME NEW u \in Users, NEW a \in Actions, RequestInput(u, a) PROVE StateFitsAction'
  BY <1>0, <1>2 DEF RequestInput, SetState, Awaits, Actions, Analyses
<1>3. ASSUME NEW u \in Users, NEW d, ProcessDomainInput(u, d) PROVE StateFitsAction'
  <2>1. CASE RejectText(u)
    BY <1>0, <2>1 DEF RejectText, SetState
  <2>2. CASE RejectAction(u)
    BY <1>0, <2>2 DEF RejectAction, SetState
  <2>3. CASE Analyse(u, d)
    BY <1>0, <2>3 DEF Analyse, SetState
  <2> QED  BY <1>3, <2>1, <2>2, <2>3 DEF ProcessDomainInput
<1>4. CASE Restart
  BY <1>4 DEF Restart, CompetitionRestart, Analyses
<1>5. CASE UNCHANGED <<action, state>>
  BY <1>5
<1> QED
  BY <1>1, <1>2, <1>3, <1>4, <1>5, Steps DEF CompetitionStep, ContentStep, Stutter,
     competitionVars, SendChart

\* A domain the handlers wait for is one the chosen action can use, and
\* PROCESSING is left behind only by an action that can use none
\* (process_domain_input sets it before it looks at the action).
THEOREM StateFits == Spec => []StateFitsAction
<1>1. Init => StateFitsAction
  BY DEF Init, CompetitionInit, StateFitsAction, Analyses
<1> QED  BY <1>1, StateFitsStep, TypeCorrect, PTL DEF Spec

-----------------------------------------------------------------------------
(***************************************************************************)
(* What can be reached.  Of the tools only readability is ever chosen; a   *)
(* text gets to the first feature that takes it, and a feature is          *)
(* registered once, so that nothing in front of it takes that text; and    *)
(* reports are never taken back, so that a chart keeps its summary.        *)
(***************************************************************************)

ToolChosen == \A u \in Users : tool[u] \in {"none", "readability"}

Reach == ToolChosen /\ OnlyReachable

LEMMA ContentIsFirst ==
    ASSUME TypeOK, NEW chat, GetsText("content", chat),
           NEW i \in 1..Len(order), NEW j \in 1..Len(order), order[j] = "content", i < j
    PROVE  ~TakesText(order[i], chat)
<1> SUFFICES ASSUME TakesText(order[i], chat) PROVE FALSE
  OBVIOUS
<1> DEFINE takers == {g \in Features : TakesText(g, chat)}
<1> DEFINE accepting == {k \in 1..Len(order) : order[k] \in takers}
<1>1. PICK k \in accepting : order[k] = "content" /\ IsFirst(k, accepting)
  BY DEF GetsText, Gets
<1>2. k = j
  BY <1>1, OrdersAssumption DEF TypeOK
<1>3. order[i] \in Features
  <2>1. Features = {MainOrder[n] : n \in 1..6}
    BY DEF Features, MainOrder
  <2>2. /\ MainOrder[1] = "admin" /\ MainOrder[2] = "content"
        /\ MainOrder[4] = "backlinks" /\ MainOrder[5] = "competition"
    BY DEF MainOrder
  <2>3. order[i] \in {"admin", "content", "backlinks", "competition"}
    BY DEF TakesText
  <2> QED  BY <2>1, <2>2, <2>3
<1>4. i \in accepting
  BY <1>3
<1>5. k <= i
  BY <1>1, <1>4 DEF IsFirst
<1> QED  BY <1>2, <1>5

LEMMA CompetitionIsPrivate ==
    ASSUME NEW f \in {"competition", "backlinks"}, NEW chat, GetsText(f, chat)
    PROVE  chat = "private"
  BY DEF GetsText, Gets, TakesText

LEMMA ReachCompetition ==
    ASSUME TypeOK, Reach, CompetitionStep, UNCHANGED order
    PROVE  Reach'
<1> USE DEF CompetitionStep, contentVars
<1>1. ToolChosen' /\ ToolsReached'
  BY DEF Reach, ToolChosen, OnlyReachable, ToolsReached
<1>2. PICK u \in Users :
          \/ CompetitionMenu(u)
          \/ \E a \in Actions : RequestInput(u, a)
          \/ \E d \in Domains : SendChart(u, d)
          \/ \E m \in Messages :
                /\ GetsText("competition", m.chat) \/ GetsText("backlinks", m.chat)
                /\ ProcessDomainInput(u, m.domain)
  OBVIOUS
<1>3. /\ reports \in [Users -> SUBSET Report]
      /\ history \in [Users -> SUBSET Report]
      /\ charts \in [Users -> SUBSET ChartTexts]
  BY DEF TypeOK, CompetitionTypeOK
<1>4. \A v \in Users : reports[v] \subseteq reports'[v]
  <2>1. ASSUME NEW d, Analyse(u, d) PROVE \A v \in Users : reports[v] \subseteq reports'[v]
    BY <1>3, <2>1 DEF Analyse, SaveReport
  <2> QED  BY <1>2, <2>1 DEF CompetitionMenu, RequestInput, SendChart,
              ProcessDomainInput, RejectText, RejectAction
<1>5. FeaturesReached'
  <2>1. UNCHANGED reports \/ GetsText("competition", "private") \/ GetsText("backlinks", "private")
    <3>1. ASSUME NEW m \in Messages,
                 GetsText("competition", m.chat) \/ GetsText("backlinks", m.chat)
          PROVE  GetsText("competition", "private") \/ GetsText("backlinks", "private")
      BY <3>1, CompetitionIsPrivate
    <3> QED  BY <1>2, <3>1 DEF CompetitionMenu, RequestInput, SendChart
  <2>2. \A f, chat : GetsText(f, chat)' = GetsText(f, chat)
    BY DEF GetsText, Gets
  <2> QED  BY <2>1, <2>2 DEF Reach, OnlyReachable, FeaturesReached
<1>6. ChartsReached'
  <2>1. CASE UNCHANGED charts
    BY <1>4, <2>1 DEF Reach, OnlyReachable, ChartsReached
  <2>2. ASSUME NEW d \in Domains, SendChart(u, d) PROVE ChartsReached'
    <3>1. SUFFICES ASSUME NEW v \in Users, NEW c \in charts'[v]
                   PROVE  \E r \in reports[v] :
                              r.choice = "analyze_competitors" /\ c = BeforeColon[r.input]
      BY <2>2 DEF ChartsReached, SendChart
    <3>2. CASE c \in charts[v]
      BY <3>2 DEF Reach, OnlyReachable, ChartsReached
    <3>3. CASE c \notin charts[v]
      BY <1>3, <2>2, <3>3 DEF SendChart, ChartDomain
    <3> QED  BY <3>2, <3>3
  <2> QED  BY <1>2, <2>1, <2>2 DEF CompetitionMenu, RequestInput, ProcessDomainInput,
              RejectText, RejectAction, Analyse
<1>7. HistoryReached'
  <2>1. ASSUME NEW d \in Domains, Analyse(u, d) PROVE HistoryReached'
    <3> DEFINE r == [choice |-> action[u], input |-> d]
    <3>1. CASE UNCHANGED <<reports, history>>
      BY <3>1 DEF Reach, OnlyReachable, HistoryReached, Readable
    <3>2. ASSUME Readable(r), SaveReport(u, r) PROVE HistoryReached'
      <4>1. reports' = [reports EXCEPT ![u] = @ \cup {r}]
        BY <3>2 DEF SaveReport
      <4>2. \/ UNCHANGED history
            \/ r.input \notin TooLong[r.choice] /\ history' = [history EXCEPT ![u] = @ \cup {r}]
        BY <3>2 DEF SaveReport
      <4> HIDE DEF r
      <4>3. \A v \in Users : \A q \in reports'[v] : q \in reports[v] \/ q = r
        BY <1>3, <4>1
      <4>4. \A v \in Users : \A q \in history'[v] :
                \/ q \in history[v]
                \/ q = r /\ v = u /\ r.input \notin TooLong[r.choice]
        BY <1>3, <4>2
      <4>5. r \in reports'[u]
        BY <1>3, <4>1
      <4>6. \A v \in Users : \A q \in reports'[v] : Readable(q)
        BY <3>2, <4>3 DEF Reach, OnlyReachable, HistoryReached
      <4>7. \A v \in Users : \A q \in history'[v] :
                q \in reports'[v] /\ q.input \notin TooLong[q.choice]
        BY <1>4, <4>4, <4>5 DEF Reach, OnlyReachable, HistoryReached
      <4> QED  BY <4>6, <4>7 DEF HistoryReached, Readable
    <3> QED  BY <2>1, <3>1, <3>2 DEF Analyse
  <2>2. CASE UNCHANGED <<reports, history>>
    BY <2>2 DEF Reach, OnlyReachable, HistoryReached, Readable
  <2> QED  BY <1>2, <2>1, <2>2 DEF CompetitionMenu, RequestInput, SendChart,
              ProcessDomainInput, RejectText, RejectAction
<1> QED  BY <1>1, <1>5, <1>6, <1>7 DEF Reach, OnlyReachable

LEMMA ReachContent ==
    ASSUME TypeOK, Reach, ContentStep, UNCHANGED order
    PROVE  Reach'
<1> USE DEF ContentStep, competitionVars
<1>1. ChartsReached' /\ HistoryReached'
  BY DEF Reach, OnlyReachable, ChartsReached, HistoryReached, Readable
<1>2. \A f, chat : GetsText(f, chat)' = GetsText(f, chat)
  BY DEF GetsText, Gets
<1>3. PICK u \in Users :
          \/ \E clicked \in Tools : ChooseTool(u, clicked)
          \/ \E m \in Messages : GetsText("content", m.chat) /\ ProcessContentInput(u, m)
  OBVIOUS
<1>4. /\ tool \in [Users -> Tools \cup {"none"}]
      /\ analyses \in [Users -> SUBSET Analysis]
  BY DEF TypeOK, ContentTypeOK
<1>5. ASSUME NEW clicked \in Tools, ChooseTool(u, clicked) PROVE Reach'
  <2>1. ToolChosen'
    BY <1>4, <1>5, PartIsReadability DEF ChooseTool, Reach, ToolChosen
  <2>2. ToolsReached' /\ FeaturesReached'
    BY <1>2, <1>5 DEF ChooseTool, Reach, OnlyReachable, ToolsReached, FeaturesReached
  <2> QED  BY <1>1, <2>1, <2>2 DEF Reach, OnlyReachable
<1>6. ASSUME NEW m \in Messages, GetsText("content", m.chat), ProcessContentInput(u, m)
      PROVE  Reach'
  <2>1. PICK outcome \in Outcomes :
            SendAnalysisResult(u, [choice |-> tool[u], input |-> <<m, outcome>>])
    BY <1>6 DEF ProcessContentInput
  <2>2. ToolChosen'
    BY <1>6 DEF ProcessContentInput, Reach, ToolChosen
  <2>3. \A v \in Users : \A r \in analyses'[v] :
            r \in analyses[v] \/ (r.choice = "readability" /\ r.input[1] = m)
    <3> DEFINE new == [choice |-> tool[u], input |-> <<m, outcome>>]
    <3>1. new.choice = "readability" /\ new.input[1] = m
      BY <1>6 DEF ProcessContentInput, Reach, ToolChosen
    <3>2. analyses' = [analyses EXCEPT ![u] = @ \cup {new}]
      BY <2>1 DEF SendAnalysisResult
    <3> HIDE DEF new
    <3> QED  BY <1>4, <3>1, <3>2
  <2>4. ToolsReached'
    BY <2>3 DEF Reach, OnlyReachable, ToolsReached
  <2>5. FeaturesReached'
    <3>1. ASSUME NEW v \in Users, NEW r \in analyses'[v],
                 NEW i \in 1..Len(order), NEW j \in 1..Len(order),
                 order[j] = "content", i < j
          PROVE  ~TakesText(order[i], r.input[1].chat)
      <4>1. CASE r \in analyses[v]
        BY <3>1, <4>1 DEF Reach, OnlyReachable, FeaturesReached
      <4>2. CASE r.input[1] = m
        BY <1>6, <3>1, <4>2, ContentIsFirst
      <4> QED  BY <2>3, <4>1, <4>2
    <3> QED  BY <1>2, <3>1 DEF FeaturesReached, Reach, OnlyReachable, TakesText
  <2> QED  BY <1>1, <2>2, <2>4, <2>5 DEF Reach, OnlyReachable
<1> QED  BY <1>3, <1>5, <1>6

\* What was reached does not depend on what waits in user_data.
LEMMA ReachKept ==
    ASSUME OnlyReachable, UNCHANGED <<order, reports, history, charts, analyses>>
    PROVE  OnlyReachable'
<1>1. ToolsReached' /\ ChartsReached'
  BY DEF OnlyReachable, ToolsReached, ChartsReached
<1>2. HistoryReached'
  BY DEF OnlyReachable, HistoryReached, Readable
<1>3. FeaturesReached'
  <2>1. \A f, chat : GetsText(f, chat)' = GetsText(f, chat)
    BY DEF GetsText, Gets
  <2> QED
    BY <2>1 DEF OnlyReachable, FeaturesReached, TakesText
<1> QED  BY <1>1, <1>2, <1>3 DEF OnlyReachable

LEMMA ReachStep == ASSUME TypeOK, Reach, [Next]_vars PROVE Reach'
<1>1. CASE Restart
  BY <1>1, Steps, ReachKept DEF Restart, CompetitionRestart, ContentRestart, Reach, ToolChosen
<1>2. CASE Stutter
  BY <1>2, Steps, ReachKept DEF Stutter, competitionVars, contentVars, Reach, ToolChosen
<1> QED  BY <1>1, <1>2, Steps, ReachCompetition, ReachContent

\* A result that reached a user came from a feature no other one hides, by a
\* tool that can be chosen; what is in the history was accepted with its buttons;
\* and a chart is of what the button of a seen summary kept of its domain
\* (bot/main.py, handlers/content.py, handlers/competition.py).
THEOREM Reachable == Spec => []OnlyReachable
<1>1. Init => Reach
  BY DEF Init, CompetitionInit, ContentInit, Reach, ToolChosen, OnlyReachable, ToolsReached,
     FeaturesReached, ChartsReached, HistoryReached
<1>2. Reach => OnlyReachable
  BY DEF Reach
<1> QED  BY <1>1, <1>2, ReachStep, TypeCorrect, PTL DEF Spec

-----------------------------------------------------------------------------
(***************************************************************************)
(* Bot implements Dialogue twice.  A request chooses, a finished analysis  *)
(* answers; menus, charts, rejected texts and failures are stutters.       *)
(***************************************************************************)

LEMMA CompetitionRefines ==
    ASSUME TypeOK, [Next]_vars
    PROVE  [CompetitionDialogue!Next]_(CompetitionDialogue!vars)
<1> USE DEF CompetitionDialogue!vars
<1>1. CASE UNCHANGED <<action, reports, history>>
  BY <1>1
<1>2. ASSUME NEW u \in Users, NEW a \in Actions, RequestInput(u, a)
      PROVE  CompetitionDialogue!Next
  BY <1>2 DEF RequestInput, CompetitionDialogue!Next, CompetitionDialogue!Choose
<1>3. ASSUME NEW u \in Users, NEW d \in Domains, Analyse(u, d)
      PROVE  CompetitionDialogue!Next \/ UNCHANGED <<action, reports, history>>
  <2> DEFINE r == [choice |-> action[u], input |-> d]
  <2>1. CASE UNCHANGED <<reports, history>>
    BY <1>3, <2>1 DEF Analyse
  <2>2. CASE SaveReport(u, r)
    <3>1. CompetitionDialogue!Answer(u, d)
      BY <1>3, <2>2 DEF Analyse, SaveReport, CompetitionDialogue!Answer, Analyses
    <3> QED  BY <3>1 DEF CompetitionDialogue!Next
  <2> QED  BY <1>3, <2>1, <2>2 DEF Analyse
<1>4. ASSUME CompetitionStep
      PROVE  CompetitionDialogue!Next \/ UNCHANGED <<action, reports, history>>
  BY <1>2, <1>3, <1>4 DEF CompetitionStep, CompetitionMenu, SendChart, ProcessDomainInput,
     RejectText, RejectAction
<1>5. CASE Restart
  BY <1>5 DEF Restart, CompetitionRestart, CompetitionDialogue!Next,
     CompetitionDialogue!Forget
<1> QED  BY <1>1, <1>4, <1>5, Steps DEF ContentStep, Stutter, competitionVars

LEMMA ContentRefines ==
    ASSUME TypeOK, [Next]_vars
    PROVE  [ContentDialogue!Next]_(ContentDialogue!vars)
<1> USE DEF ContentDialogue!vars
<1>1. CASE UNCHANGED <<tool, analyses, records>>
  BY <1>1
<1>2. ASSUME NEW u \in Users, NEW clicked \in Tools, ChooseTool(u, clicked)
      PROVE  ContentDialogue!Next
  BY <1>2 DEF ChooseTool, ContentDialogue!Next, ContentDialogue!Choose
<1>3. ASSUME NEW u \in Users, NEW m \in Messages, ProcessContentInput(u, m)
      PROVE  ContentDialogue!Next
  <2>1. PICK outcome \in Outcomes :
            SendAnalysisResult(u, [choice |-> tool[u], input |-> <<m, outcome>>])
    BY <1>3 DEF ProcessContentInput
  <2>2. ContentDialogue!Answer(u, <<m, outcome>>)
    BY <1>3, <2>1 DEF ProcessContentInput, SendAnalysisResult, ContentDialogue!Answer
  <2>3. <<m, outcome>> \in Messages \X Outcomes
    OBVIOUS
  <2> QED  BY <2>2, <2>3 DEF ContentDialogue!Next
<1>4. CASE Restart
  BY <1>4 DEF Restart, ContentRestart, ContentDialogue!Next, ContentDialogue!Forget
<1> QED  BY <1>1, <1>2, <1>3, <1>4, Steps DEF CompetitionStep, ContentStep, Stutter, contentVars

\* Both features keep to Dialogue in every order of registration and through
\* every restart: a result is of the analysis chosen last, and what is saved was
\* shown (_save_to_history, send_analysis_result).
THEOREM KeepsBoth == Spec => KeepsDialogues
<1>1. Init => CompetitionDialogue!Init /\ ContentDialogue!Init
  BY DEF Init, CompetitionInit, ContentInit, CompetitionDialogue!Init, ContentDialogue!Init
<1>2. TypeOK /\ [Next]_vars => [CompetitionDialogue!Next]_(CompetitionDialogue!vars)
  BY CompetitionRefines
<1>3. TypeOK /\ [Next]_vars => [ContentDialogue!Next]_(ContentDialogue!vars)
  BY ContentRefines
<1> QED
  BY <1>1, <1>2, <1>3, TypeCorrect, PTL
  DEF Spec, KeepsDialogues, CompetitionDialogue!Spec, ContentDialogue!Spec
=============================================================================
