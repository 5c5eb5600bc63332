------------------------------ MODULE Dialogue ------------------------------
(***************************************************************************)
(* What a menu of analyses promises, whichever feature offers it: the user *)
(* chooses an analysis, and every text sent from then on may be answered   *)
(* with a result of that analysis.  A result is saved when it is shown or  *)
(* not at all.  A restart of the bot forgets the choices and nothing else. *)
(***************************************************************************)
CONSTANTS Users, Choices, Inputs, NoChoice

VARIABLES
    choice,   \* the analysis each user has chosen
    shown,    \* the results each user has seen
    saved     \* the results saved for each user

vars == <<choice, shown, saved>>

Init ==
    /\ choice = [u \in Users |-> NoChoice]
    /\ shown = [u \in Users |-> {}]
    /\ saved = [u \in Users |-> {}]

Choose(u, c) ==
    /\ choice' = [choice EXCEPT ![u] = c]
    /\ UNCHANGED <<shown, saved>>

Answer(u, input) ==
    LET result == [choice |-> choice[u], input |-> input] IN
    /\ choice[u] # NoChoice
    /\ shown' = [shown EXCEPT ![u] = @ \cup {result}]
    /\ saved' \in {saved, [saved EXCEPT ![u] = @ \cup {result}]}
    /\ UNCHANGED choice

Forget ==
    /\ choice' = [u \in Users |-> NoChoice]
    /\ UNCHANGED <<shown, saved>>

Next ==
    \/ \E u \in Users, c \in Choices : Choose(u, c)
    \/ \E u \in Users, input \in Inputs : Answer(u, input)
    \/ Forget

Spec == Init /\ [][Next]_vars
=============================================================================
