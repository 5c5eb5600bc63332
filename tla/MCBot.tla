------------------------------- MODULE MCBot -------------------------------
(* Two users; a page and another one whose name goes on with a colon, a URL *)
(* (which scheme it begins with makes no difference to a button), and a     *)
(* domain too long for any button; a text with too few words and one with   *)
(* enough for readability.                                                  *)
EXTENDS Bot, TLC

CONSTANTS u1, u2, page, colon, url, long, https

MCDomains == {page, colon, url, long}

MCBeforeColon ==
    [d \in MCDomains |-> CASE d = url -> https [] d = colon -> page [] OTHER -> d]

\* "download_comp_report:" leaves 43 bytes, "comp_details:" 51.
MCTooLong == [analyze_competitors |-> {long}, full_report |-> {url, long}]

MCMessages ==
    {[domain |-> d, words |-> 1, chat |-> "private"] : d \in MCDomains} \cup
    {[domain |-> NoDomain, words |-> 60, chat |-> "private"]} \cup
    {[domain |-> NoDomain, words |-> 120, chat |-> c] : c \in Chats}

\* main.py; the same without the admin handlers; each analysis in front.
MCOrders ==
    {MainOrder, Tail(MainOrder), <<"backlinks", "competition">>,
     <<"competition", "content">>}

\* Sound here: no initial state, step or property singles out a user, and
\* KeepsDialogues is checked step by step.
MCSymmetry == Permutations(Users)
=============================================================================
