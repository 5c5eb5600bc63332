---------------------------- MODULE MCAIService ----------------------------
(* Two providers: one that can answer in every way a callable given to the  *)
(* constructor can, and a stub that always fails at once, as _call_anthropic *)
(* and _call_google_ai do.  The preference lists make the walk interesting: *)
(* default order, the same provider twice, a name that is no key.           *)
EXTENDS AIService

CONSTANTS c1, c2, c3, first, stub, other

MCOrders == {<<first, stub>>, <<first, first>>, <<first, other>>}

MCReplies == [p \in Providers |->
    IF p = first THEN ReplyKinds ELSE {"fatal"}]

(* The default providers in their default order: _call_openai returns a dict *)
(* with a truthy "analysis", or raises.                                     *)
DefaultOrders == {<<first, stub>>}

DefaultReplies == [p \in Providers |->
    IF p = first THEN {"good", "transient", "fatal"} ELSE {"fatal"}]
============================================================================
