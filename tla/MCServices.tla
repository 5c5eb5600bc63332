---------------------------- MODULE MCServices ----------------------------
(* The cache and the CMS client share no state: a behaviour takes the      *)
(* steps of one of them, chosen at the start, while the other stays in an  *)
(* initial state.  What holds of these holds of every interleaving of the  *)
(* two.                                                                    *)
EXTENDS Cache, CMSClient, TLC

CONSTANTS c1, c2, a1, a2, k1, k2, post, get

\* Two calls with a key each, and two that the cache cannot tell apart.
MCKeyMaps == {(a1 :> k1) @@ (a2 :> k2), (a1 :> k1) @@ (a2 :> k1)}

VARIABLE focus

vars == <<focus, cacheVars, cmsVars>>

\* One initial state of the component that takes no steps is enough.
Init ==
    /\ focus \in {"cache", "cms"}
    /\ CacheInit
    /\ CMSInit
    /\ focus = "cache" => ~moved
    /\ focus = "cms" => configured /\ keyOf[a1] # keyOf[a2] /\ call = [c \in Callers |-> a1]

Next ==
    /\ UNCHANGED focus
    /\ \/ focus = "cache" /\ CacheNext /\ UNCHANGED cmsVars
       \/ focus = "cms" /\ CMSNext /\ UNCHANGED cacheVars

\* Redis drops a value when its time to live is over; every request of httpx
\* ends in an answer or in a timeout, and asyncio.sleep ends.
Fairness ==
    /\ \A k \in Keys : WF_vars(focus = "cache" /\ Expire(k) /\ UNCHANGED <<focus, cmsVars>>)
    /\ \A r \in Requests :
          WF_vars(focus = "cms" /\ Continue(r) /\ UNCHANGED <<focus, cacheVars>>)

Spec == Init /\ [][Next]_vars /\ Fairness
=============================================================================
