----------------------------- MODULE MCDatabase -----------------------------
(* Two sessions and two keys: the sessions can insert the keys in opposite   *)
(* orders, and two calls per session let one get_or_create commit what was   *)
(* added before it.  Two connections, and a session on another table that    *)
(* can hold one of them, so that the pool can be empty.                      *)
EXTENDS Database

CONSTANTS s1, s2, o1, k1, k2
============================================================================
