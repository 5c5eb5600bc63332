------------------------- MODULE MCAdminBroadcast -------------------------
(* Two admins and two texts, so that a text can reach the wrong prompt; two  *)
(* prompts, so that one admin can hold both or each admin one; two jobs, so  *)
(* that they can overlap; one user, each send being delivered or not.        *)
EXTENDS AdminBroadcast

CONSTANTS a1, a2, u1, hello, bye
============================================================================
