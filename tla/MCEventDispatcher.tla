------------------------- MODULE MCEventDispatcher -------------------------
(* Three events of two types: one type can have two subscribers, so that a  *)
(* callback may subscribe during a delivery, the queue can hold two events  *)
(* behind the one being delivered, and an event may have no subscriber.     *)
EXTENDS EventDispatcher

CONSTANTS e1, e2, e3, activity, complete, cb1, cb2

MCTypeOf == [e \in Events |-> IF e = e2 THEN complete ELSE activity]
============================================================================
