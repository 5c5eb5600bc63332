---------------------------- MODULE MCTaskQueue ----------------------------
(* Two consumers and three tasks: one that returns or raises, one that can  *)
(* also raise StopIteration or exit, one plain.  Three tasks on two         *)
(* consumers leave one queued when the queue is shut down.                  *)
EXTENDS TaskQueue

CONSTANTS w1, w2, t1, t2, t3

MCEnds == [t \in Tasks |->
    CASE t = t1 -> {"value", "error"}
      [] t = t2 -> EndKinds
      [] OTHER -> {"value"}]

PlainEnds == [t \in Tasks |-> {"value", "error"}]
============================================================================
