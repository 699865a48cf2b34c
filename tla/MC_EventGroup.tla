---------------------------- MODULE MC_EventGroup ----------------------------
(* Model-checking instance of EventGroup: two waiter threads that may wait *)
(* on the same bit or on different bits, and one setter thread.            *)
EXTENDS EventGroup

MC_Bits == {0, 1}
=============================================================================
