-------------------------- MODULE EventGroupContract --------------------------
(***************************************************************************)
(* What event_groups.h documents of an event group, for waits on a single *)
(* bit (the only waits event_groups.c accepts):                           *)
(*   - a wait whose bit is set returns at once; otherwise it blocks;       *)
(*   - a blocked wait returns when its bit becomes set ("setting bits ... *)
(*     will automatically unblock tasks that are blocked waiting"), with  *)
(*     the value before its clear on exit, or, if it has a finite block   *)
(*     time, when that expires, with its bit not set and nothing cleared; *)
(*   - set and clear change the bits;                                      *)
(*   - delete unblocks the blocked tasks, which obtain 0.                  *)
(* There are no condition variables, signals or mutex here.               *)
(***************************************************************************)
EXTENDS Naturals

CONSTANTS Waiters, Bits, WaitTimed

VARIABLES
  bits,    \* the event group value
  alive,   \* the group has not been deleted
  pc,      \* per waiter: "idle" or "blocked" in xEventGroupWaitBits
  arg,     \* per waiter: the bit and xClearOnExit of its call
  ret      \* per waiter: the value its last call returned

gvars == <<bits, alive, pc, arg, ret>>

NoArg == [bit |-> CHOOSE b \in Bits : TRUE, clr |-> FALSE]

\* xEventGroupCreate: a new group, all bits clear.
Init ==
  /\ bits = {} /\ alive = TRUE
  /\ pc = [w \in Waiters |-> "idle"]
  /\ arg = [w \in Waiters |-> NoArg]
  /\ ret = [w \in Waiters |-> {}]

\* Return with the wait condition met: the value, then the clear on exit.
Satisfied(w, b, clr) ==
  /\ ret' = [ret EXCEPT ![w] = bits]
  /\ bits' = IF clr THEN bits \ {b} ELSE bits
  /\ pc' = [pc EXCEPT ![w] = "idle"]

\* xEventGroupWaitBits on bit b: met at once, or block.
Wait(w, b, clr) ==
  /\ alive /\ pc[w] = "idle"
  /\ IF b \in bits
       THEN Satisfied(w, b, clr) /\ UNCHANGED arg
       ELSE /\ pc' = [pc EXCEPT ![w] = "blocked"]
            /\ arg' = [arg EXCEPT ![w] = [bit |-> b, clr |-> clr]]
            /\ UNCHANGED <<bits, ret>>
  /\ UNCHANGED alive

\* A blocked wait whose bit is set leaves the blocked state.
Met(w) ==
  /\ pc[w] = "blocked" /\ arg[w].bit \in bits
  /\ Satisfied(w, arg[w].bit, arg[w].clr)
  /\ UNCHANGED <<alive, arg>>

\* The block time of a finite wait expires with the bit not set.
Expire(w) ==
  /\ WaitTimed
  /\ pc[w] = "blocked" /\ arg[w].bit \notin bits
  /\ ret' = [ret EXCEPT ![w] = bits]
  /\ pc' = [pc EXCEPT ![w] = "idle"]
  /\ UNCHANGED <<bits, alive, arg>>

\* xEventGroupSetBits and xEventGroupClearBits.
Set(S) == alive /\ bits' = bits \cup S /\ UNCHANGED <<alive, pc, arg, ret>>
Clear(S) == alive /\ bits' = bits \ S /\ UNCHANGED <<alive, pc, arg, ret>>

\* vEventGroupDelete: blocked tasks are unblocked and obtain 0.
Delete ==
  /\ alive
  /\ alive' = FALSE
  /\ pc' = [w \in Waiters |-> "idle"]
  /\ ret' = [w \in Waiters |-> IF pc[w] = "blocked" THEN {} ELSE ret[w]]
  /\ UNCHANGED <<bits, arg>>

Next ==
  \/ \E w \in Waiters : Met(w) \/ Expire(w) \/ \E b \in Bits, c \in BOOLEAN : Wait(w, b, c)
  \/ \E S \in SUBSET Bits : Set(S) \/ Clear(S)
  \/ Delete

\* A blocked wait whose bit stays set does return.
Spec == Init /\ [][Next]_gvars /\ \A w \in Waiters : WF_gvars(Met(w))
====
