------------------------------ MODULE EventGroup ------------------------------
(***************************************************************************)
(* The pthread event group of event_groups.c.                              *)
(*                                                                         *)
(* The group is a bit set guarded by one mutex, with one condition         *)
(* variable per bit.  Waiter threads call xEventGroupWaitBits on a single  *)
(* bit.  If the bit is already set, the call returns at once.  Otherwise   *)
(* it does ONE pthread_cond_timedwait on that bit's condition variable,    *)
(* with no loop re-testing the predicate, and then returns whatever the    *)
(* bits are, clearing its bit if clearOnExit.  A setter thread calls       *)
(* xEventGroupSetBits, which sets the bits and pthread_cond_signals each   *)
(* bit's condition variable once, and xEventGroupClearBits.  Every call    *)
(* runs under the mutex, so each is one step here.  A waiter that has been *)
(* signalled or has timed out must take the mutex again before it reads   *)
(* the bits; other calls may run in between.                               *)
(***************************************************************************)
EXTENDS Naturals, FiniteSets

CONSTANTS
  Waiters,    \* threads that call xEventGroupWaitBits
  Bits,       \* bit indices in use (the code has 8 condition variables)
  WaitTimed,  \* TRUE: xTicksToWait is finite, so the timed wait can expire
  MaxCalls,   \* wait calls per waiter thread
  MaxOps,     \* set/clear calls of the setter thread
  NoW         \* "no waiter"

ASSUME /\ Bits \subseteq 0..7 /\ Bits # {}
       /\ WaitTimed \in BOOLEAN
       /\ MaxCalls \in Nat /\ MaxOps \in Nat

VARIABLES
  bits,       \* uxEventBits
  alive,      \* the group has not been deleted
  pc,         \* per waiter: "idle", "blocked" in the timed wait, "woken"
  arg,        \* per waiter: the bit and clearOnExit of the call in progress
  ret,        \* per waiter: the value the last call returned
  calls,      \* per waiter: wait calls made
  ops,        \* set and clear calls made by the setter
  raised,     \* ghost, per bit: SetBits calls that found the bit clear
  consumed    \* ghost, per bit: clearOnExit returns that found the bit set

vars == <<bits, alive, pc, arg, ret, calls, ops, raised, consumed>>

NoArg == [bit |-> CHOOSE b \in Bits : TRUE, clr |-> FALSE]

TypeOK ==
  /\ bits \subseteq Bits
  /\ alive \in BOOLEAN
  /\ pc \in [Waiters -> {"idle", "blocked", "woken"}]
  /\ arg \in [Waiters -> [bit : Bits, clr : BOOLEAN]]
  /\ ret \in [Waiters -> SUBSET Bits]
  /\ calls \in [Waiters -> 0..MaxCalls]
  /\ ops \in 0..MaxOps
  /\ raised \in [Bits -> 0..MaxOps]
  /\ consumed \in [Bits -> Nat]

\* Threads blocked in pthread_cond_timedwait on bit b's condition variable.
Sleepers(b) == {w \in Waiters : pc[w] = "blocked" /\ arg[w].bit = b}

-----------------------------------------------------------------------------
\* Fault: the clear of the wait bit is left out of the return path.
ExitWaitNoClear(w, b, clr) ==
  /\ ret' = [ret EXCEPT ![w] = bits]
  /\ UNCHANGED bits
  /\ consumed' = IF clr /\ b \in bits THEN [consumed EXCEPT ![b] = @ + 1]
                                      ELSE consumed
  /\ calls' = [calls EXCEPT ![w] = @ + 1]
  /\ pc' = [pc EXCEPT ![w] = "idle"]

\* Fault: uxReturn is read after the clear on exit.
ExitWaitReturnsAfterClear(w, b, clr) ==
  /\ bits' = IF clr THEN bits \ {b} ELSE bits
  /\ ret' = [ret EXCEPT ![w] = bits']
  /\ consumed' = IF clr /\ b \in bits THEN [consumed EXCEPT ![b] = @ + 1]
                                      ELSE consumed
  /\ calls' = [calls EXCEPT ![w] = @ + 1]
  /\ pc' = [pc EXCEPT ![w] = "idle"]

(* The tail of xEventGroupWaitBits, shared by both branches: uxReturn is   *)
(* the bits before the clear, then the waited bit is cleared if            *)
(* clearOnExit, whether or not it was set.                                 *)
ExitWait(w, b, clr) ==
  /\ ret' = [ret EXCEPT ![w] = bits]
  /\ bits' = IF clr THEN bits \ {b} ELSE bits
  /\ consumed' = IF clr /\ b \in bits THEN [consumed EXCEPT ![b] = @ + 1]
                                      ELSE consumed
  /\ calls' = [calls EXCEPT ![w] = @ + 1]
  /\ pc' = [pc EXCEPT ![w] = "idle"]

(* xEventGroupWaitBits(group, 1 << b, clr, -, ticks): prvTestWaitCondition *)
(* under the mutex; met: return at once; not met: pthread_cond_timedwait   *)
(* on eventGroupCond[b], which releases the mutex.                         *)
WaitBits(w, b, clr) ==
  /\ alive
  /\ pc[w] = "idle"
  /\ calls[w] < MaxCalls
  /\ IF b \in bits
       THEN /\ ExitWait(w, b, clr)
            /\ UNCHANGED arg
       ELSE /\ pc' = [pc EXCEPT ![w] = "blocked"]
            /\ arg' = [arg EXCEPT ![w] = [bit |-> b, clr |-> clr]]
            /\ UNCHANGED <<bits, ret, calls, consumed>>
  /\ UNCHANGED <<alive, ops, raised>>

\* The timed wait reaches its deadline (ts.tv_sec + xTicksToWait).
Timeout(w) ==
  /\ pc[w] = "blocked"
  /\ WaitTimed
  /\ pc' = [pc EXCEPT ![w] = "woken"]
  /\ UNCHANGED <<bits, alive, arg, ret, calls, ops, raised, consumed>>

\* The woken waiter takes the mutex back and runs the rest of the call
\* without re-testing the condition.
WaitReturn(w) ==
  /\ pc[w] = "woken"
  /\ ExitWait(w, arg[w].bit, arg[w].clr)
  /\ UNCHANGED <<alive, arg, ops, raised>>

\* Fault: the bits are set one position too high (1 << (i + 1)).
SetBitsShifted(S) ==
  /\ alive
  /\ ops < MaxOps
  /\ bits' = bits \cup {b + 1 : b \in S}
  /\ raised' = raised
  /\ ops' = ops + 1
  /\ UNCHANGED <<alive, pc, arg, ret, calls, consumed>>

(* xEventGroupSetBits(group, S): uxEventBits |= S, then for each bit of S  *)
(* pthread_cond_signal, which wakes at most one thread blocked on it.      *)
SetBits(S) ==
  /\ alive
  /\ ops < MaxOps
  /\ bits' = bits \cup S
  /\ raised' = [b \in Bits |-> IF b \in S \ bits THEN raised[b] + 1
                                                ELSE raised[b]]
  /\ \E pick \in [S -> Waiters \cup {NoW}] :
       /\ \A b \in S : IF Sleepers(b) = {} THEN pick[b] = NoW
                                           ELSE pick[b] \in Sleepers(b)
       /\ pc' = [w \in Waiters |-> IF \E b \in S : pick[b] = w THEN "woken"
                                                               ELSE pc[w]]
  /\ ops' = ops + 1
  /\ UNCHANGED <<alive, arg, ret, calls, consumed>>

\* xEventGroupClearBits(group, S): uxEventBits &= ~S; no one is signalled.
ClearBits(S) ==
  /\ alive
  /\ ops < MaxOps
  /\ bits' = bits \ S
  /\ ops' = ops + 1
  /\ UNCHANGED <<alive, pc, arg, ret, calls, raised, consumed>>

(* vEventGroupDelete: destroys the condition variables and the mutex.      *)
(* Destroying a condition variable a thread is blocked on is undefined,    *)
(* so a correct caller deletes only when no thread is inside a wait.       *)
Delete ==
  /\ alive
  /\ \A w \in Waiters : pc[w] = "idle"
  /\ alive' = FALSE
  /\ UNCHANGED <<bits, pc, arg, ret, calls, ops, raised, consumed>>

-----------------------------------------------------------------------------
\* xEventGroupCreate: uxEventBits = 0.
Init ==
  /\ bits = {}
  /\ alive = TRUE
  /\ pc = [w \in Waiters |-> "idle"]
  /\ arg = [w \in Waiters |-> NoArg]
  /\ ret = [w \in Waiters |-> {}]
  /\ calls = [w \in Waiters |-> 0]
  /\ ops = 0
  /\ raised = [b \in Bits |-> 0]
  /\ consumed = [b \in Bits |-> 0]

\* No call is in progress and none can start: the threads have returned.
Terminated ==
  /\ \A w \in Waiters : pc[w] = "idle"
  /\ ~alive \/ (ops = MaxOps /\ \A w \in Waiters : calls[w] = MaxCalls)
  /\ UNCHANGED vars

NonEmpty(S) == S # {}

Next ==
  \/ \E w \in Waiters, b \in Bits, clr \in BOOLEAN : WaitBits(w, b, clr)
  \/ \E w \in Waiters : Timeout(w) \/ WaitReturn(w)
  \/ \E S \in SUBSET Bits : NonEmpty(S) /\ (SetBits(S) \/ ClearBits(S))
  \/ Delete
  \/ Terminated

(* A thread holding the mutex releases it, so a woken waiter gets it back; *)
(* the realtime clock advances, so a finite deadline passes.               *)
Fairness == \A w \in Waiters : WF_vars(WaitReturn(w)) /\ WF_vars(Timeout(w))

Spec == Init /\ [][Next]_vars /\ Fairness

-----------------------------------------------------------------------------
(* Properties.                                                             *)

(* A bit set once is taken by at most one clearOnExit waiter: every        *)
(* xEventGroupWaitBits with clearOnExit that returns with its bit set      *)
(* clears it under the same mutex hold, in both the immediate and the      *)
(* woken branch.                                                           *)
ConsumeOnce == \A b \in Bits : consumed[b] <= raised[b]

(* A waiter blocked on a bit that is set does not stay blocked: it is      *)
(* signalled by xEventGroupSetBits or its timed wait expires.              *)
BlockedWaiterReturns ==
  \A w \in Waiters :
    (pc[w] = "blocked" /\ arg[w].bit \in bits) ~> (pc[w] # "blocked")


(* The group implements what event_groups.h documents (EventGroupContract),*)
(* a thread signalled or timed out but not yet back in the mutex still    *)
(* counting as blocked: every wait returns with its bit set (clearing it  *)
(* on exit) or, for a finite wait, without it; and a waiter blocked on a   *)
(* bit that stays set returns.                                             *)
Contract == INSTANCE EventGroupContract
              WITH pc <- [w \in Waiters |-> IF pc[w] = "idle" THEN "idle"
                                                            ELSE "blocked"]
ContractSpec == Contract!Spec
=============================================================================
