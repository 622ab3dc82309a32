------------------------------- MODULE Monitor -------------------------------
(***************************************************************************)
(* The monitor of kern/sync/monitor.c: a mutex, condition variables that   *)
(* are semaphores with a count of waiters, and the semaphore `next' on     *)
(* which a signaller waits until the thread it woke leaves the monitor or  *)
(* waits again.  An operation is given as its steps, each with at most one *)
(* semaphore operation.                                                    *)
(***************************************************************************)
EXTENDS Naturals, SequencesExt

CONSTANTS Threads, CondVars, Mutex, NextSem

VARIABLES
    value, queue, blocked,   \* the semaphores Mutex, NextSem and cv[c].sem
    count,                   \* cv[c].count
    next_count               \* mtp->next_count

INSTANCE Semaphore WITH Sems <- CondVars \cup {Mutex, NextSem}

MonitorTypeOK ==
    /\ SemTypeOK
    /\ count \in [CondVars -> Nat]
    /\ next_count \in Nat

monitor_init ==
    /\ sem_init([s \in CondVars \cup {Mutex, NextSem} |-> IF s = Mutex THEN 1 ELSE 0])
    /\ count = [c \in CondVars |-> 0]
    /\ next_count = 0

(* The monitor goes to a signaller that waits in next, before any thread that
   waits for the mutex. *)
Successor_bug == Mutex
Successor == IF next_count > 0 THEN NextSem ELSE Mutex

monitor_enter(t) == down(t, Mutex) /\ UNCHANGED <<count, next_count>>

monitor_leave == up(Successor) /\ UNCHANGED <<count, next_count>>

(* cond_wait of t on c: release the monitor, wait, and return. *)
cond_wait_release(c) ==
    /\ count' = [count EXCEPT ![c] = @ + 1]
    /\ up(Successor)
    /\ UNCHANGED next_count

cond_wait_block(t, c) == down(t, c) /\ UNCHANGED <<count, next_count>>

cond_wait_return_bug(c) == UNCHANGED <<value, queue, blocked, count, next_count>>
cond_wait_return(c) ==
    /\ count' = [count EXCEPT ![c] = @ - 1]
    /\ UNCHANGED <<value, queue, blocked, next_count>>

(* cond_signal of c by t: wake a waiter, give it the monitor, and return. *)
cond_signal_wake(c) ==
    /\ next_count' = next_count + 1
    /\ up(c)
    /\ UNCHANGED count

cond_signal_block_bug(t) == UNCHANGED <<value, queue, blocked, count, next_count>>
cond_signal_block(t) == down(t, NextSem) /\ UNCHANGED <<count, next_count>>

cond_signal_return ==
    /\ next_count' = next_count - 1
    /\ UNCHANGED <<value, queue, blocked, count>>
=============================================================================
