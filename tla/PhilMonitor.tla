----------------------------- MODULE PhilMonitor -----------------------------
(***************************************************************************)
(* The dining philosophers of kern/sync/check_sync.c with a monitor:       *)
(* philosopher i waits on the condition variable i.  As in PhilSema any    *)
(* philosopher that is not blocked may take the next step.                 *)
(***************************************************************************)
EXTENDS Integers, FiniteSets, SequencesExt

CONSTANTS N, TIMES, Mutex, NextSem

ASSUME PhilAssumption ==
    /\ N \in Nat /\ N >= 3 /\ TIMES \in Nat
    /\ Mutex # NextSem /\ {Mutex, NextSem} \cap (0..(N - 1)) = {}

Phils == 0..(N - 1)

LEFT(i) == (i - 1 + N) % N
RIGHT(i) == (i + 1) % N

VARIABLES
    value, queue, blocked, count, next_count,   \* the monitor
    state_condvar,                              \* THINKING, HUNGRY or EATING
    call,      \* the call of phi_test_condvar: for itself, LEFT or RIGHT
    pc, iter

INSTANCE Monitor WITH Threads <- Phils, CondVars <- Phils

monitor == <<value, queue, blocked, count, next_count>>
vars == <<value, queue, blocked, count, next_count, state_condvar, call, pc, iter>>

Points == {"loop", "take", "hungry", "test", "grant", "wake", "signalling", "signalled",
           "check", "waiting", "woken", "leave", "eat", "put", "quit"}

TypeOK ==
    /\ MonitorTypeOK
    /\ \A s \in DOMAIN value : value[s] <= 1     \* all used as binary ones
    /\ \A i \in Phils : count[i] <= 1           \* only philosopher i waits on i
    /\ state_condvar \in [Phils -> {"THINKING", "HUNGRY", "EATING"}]
    /\ call \in [Phils -> {"self", "LEFT", "RIGHT"}]
    /\ pc \in [Phils -> Points]
    /\ iter \in [Phils -> 0..TIMES]

Init ==
    /\ monitor_init
    /\ state_condvar = [i \in Phils |-> "THINKING"]
    /\ call = [i \in Phils |-> "self"]
    /\ pc = [i \in Phils |-> "loop"]
    /\ iter = [i \in Phils |-> 0]

From(i, here, there) ==
    pc[i] = here /\ ~blocked[i] /\ pc' = [pc EXCEPT ![i] = there]

(* A step inside the monitor's operations. *)
Step(i, here, there) == From(i, here, there) /\ UNCHANGED <<state_condvar, call, iter>>

-----------------------------------------------------------------------------
(* philosopher_using_condvar: the loop; do_sleep takes any time. *)
loop(i) ==
    /\ \/ iter[i] < TIMES /\ From(i, "loop", "take") /\ iter' = [iter EXCEPT ![i] = @ + 1]
       \/ iter[i] = TIMES /\ From(i, "loop", "quit") /\ UNCHANGED iter
    /\ UNCHANGED <<monitor, state_condvar, call>>

(* phi_test_condvar(j), with cond_signal *)
Tested(i) == CASE call[i] = "self" -> i
               [] call[i] = "LEFT" -> LEFT(i)
               [] call[i] = "RIGHT" -> RIGHT(i)

MayEat_bug(j) == state_condvar[j] = "HUNGRY" /\ state_condvar[LEFT(j)] # "EATING"
MayEat(j) ==
    /\ state_condvar[j] = "HUNGRY"
    /\ state_condvar[LEFT(j)] # "EATING" /\ state_condvar[RIGHT(j)] # "EATING"

(* The call returns: to the test for HUNGRY, to the call for RIGHT, or to the end. *)
Return(i, here) ==
    /\ From(i, here, CASE call[i] = "self" -> "check"
                       [] call[i] = "LEFT" -> "test"
                       [] call[i] = "RIGHT" -> "leave")
    /\ call' = [call EXCEPT ![i] = IF @ = "LEFT" THEN "RIGHT" ELSE @]
    /\ UNCHANGED <<state_condvar, iter>>

phi_test_condvar(i) ==
    LET j == Tested(i)
    IN \/ MayEat(j) /\ Step(i, "test", "grant") /\ UNCHANGED monitor
       \/ ~MayEat(j) /\ Return(i, "test") /\ UNCHANGED monitor
       \/ /\ From(i, "grant", "wake")
          /\ state_condvar' = [state_condvar EXCEPT ![j] = "EATING"]
          /\ UNCHANGED <<monitor, call, iter>>
       \/ count[j] = 0 /\ Return(i, "wake") /\ UNCHANGED monitor
       \/ count[j] > 0 /\ Step(i, "wake", "signalling") /\ cond_signal_wake(j)
       \/ Step(i, "signalling", "signalled") /\ cond_signal_block(i)
       \/ Return(i, "signalled") /\ cond_signal_return

phi_take_forks_condvar(i) ==
    \/ Step(i, "take", "hungry") /\ monitor_enter(i)
    \/ /\ From(i, "hungry", "test")
       /\ state_condvar' = [state_condvar EXCEPT ![i] = "HUNGRY"]
       /\ call' = [call EXCEPT ![i] = "self"]
       /\ UNCHANGED <<monitor, iter>>
    \/ state_condvar[i] # "HUNGRY" /\ Step(i, "check", "leave") /\ UNCHANGED monitor
    \/ state_condvar[i] = "HUNGRY" /\ Step(i, "check", "waiting") /\ cond_wait_release(i)
    \/ Step(i, "waiting", "woken") /\ cond_wait_block(i, i)
    \/ Step(i, "woken", "leave") /\ cond_wait_return(i)
    \/ call[i] = "self" /\ Step(i, "leave", "eat") /\ monitor_leave

phi_put_forks_condvar(i) ==
    \/ Step(i, "eat", "put") /\ monitor_enter(i)
    \/ /\ From(i, "put", "test")
       /\ state_condvar' = [state_condvar EXCEPT ![i] = "THINKING"]
       /\ call' = [call EXCEPT ![i] = "LEFT"]
       /\ UNCHANGED <<monitor, iter>>
    \/ call[i] = "RIGHT" /\ Step(i, "leave", "loop") /\ monitor_leave

philosopher(i) ==
    \/ loop(i)
    \/ phi_test_condvar(i)
    \/ phi_take_forks_condvar(i)
    \/ phi_put_forks_condvar(i)

all_quit == (\A i \in Phils : pc[i] = "quit") /\ UNCHANGED vars

Next == (\E i \in Phils : philosopher(i)) \/ all_quit

(* Every thread that can run is scheduled again: NoStarvation of module Process. *)
Fairness == \A i \in Phils : WF_vars(philosopher(i))

Spec == Init /\ [][Next]_vars
FairSpec == Spec /\ Fairness

-----------------------------------------------------------------------------
(* The philosopher has both forks: it has left phi_take_forks_condvar and its
   state is not THINKING again. *)
Eating(i) == pc[i] \in {"eat", "put"}

(* Neighbours never eat at the same time. *)
NeighboursExclude == \A i \in Phils : ~(Eating(i) /\ Eating(RIGHT(i)))

(* The philosopher runs inside the monitor: it has entered, and neither waits nor
   has handed the monitor to another one. *)
InMonitor(i) ==
    /\ pc[i] \in {"hungry", "test", "grant", "wake", "signalled", "check", "woken", "leave", "put"}
    /\ ~blocked[i]

(* At most one philosopher is active inside the monitor, and when the mutex is
   free there is none and no signaller waits: a signal hands the monitor over to
   the waiter and back, without letting a third thread in. *)
OneInMonitor ==
    /\ Cardinality({i \in Phils : InMonitor(i)}) <= 1
    /\ value[Mutex] = 1 => next_count = 0 /\ \A i \in Phils : ~InMonitor(i)

(* phi_take_forks_condvar tests for HUNGRY once, with `if', and not again after
   cond_wait: a philosopher that returns from cond_wait has been given the forks.
   The grant comes before the signal, and only the philosopher itself takes its
   EATING back; a wakeup without a grant would break it. *)
SignalledMayEat ==
    \A i \in Phils : pc[i] = "woken" /\ ~blocked[i] => state_condvar[i] = "EATING"

(* All philosophers eat TIMES times and quit. *)
AllQuit == <>(\A i \in Phils : pc[i] = "quit")
=============================================================================
