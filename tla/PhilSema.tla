------------------------------ MODULE PhilSema ------------------------------
(***************************************************************************)
(* The dining philosophers of kern/sync/check_sync.c with semaphores.      *)
(* A step has at most one semaphore operation, and what phi_test_sema has  *)
(* read is used in a later step.  Any philosopher that is not blocked may  *)
(* take the next step: the kernel switches only in schedule(), so it has   *)
(* fewer interleavings than the model.                                     *)
(***************************************************************************)
EXTENDS Integers, FiniteSets, SequencesExt

CONSTANTS N, TIMES, Mutex

ASSUME PhilAssumption == N \in Nat /\ N >= 3 /\ TIMES \in Nat /\ Mutex \notin 0..(N - 1)

Phils == 0..(N - 1)

LEFT(i) == (i - 1 + N) % N
RIGHT(i) == (i + 1) % N

VARIABLES
    value, queue, blocked,   \* the semaphores: Mutex, and s[i] for philosopher i
    state_sema,              \* THINKING, HUNGRY or EATING
    pc, iter

INSTANCE Semaphore WITH Threads <- Phils, Sems <- Phils \cup {Mutex}

sems == <<value, queue, blocked>>
vars == <<value, queue, blocked, state_sema, pc, iter>>

Points == {"loop", "take", "hungry", "test", "grant", "taken", "wait", "eat",
           "put", "testL", "grantL", "testR", "grantR", "done", "quit"}

TypeOK ==
    /\ SemTypeOK /\ \A s \in DOMAIN value : value[s] <= 1   \* all used as binary ones
    /\ state_sema \in [Phils -> {"THINKING", "HUNGRY", "EATING"}]
    /\ pc \in [Phils -> Points]
    /\ iter \in [Phils -> 0..TIMES]

Init ==
    /\ sem_init([s \in Phils \cup {Mutex} |-> IF s = Mutex THEN 1 ELSE 0])
    /\ state_sema = [i \in Phils |-> "THINKING"]
    /\ pc = [i \in Phils |-> "loop"]
    /\ iter = [i \in Phils |-> 0]

(* Philosopher i runs from one point of the code to the next. *)
From(i, here, there) ==
    pc[i] = here /\ ~blocked[i] /\ pc' = [pc EXCEPT ![i] = there]

-----------------------------------------------------------------------------
(* philosopher_using_semaphore: the loop; do_sleep takes any time. *)
loop(i) ==
    /\ \/ iter[i] < TIMES /\ From(i, "loop", "take") /\ iter' = [iter EXCEPT ![i] = @ + 1]
       \/ iter[i] = TIMES /\ From(i, "loop", "quit") /\ UNCHANGED iter
    /\ UNCHANGED <<sems, state_sema>>

(* phi_test_sema(j) called by i, from `test' by way of `grant' to `after' *)
MayEat(j) ==
    state_sema[j] = "HUNGRY" /\ state_sema[LEFT(j)] # "EATING" /\ state_sema[RIGHT(j)] # "EATING"

phi_test_sema(i, j, test, grant, after) ==
    \/ /\ \/ MayEat(j) /\ From(i, test, grant)
          \/ ~MayEat(j) /\ From(i, test, after)
       /\ UNCHANGED <<sems, state_sema, iter>>
    \/ /\ From(i, grant, after)
       /\ state_sema' = [state_sema EXCEPT ![j] = "EATING"]
       /\ up(j)
       /\ UNCHANGED iter

(* The semaphore operations of phi_take_forks_sema and phi_put_forks_sema *)
enter_bug(i, here, there) == From(i, here, there) /\ UNCHANGED <<sems, state_sema, iter>>
enter(i, here, there) ==
    From(i, here, there) /\ down(i, Mutex) /\ UNCHANGED <<state_sema, iter>>
leave(i, here, there) ==
    From(i, here, there) /\ up(Mutex) /\ UNCHANGED <<state_sema, iter>>
get_forks(i, here, there) ==
    From(i, here, there) /\ down(i, i) /\ UNCHANGED <<state_sema, iter>>

phi_take_forks_sema(i) ==
    \/ enter(i, "take", "hungry")
    \/ /\ From(i, "hungry", "test")
       /\ state_sema' = [state_sema EXCEPT ![i] = "HUNGRY"]
       /\ UNCHANGED <<sems, iter>>
    \/ phi_test_sema(i, i, "test", "grant", "taken")
    \/ leave(i, "taken", "wait")
    \/ get_forks(i, "wait", "eat")

test_right_bug(i) == phi_test_sema(i, LEFT(i), "testR", "grantR", "done")
test_right(i) == phi_test_sema(i, RIGHT(i), "testR", "grantR", "done")

phi_put_forks_sema(i) ==
    \/ enter(i, "eat", "put")
    \/ /\ From(i, "put", "testL")
       /\ state_sema' = [state_sema EXCEPT ![i] = "THINKING"]
       /\ UNCHANGED <<sems, iter>>
    \/ phi_test_sema(i, LEFT(i), "testL", "grantL", "testR")
    \/ test_right(i)
    \/ leave(i, "done", "loop")

philosopher(i) == loop(i) \/ phi_take_forks_sema(i) \/ phi_put_forks_sema(i)

(* check_sync has waited for all of them. *)
all_quit == (\A i \in Phils : pc[i] = "quit") /\ UNCHANGED vars

Next == (\E i \in Phils : philosopher(i)) \/ all_quit

(* Every thread that can run is scheduled again: NoStarvation of module Process. *)
Fairness == \A i \in Phils : WF_vars(philosopher(i))

Spec == Init /\ [][Next]_vars
FairSpec == Spec /\ Fairness

-----------------------------------------------------------------------------
(* The philosopher has both forks: down(&s[i]) has returned and its state is not
   THINKING again. *)
Eating(i) == pc[i] \in {"eat", "put"} /\ ~(pc[i] = "eat" /\ blocked[i])

(* Neighbours never eat at the same time. *)
NeighboursExclude == \A i \in Phils : ~(Eating(i) /\ Eating(RIGHT(i)))

InSection(i) ==
    /\ pc[i] \in {"hungry", "test", "grant", "taken", "put", "testL", "grantL", "testR", "grantR", "done"}
    /\ ~blocked[i]

(* The mutex admits one philosopher, and is free when there is none. *)
MutexExact ==
    value[Mutex] + Cardinality({i \in Phils : InSection(i)}) = 1

(* A HUNGRY philosopher that could eat is not forgotten: outside the critical
   section every one that waits has a neighbour that is EATING. *)
NobodyForgotten ==
    value[Mutex] = 1 => \A i \in Phils : ~MayEat(i)

(* All philosophers eat TIMES times and quit: check_sync's do_wait calls return. *)
AllQuit == <>(\A i \in Phils : pc[i] = "quit")
=============================================================================
