------------------------------ MODULE Semaphore ------------------------------
(***************************************************************************)
(* Semaphores of kern/sync/sem.c with the wait queues of kern/sync/wait.c. *)
(* up and down each change a semaphore with interrupts off.  A thread that *)
(* blocks in down has its wait_t in the queue of the semaphore until up    *)
(* takes it out and wakes it: the permit is handed over, value stays 0.    *)
(* WT_KSEM is not interruptible, so nothing but up wakes the thread.       *)
(***************************************************************************)
EXTENDS Naturals, Sequences

CONSTANTS Threads, Sems

VARIABLES
    value,      \* sem->value
    queue,      \* the threads in sem->wait_queue, from its head
    blocked     \* the thread is PROC_SLEEPING with wait_state WT_KSEM

SemTypeOK ==
    /\ value \in [Sems -> Nat]
    /\ queue \in [Sems -> Seq(Threads)]
    /\ blocked \in [Threads -> BOOLEAN]

(* sem_init of every semaphore s with value v[s] *)
sem_init(v) ==
    /\ value = v
    /\ queue = [s \in Sems |-> <<>>]
    /\ blocked = [t \in Threads |-> FALSE]

(* __up: wakeup_wait of the first waiter, if there is one *)
up_bug(s) ==
    /\ value' = [value EXCEPT ![s] = @ + 1]
    /\ queue' = [queue EXCEPT ![s] = IF @ = <<>> THEN @ ELSE Tail(@)]
    /\ blocked' = IF queue[s] = <<>> THEN blocked
                  ELSE [blocked EXCEPT ![Head(queue[s])] = FALSE]
up(s) ==
    \/ /\ queue[s] = <<>>
       /\ value' = [value EXCEPT ![s] = @ + 1]
       /\ UNCHANGED <<queue, blocked>>
    \/ /\ queue[s] # <<>>
       /\ queue' = [queue EXCEPT ![s] = Tail(@)]
       /\ blocked' = [blocked EXCEPT ![Head(queue[s])] = FALSE]
       /\ UNCHANGED value

(* __down by t, up to the call of schedule() if it must wait; after schedule()
   the wait_t is out of the queue and down returns. *)
down(t, s) ==
    \/ /\ value[s] > 0
       /\ value' = [value EXCEPT ![s] = @ - 1]
       /\ UNCHANGED <<queue, blocked>>
    \/ /\ value[s] = 0
       /\ queue' = [queue EXCEPT ![s] = Append(@, t)]
       /\ blocked' = [blocked EXCEPT ![t] = TRUE]
       /\ UNCHANGED value

(* t is at place k of the queue of s. *)
WaitsAt(t, s, k) == queue[s][k] = t

(* A blocked thread waits at exactly one place of one queue, no other thread
   waits, and a semaphore with a permit has no waiters: no wakeup is lost and none
   is given twice. *)
NoLostPermit ==
    /\ \A s \in Sems : value[s] > 0 => queue[s] = <<>>
    /\ \A t \in Threads : blocked[t] <=> \E s \in Sems : \E k \in DOMAIN queue[s] : WaitsAt(t, s, k)
    /\ \A t \in Threads, s, r \in Sems : \A k \in DOMAIN queue[s], l \in DOMAIN queue[r] :
         WaitsAt(t, s, k) /\ WaitsAt(t, r, l) => s = r /\ k = l
=============================================================================
