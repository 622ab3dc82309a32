------------------------------ MODULE Process ------------------------------
(***************************************************************************)
(* Process lifecycle and round-robin scheduling of the lab8 kernel:        *)
(* kern/process/proc.c, kern/schedule/sched.c, kern/schedule/              *)
(* default_sched.c and the epilogue of trap() in kern/trap/trap.c.         *)
(*                                                                         *)
(* A process is named by its pid.  There is one CPU; only `current' takes  *)
(* steps, and it gives the CPU away only in schedule().  A system call of  *)
(* a user process runs with interrupts off, so it is one action up to the  *)
(* call of schedule() (switching # FALSE) or the epilogue of trap()        *)
(* (at = "trapret").  Timer interrupts arrive in user mode and while a     *)
(* kernel thread (idle, init) runs.                                        *)
(*                                                                         *)
(* Abstractions: get_pid returns some unused pid (module GetPid); the      *)
(* timer list is the number of ticks left per sleeper (module Timer); the  *)
(* sibling chain cptr/optr/yptr is the sequence of children, newest first  *)
(* (module ProcTree); memory, open files and the wait for keyboard input   *)
(* are left out.                                                           *)
(***************************************************************************)
EXTENDS Naturals, FiniteSets, SequencesExt

CONSTANTS
    Users,           \* pids that user processes can get
    Idle,            \* idleproc
    Init1,           \* initproc (pid 1)
    None,            \* NULL parent
    AnyPid,          \* the argument 0 of do_wait
    MAX_TIME_SLICE,  \* sched.h
    MaxSleep         \* bound on the argument of do_sleep

ASSUME ProcessAssumption ==
    /\ Idle # Init1
    /\ Idle \notin Users /\ Init1 \notin Users
    /\ None \notin Users \cup {Idle, Init1}
    /\ AnyPid \notin Users \cup {Idle, Init1}
    /\ IsFiniteSet(Users)
    /\ MAX_TIME_SLICE \in Nat \ {0}
    /\ MaxSleep \in Nat \ {0}

Procs == Users \cup {Idle, Init1}

VARIABLES
    current,       \* the process on the CPU
    switching,     \* current has called schedule() and not yet left it
    state,         \* proc->state; "UNUSED": no proc_struct with this pid
    wait_state,    \* proc->wait_state
    exiting,       \* PF_EXITING in proc->flags
    parent,        \* proc->parent
    kids,          \* the children from cptr along optr
    runq,          \* rq->run_list
    time_slice,    \* proc->time_slice
    need_resched,  \* proc->need_resched
    left,          \* ticks until the timer of do_sleep expires, 0: no timer
    at,            \* where the process continues
    wpid,          \* the pid argument of a do_wait in progress
    halted         \* "no", or why the kernel stopped

vars == <<current, switching, state, wait_state, exiting, parent, kids, runq,
          time_slice, need_resched, left, at, wpid, halted>>

States == {"UNUSED", "RUNNABLE", "SLEEPING", "ZOMBIE"}
WaitStates == {"0", "WT_CHILD", "WT_TIMER"}
Points == {"idle", "start", "reap", "user", "trapret", "wait", "sleep", "dead"}

TypeOK ==
    /\ current \in Procs
    /\ switching \in BOOLEAN
    /\ state \in [Procs -> States]
    /\ wait_state \in [Procs -> WaitStates]
    /\ exiting \in [Procs -> BOOLEAN]
    /\ parent \in [Procs -> Procs \cup {None}]
    /\ kids \in [Procs -> Seq(Procs)]
    /\ runq \in Seq(Procs)
    /\ time_slice \in [Procs -> 0..MAX_TIME_SLICE]
    /\ need_resched \in [Procs -> BOOLEAN]
    /\ left \in [Procs -> 0..MaxSleep]
    /\ at \in [Procs -> Points]
    /\ wpid \in [Procs -> Procs \cup {AnyPid}]
    /\ halted \in {"no", "shutdown", "initproc exit"}

-----------------------------------------------------------------------------
(* proc_init: idle runs cpu_idle, init_main is in the run queue. *)

Init ==
    /\ current = Idle
    /\ switching = FALSE
    /\ state = [p \in Procs |-> IF p \in Users THEN "UNUSED" ELSE "RUNNABLE"]
    /\ wait_state = [p \in Procs |-> "0"]
    /\ exiting = [p \in Procs |-> FALSE]
    /\ parent = [p \in Procs |-> IF p = Init1 THEN Idle ELSE None]
    /\ kids = [p \in Procs |-> IF p = Idle THEN <<Init1>> ELSE <<>>]
    /\ runq = <<Init1>>
    /\ time_slice = [p \in Procs |-> IF p = Init1 THEN MAX_TIME_SLICE ELSE 0]
    /\ need_resched = [p \in Procs |-> p = Idle]
    /\ left = [p \in Procs |-> 0]
    /\ at = [p \in Procs |-> CASE p = Idle -> "idle"
                               [] p = Init1 -> "start"
                               [] OTHER -> "dead"]
    /\ wpid = [p \in Procs |-> AnyPid]
    /\ halted = "no"

(* current executes kernel or user code outside schedule(). *)
Running(point) == halted = "no" /\ ~switching /\ at[current] = point

-----------------------------------------------------------------------------
(* RR_enqueue and wakeup_proc *)

(* RR_enqueue gives a fresh slice only to a process that used its own up. *)
Refill_bug(slice) == slice + MAX_TIME_SLICE
Refill(slice) == IF slice = 0 \/ slice > MAX_TIME_SLICE THEN MAX_TIME_SLICE ELSE slice

Enqueued(ts, W) == [p \in Procs |-> IF p \in W THEN Refill(ts[p]) ELSE ts[p]]

(* wakeup_proc on the processes of the sequence ws, in that order; none of
   them is RUNNABLE (wakeup_proc only warns about those).  It enqueues them if
   they are not current, which never is the case: RunQueueExact would fail. *)
Woken(st, ws) == [p \in Procs |-> IF p \in ToSet(ws) THEN "RUNNABLE" ELSE st[p]]

wakeup_proc(ws, st) ==
    /\ state' = Woken(st, ws)
    /\ wait_state' = [p \in Procs |-> IF p \in ToSet(ws) THEN "0" ELSE wait_state[p]]
    /\ runq' = runq \o ws
    /\ time_slice' = Enqueued(time_slice, ToSet(ws))

(* The sequence that wakes p if cond holds and p is not RUNNABLE already. *)
WakeIf(p, cond) == IF cond /\ state[p] # "RUNNABLE" THEN <<p>> ELSE <<>>

Orderings(S) == {s \in [1..Cardinality(S) -> S] : IsInjective(s) /\ ToSet(s) = S}

-----------------------------------------------------------------------------
(* schedule() with RR_pick_next, RR_dequeue and proc_run *)

schedule ==
    /\ halted = "no" /\ switching
    /\ LET again == state[current] = "RUNNABLE" /\ current # Idle
           rq    == IF again THEN Append(runq, current) ELSE runq
       IN /\ current' = IF rq = <<>> THEN Idle ELSE Head(rq)
          /\ runq' = IF rq = <<>> THEN rq ELSE Tail(rq)
          /\ time_slice' = IF again THEN Enqueued(time_slice, {current}) ELSE time_slice
    /\ need_resched' = [need_resched EXCEPT ![current] = FALSE]
    /\ switching' = FALSE
    /\ UNCHANGED <<state, wait_state, exiting, parent, kids, left, at, wpid, halted>>

cpu_idle ==
    /\ Running("idle")
    /\ need_resched[Idle]
    /\ switching' = TRUE
    /\ UNCHANGED <<current, state, wait_state, exiting, parent, kids, runq,
                   time_slice, need_resched, left, at, wpid, halted>>

-----------------------------------------------------------------------------
(* do_exit of a process other than init.  Its parent is woken if it waits for
   a child; init, if it inherits a zombie (unless it was woken as the parent). *)

WakesParent(p) == wait_state[parent[p]] = "WT_CHILD"

WakesInit_bug(p) == FALSE
WakesInit(p) ==
    /\ parent[p] # Init1
    /\ wait_state[Init1] = "WT_CHILD"
    /\ \E c \in ToSet(kids[p]) : state[c] = "ZOMBIE"

(* The children move one by one to the front of init's list, which reverses
   their order. *)
Reparent_bug(p) == parent
Reparent(p) == [c \in Procs |-> IF c \in ToSet(kids[p]) THEN Init1 ELSE parent[c]]

do_exit(p) ==
    /\ wakeup_proc(WakeIf(parent[p], WakesParent(p)) \o WakeIf(Init1, WakesInit(p)),
                   [state EXCEPT ![p] = "ZOMBIE"])
    /\ parent' = Reparent(p)
    /\ kids' = [kids EXCEPT ![Init1] = Reverse(kids[p]) \o @, ![p] = <<>>]
    /\ at' = [at EXCEPT ![p] = "dead"]
    /\ switching' = TRUE
    /\ UNCHANGED <<current, exiting, need_resched, left, wpid, halted>>

(* do_exit of init panics. *)
panic_initproc_exit ==
    /\ halted' = "initproc exit"
    /\ UNCHANGED <<current, switching, state, wait_state, exiting, parent, kids,
                   runq, time_slice, need_resched, left, at, wpid>>

sys_exit == Running("user") /\ do_exit(current)

(* The end of trap() for a trap from user mode. *)
trap_return ==
    /\ Running("trapret")
    /\ \/ exiting[current] /\ do_exit(current)
       \/ /\ ~exiting[current]
          /\ at' = [at EXCEPT ![current] = "user"]
          /\ switching' = need_resched[current]
          /\ UNCHANGED <<current, state, wait_state, exiting, parent, kids, runq,
                         time_slice, need_resched, left, wpid, halted>>

-----------------------------------------------------------------------------
(* do_fork: the child is RUNNABLE and first in its parent's list.  The fields
   of an unused slot have the values alloc_proc gives them (see remove_proc).
   A fork that finds no free slot (MAX_PROCESS) or no memory is a sys_noop. *)

do_fork(p, c) ==
    /\ wakeup_proc(<<c>>, state)
    /\ parent' = [parent EXCEPT ![c] = p]
    /\ kids' = [kids EXCEPT ![p] = <<c>> \o @, ![c] = <<>>]
    /\ UNCHANGED <<current, exiting, need_resched, left, wpid, halted>>

FreePids == {c \in Users : state[c] = "UNUSED"}

sys_fork ==
    /\ Running("user")
    /\ \E c \in FreePids :
         /\ do_fork(current, c)
         /\ at' = [at EXCEPT ![current] = "trapret", ![c] = "user"]
         /\ UNCHANGED switching

(* A call that fails, or has no effect on the state modelled here. *)
sys_noop ==
    /\ Running("user")
    /\ at' = [at EXCEPT ![current] = "trapret"]
    /\ UNCHANGED <<current, switching, state, wait_state, exiting, parent, kids,
                   runq, time_slice, need_resched, left, wpid, halted>>

(* init_main creates user_main, then reaps in a loop. *)
init_main ==
    /\ Running("start")
    /\ \E c \in FreePids :
         /\ do_fork(current, c)
         /\ at' = [at EXCEPT ![current] = "reap", ![c] = "user"]
         /\ UNCHANGED switching

-----------------------------------------------------------------------------
(* do_wait.  The children the caller may reap: *)

Waitable_bug(p, pid) == {c \in ToSet(kids[p]) : state[c] = "ZOMBIE"}
Waitable(p, pid) ==
    IF pid = AnyPid THEN ToSet(kids[p])
    ELSE {c \in {pid} : state[c] # "UNUSED" /\ parent[c] = p}

Zombies(p, pid) == {c \in Waitable(p, pid) : state[c] = "ZOMBIE"}

(* unhash_proc, remove_links, put_kstack and kfree of the zombie that is the
   i-th child of p. *)
remove_proc(p, i) ==
    LET z == kids[p][i]
    IN /\ kids' = [kids EXCEPT ![p] = RemoveAt(@, i)]
       /\ state' = [state EXCEPT ![z] = "UNUSED"]
       /\ parent' = [parent EXCEPT ![z] = None]
       /\ exiting' = [exiting EXCEPT ![z] = FALSE]
       /\ time_slice' = [time_slice EXCEPT ![z] = 0]
       /\ wpid' = [wpid EXCEPT ![z] = AnyPid]

(* The zombie found: the first one of the list that the call waits for. *)
wait_found(p, pid) ==
    \E i \in DOMAIN kids[p] :
        /\ kids[p][i] \in Zombies(p, pid)
        /\ \A j \in 1..(i - 1) : kids[p][j] \notin Zombies(p, pid)
        /\ remove_proc(p, i)
        /\ UNCHANGED <<current, wait_state, runq, need_resched, left, halted>>

(* Children but no zombie: sleep, the process continues at "repeat". *)
wait_block(p, pid) ==
    /\ Waitable(p, pid) # {} /\ Zombies(p, pid) = {}
    /\ state' = [state EXCEPT ![p] = "SLEEPING"]
    /\ wait_state' = [wait_state EXCEPT ![p] = "WT_CHILD"]
    /\ at' = [at EXCEPT ![p] = "wait"]
    /\ wpid' = [wpid EXCEPT ![p] = pid]
    /\ switching' = TRUE
    /\ UNCHANGED <<current, exiting, parent, kids, runq, time_slice, need_resched,
                   left, halted>>

(* do_wait for a system call, from its start or from "repeat": it returns to
   the end of trap() unless it blocks. *)
do_wait(pid) ==
    \/ /\ wait_found(current, pid)
       /\ at' = [at EXCEPT ![current] = "trapret"]
       /\ UNCHANGED switching
    \/ wait_block(current, pid)
    \/ /\ Waitable(current, pid) = {}
       /\ at' = [at EXCEPT ![current] = "trapret"]
       /\ UNCHANGED <<current, switching, state, wait_state, exiting, parent, kids,
                      runq, time_slice, need_resched, left, wpid, halted>>

sys_wait ==
    /\ Running("user")
    /\ \E pid \in (Procs \ {Idle}) \cup {AnyPid} : do_wait(pid)

(* The return of schedule() in a system call's do_wait. *)
wait_resume_bug ==
    Running("wait") /\ current # Init1 /\ do_wait(wpid[current])
wait_resume ==
    /\ Running("wait") /\ current # Init1
    /\ \/ exiting[current] /\ do_exit(current)
       \/ ~exiting[current] /\ do_wait(wpid[current])

(* The loop of init_main around do_wait(0, NULL): each reaped child is followed
   by schedule(); without children init_main returns and the kernel stops. *)
init_wait ==
    \/ /\ wait_found(current, AnyPid)
       /\ at' = [at EXCEPT ![current] = "reap"]
       /\ switching' = TRUE
    \/ wait_block(current, AnyPid)
    \/ /\ Waitable(current, AnyPid) = {}
       /\ halted' = "shutdown"
       /\ UNCHANGED <<current, switching, state, wait_state, exiting, parent, kids,
                      runq, time_slice, need_resched, left, at, wpid>>

init_reap == Running("reap") /\ init_wait

init_resume ==
    /\ Running("wait") /\ current = Init1
    /\ \/ exiting[Init1] /\ panic_initproc_exit
       \/ ~exiting[Init1] /\ init_wait

-----------------------------------------------------------------------------
(* do_kill, do_yield, do_sleep, each followed by the end of trap() *)

WT_INTERRUPTED == {"WT_CHILD", "WT_TIMER"}

WakesVictim_bug(p) == TRUE
WakesVictim(p) == wait_state[p] \in WT_INTERRUPTED

sys_kill ==
    /\ Running("user")
    /\ \E p \in Procs \ {Idle} :
         /\ state[p] # "UNUSED" /\ ~exiting[p]
         /\ exiting' = [exiting EXCEPT ![p] = TRUE]
         /\ wakeup_proc(WakeIf(p, WakesVictim(p)), state)
    /\ at' = [at EXCEPT ![current] = "trapret"]
    /\ UNCHANGED <<current, switching, parent, kids, need_resched, left, wpid, halted>>

sys_yield ==
    /\ Running("user")
    /\ need_resched' = [need_resched EXCEPT ![current] = TRUE]
    /\ at' = [at EXCEPT ![current] = "trapret"]
    /\ UNCHANGED <<current, switching, state, wait_state, exiting, parent, kids,
                   runq, time_slice, left, wpid, halted>>

sys_sleep ==
    /\ Running("user")
    /\ \E time \in 1..MaxSleep : left' = [left EXCEPT ![current] = time]
    /\ state' = [state EXCEPT ![current] = "SLEEPING"]
    /\ wait_state' = [wait_state EXCEPT ![current] = "WT_TIMER"]
    /\ at' = [at EXCEPT ![current] = "sleep"]
    /\ switching' = TRUE
    /\ UNCHANGED <<current, exiting, parent, kids, runq, time_slice, need_resched,
                   wpid, halted>>

del_timer_bug(p) == left
del_timer(p) == [left EXCEPT ![p] = 0]

(* The return of schedule() in do_sleep. *)
sleep_resume ==
    /\ Running("sleep")
    /\ left' = del_timer(current)
    /\ at' = [at EXCEPT ![current] = "trapret"]
    /\ UNCHANGED <<current, switching, state, wait_state, exiting, parent, kids,
                   runq, time_slice, need_resched, wpid, halted>>

-----------------------------------------------------------------------------
(* The timer interrupt: run_timer_list wakes the sleepers whose time is over,
   in some order, and charges the tick to current (sched_class_proc_tick,
   RR_proc_tick).  From user mode the end of trap() follows. *)

(* Interrupts are on in user mode, in idle (intr_enable of kern_init) and in init
   (SSTATUS_SPIE of kernel_thread); a system call runs with interrupts off. *)
InUserMode == at[current] = "user" /\ ~switching
IntrEnabled_bug == InUserMode
IntrEnabled == InUserMode \/ current \in {Idle, Init1}

Expired == {p \in Procs : left[p] = 1}

(* wakeup_proc leaves a process alone that do_kill has made RUNNABLE before its
   timer expired. *)
TimerWakes_bug == Expired
TimerWakes == {p \in Expired : state[p] # "RUNNABLE"}

SliceOver_bug(p, slice) == p = Idle
SliceOver(p, slice) == p = Idle \/ slice = 0

run_timer_list ==
    LET used  == IF current # Idle /\ time_slice[current] > 0
                 THEN time_slice[current] - 1 ELSE time_slice[current]
        woken == TimerWakes
    IN /\ halted = "no" /\ IntrEnabled
       /\ left' = [p \in Procs |-> IF left[p] > 0 THEN left[p] - 1 ELSE 0]
       /\ \E ws \in Orderings(woken) :
            /\ state' = Woken(state, ws)
            /\ wait_state' = [p \in Procs |-> IF p \in woken THEN "0" ELSE wait_state[p]]
            /\ runq' = runq \o ws
       /\ time_slice' = [Enqueued(time_slice, woken) EXCEPT ![current] = used]
       /\ need_resched' = [need_resched EXCEPT
                             ![current] = @ \/ SliceOver(current, used)]
       /\ at' = [at EXCEPT ![current] = IF InUserMode THEN "trapret" ELSE @]
       /\ UNCHANGED <<current, switching, exiting, parent, kids, wpid, halted>>

-----------------------------------------------------------------------------
(* init_main has returned or initproc was killed: the kernel has stopped. *)
stopped == halted # "no" /\ UNCHANGED vars

Syscall == \/ sys_exit \/ sys_fork \/ sys_wait \/ sys_kill
           \/ sys_yield \/ sys_sleep \/ sys_noop

(* The steps of the kernel itself, in contrast to what user programs choose. *)
Kernel == \/ schedule \/ cpu_idle \/ trap_return \/ init_main \/ init_reap
          \/ init_resume \/ wait_resume \/ sleep_resume

Next == Syscall \/ Kernel \/ run_timer_list \/ stopped

(* Kernel code always runs on.  The timer is strongly fair: a tick that comes
   while interrupts are off stays pending and is taken when they are on again.
   User programs are free to do nothing. *)
Fairness == WF_vars(Kernel) /\ SF_vars(run_timer_list)

Spec == Init /\ [][Next]_vars
FairSpec == Spec /\ Fairness

-----------------------------------------------------------------------------
(* Safety *)

Live(p) == state[p] \in {"RUNNABLE", "SLEEPING"}

(* The run queue holds, once each, exactly the RUNNABLE processes other than
   the one on the CPU and idle.  This is what RR_enqueue's
   assert(list_empty(&(proc->run_link))) and RR_dequeue's converse rely on, and
   no process that could run is forgotten. *)
RunQueueExact ==
    /\ IsInjective(runq)
    /\ \A p \in Procs : p \in ToSet(runq) <=>
           state[p] = "RUNNABLE" /\ p # current /\ p # Idle

(* A parent sleeping in do_wait has a child it waits for, and none of those is
   a zombie already: the wakeup of do_exit, to the parent or to init for the
   orphans, is never lost. *)
NoLostChildExit ==
    \A p \in Procs : state[p] = "SLEEPING" /\ wait_state[p] = "WT_CHILD" =>
        Waitable(p, wpid[p]) # {} /\ Zombies(p, wpid[p]) = {}

(* set_links, remove_links and the reparenting loop of do_exit keep the two
   directions of the process tree equal; a process never has a dead parent. *)
TreeConsistent ==
    /\ \A p \in Procs : IsInjective(kids[p])
    /\ \A p, c \in Procs : c \in ToSet(kids[p]) <=> parent[c] = p
    /\ \A c \in Procs \ {Idle} : state[c] # "UNUSED" =>
           parent[c] # None /\ Live(parent[c])

(* The timer of do_sleep lives in the sleeper's stack frame: a timer in the
   list belongs to a process still inside do_sleep, and a process asleep in
   do_sleep has one, even when do_kill races with the expiry. *)
TimerOwned ==
    \A p \in Procs :
        /\ left[p] > 0 => Live(p) /\ at[p] = "sleep"
        /\ state[p] = "SLEEPING" /\ wait_state[p] = "WT_TIMER" => left[p] > 0

(* init_main's asserts when it has found no more children (proc.c 1199-1202):
   every user process has been reaped. *)
ShutdownClean == halted = "shutdown" => \A u \in Users : state[u] = "UNUSED"

-----------------------------------------------------------------------------
(* Action properties *)

(* A zombie changes only by being reaped, and that is done by its parent:
   wakeup_proc's assert(proc->state != PROC_ZOMBIE) never fails. *)
ZombieOnlyReaped ==
    [][\A p \in Procs : state[p] = "ZOMBIE" /\ state'[p] # "ZOMBIE" =>
           state'[p] = "UNUSED" /\ parent[p] = current]_vars

-----------------------------------------------------------------------------
(* Liveness, under FairSpec *)

(* Round robin: a RUNNABLE process gets the CPU, whatever the others do. *)
NoStarvation ==
    \A p \in Procs \ {Idle} :
        state[p] = "RUNNABLE" ~> current = p \/ halted # "no"

(* A process asleep in do_sleep is woken. *)
SleeperWakes ==
    \A p \in Users : wait_state[p] = "WT_TIMER" ~> wait_state[p] = "0" \/ halted # "no"

(* do_kill ends an interruptible sleep: the victim exits without waiting for
   what it slept for. *)
KilledSleeperExits ==
    \A p \in Users :
        exiting[p] /\ state[p] = "RUNNABLE" /\ at[p] \in {"wait", "sleep"}
            ~> state[p] = "ZOMBIE" \/ halted # "no"

(* A killed process exits. *)
KilledExits ==
    \A p \in Users :
        exiting[p] ~> state[p] \in {"ZOMBIE", "UNUSED"} \/ halted # "no"
=============================================================================
