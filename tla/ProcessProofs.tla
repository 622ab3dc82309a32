--------------------------- MODULE ProcessProofs ---------------------------
(***************************************************************************)
(* Proofs about module Process, for any set of pids, any time slice and    *)
(* any bound on the sleeping time.                                         *)
(*                                                                         *)
(* SchedInv (who is on the CPU, in the run queue, asleep, with a timer) is *)
(* inductive: RunQueueExact and TimerOwned need each other through what it *)
(* says of the place where a process is and of what it sleeps for.         *)
(***************************************************************************)
EXTENDS Process, SeqLemmas, FiniteSetTheorems

(* Outside schedule() the process on the CPU is RUNNABLE. *)
CurrentRunnable == ~switching => state[current] = "RUNNABLE"

(* A process is asleep exactly when it says what it waits for. *)
SleepReason == \A p \in Procs : state[p] = "SLEEPING" <=> wait_state[p] # "0"

(* The kernel threads are at their own program points, idle is always
   RUNNABLE, and the processes that have ended are the ones that are nowhere. *)
Where ==
    /\ at[Idle] = "idle" /\ state[Idle] = "RUNNABLE"
    /\ at[Init1] \in {"start", "reap", "wait"}
    /\ \A u \in Users : at[u] \in {"user", "trapret", "wait", "sleep", "dead"}
    /\ \A p \in Procs : at[p] = "dead" <=> state[p] \in {"UNUSED", "ZOMBIE"}

(* Every process other than idle has a parent. *)
HasParent == \A c \in Procs \ {Idle} : state[c] # "UNUSED" => parent[c] \in Procs

SchedInv ==
    /\ TypeOK
    /\ RunQueueExact
    /\ CurrentRunnable
    /\ SleepReason
    /\ Where
    /\ HasParent
    /\ TimerOwned

-----------------------------------------------------------------------------
(* RR_enqueue keeps the time slice within its bound. *)
LEMMA EnqueuedType ==
    ASSUME NEW ts \in [Procs -> 0..MAX_TIME_SLICE], NEW W
    PROVE  Enqueued(ts, W) \in [Procs -> 0..MAX_TIME_SLICE]
BY ProcessAssumption DEF Enqueued, Refill

(* wakeup_proc of processes that are not in the run queue: what it does to each
   process, and that the run queue stays a list without repetitions. *)
LEMMA WakeupEffect ==
    ASSUME TypeOK, IsInjective(runq),
           NEW st \in [Procs -> States],
           NEW ws \in Seq(Procs), IsInjective(ws),
           NEW W, ToSet(ws) = W, ToSet(runq) \cap W = {},
           wakeup_proc(ws, st)
    PROVE  /\ state' \in [Procs -> States]
           /\ wait_state' \in [Procs -> WaitStates]
           /\ runq' \in Seq(Procs)
           /\ time_slice' \in [Procs -> 0..MAX_TIME_SLICE]
           /\ IsInjective(runq')
           /\ ToSet(runq') = ToSet(runq) \cup W
           /\ \A p \in Procs :
                 /\ state'[p] = IF p \in W THEN "RUNNABLE" ELSE st[p]
                 /\ wait_state'[p] = IF p \in W THEN "0" ELSE wait_state[p]
<1>1. state' = Woken(st, ws) /\ runq' = runq \o ws
  BY DEF wakeup_proc
<1>2. time_slice' = Enqueued(time_slice, ToSet(ws))
  BY DEF wakeup_proc
<1>3. time_slice' \in [Procs -> 0..MAX_TIME_SLICE]
  BY <1>2, EnqueuedType DEF TypeOK
<1>4. state' \in [Procs -> States]
  BY <1>1 DEF Woken, States
<1>5. wait_state' \in [Procs -> WaitStates]
  BY DEF wakeup_proc, TypeOK, WaitStates
<1>6. runq \in Seq(Procs)
  BY DEF TypeOK
<1>7. runq' \in Seq(Procs) /\ ToSet(runq') = ToSet(runq) \cup ToSet(ws)
  BY <1>1, <1>6, ConcatSet
<1>8. IsInjective(runq')
  BY <1>1, <1>6, ConcatNoDup
<1>9. \A p \in Procs :
         /\ state'[p] = IF p \in ToSet(ws) THEN "RUNNABLE" ELSE st[p]
         /\ wait_state'[p] = IF p \in ToSet(ws) THEN "0" ELSE wait_state[p]
  BY DEF wakeup_proc, Woken
<1> QED BY <1>3, <1>4, <1>5, <1>7, <1>8, <1>9

(* The list WakeIf builds: at most p, and only if p is not RUNNABLE. *)
LEMMA WakeIfList ==
    ASSUME NEW p \in Procs, NEW cond
    PROVE  /\ WakeIf(p, cond) \in Seq(Procs)
           /\ IsInjective(WakeIf(p, cond))
           /\ ToSet(WakeIf(p, cond)) =
                 {q \in {p} : cond /\ state[p] # "RUNNABLE"}
BY OneElement, EmptyList, Zenon DEF WakeIf

(* proc_init establishes the invariant. *)
LEMMA SchedInit == Init => SchedInv
<1> SUFFICES ASSUME Init PROVE SchedInv
  OBVIOUS
<1> USE ProcessAssumption
<1>0. Idle \in Procs /\ Init1 \in Procs /\ Idle # Init1 /\ Users \subseteq Procs
  BY DEF Procs
<1>1. /\ <<Init1>> \in Seq(Procs) /\ ToSet(<<Init1>>) = {Init1}
      /\ IsInjective(<<Init1>>) /\ <<>> \in Seq(Procs)
  BY <1>0, OneElement, EmptyList
<1>2. <<Idle>> \in Seq(Procs) /\ <<Init1>> \in Seq(Procs)
  BY <1>0, OneElement
<1>3. TypeOK
  <2>1. kids \in [Procs -> Seq(Procs)] /\ runq \in Seq(Procs)
    BY <1>1 DEF Init
  <2>2. current \in Procs /\ switching \in BOOLEAN /\ halted \in {"no", "shutdown", "initproc exit"}
    BY <1>0 DEF Init
  <2>3. state \in [Procs -> States] /\ wait_state \in [Procs -> WaitStates]
    BY DEF Init, States, WaitStates
  <2>4. exiting \in [Procs -> BOOLEAN] /\ need_resched \in [Procs -> BOOLEAN]
    BY DEF Init
  <2>5. /\ parent \in [Procs -> Procs \cup {None}]
        /\ wpid \in [Procs -> Procs \cup {AnyPid}]
    BY <1>0 DEF Init
  <2>6. /\ time_slice \in [Procs -> 0..MAX_TIME_SLICE]
        /\ left \in [Procs -> 0..MaxSleep]
    BY DEF Init
  <2>7. at \in [Procs -> Points]
    BY DEF Init, Points
  <2> QED BY <2>1, <2>2, <2>3, <2>4, <2>5, <2>6, <2>7 DEF TypeOK
<1>4. RunQueueExact
  BY <1>0, <1>1 DEF Init, RunQueueExact, Procs
<1>5. CurrentRunnable /\ SleepReason /\ HasParent
  BY <1>0 DEF Init, CurrentRunnable, SleepReason, HasParent, Procs
<1>6. Where
  BY <1>0 DEF Init, Where, Procs
<1>7. TimerOwned
  BY <1>0 DEF Init, TimerOwned
<1> QED BY <1>3, <1>4, <1>5, <1>6, <1>7 DEF SchedInv

-----------------------------------------------------------------------------
(* Names are distinct; who can be at which program point. *)
LEMMA Distinct ==
    /\ Idle \in Procs /\ Init1 \in Procs /\ Idle # Init1 /\ Users \subseteq Procs
    /\ Idle \notin Users /\ Init1 \notin Users
    /\ Procs = Users \cup {Idle, Init1}
BY ProcessAssumption DEF Procs

LEMMA UserOnCpu ==
    ASSUME SchedInv, ~switching,
           \/ at[current] \in {"user", "trapret", "sleep"}
           \/ at[current] = "wait" /\ current # Init1
    PROVE  /\ current \in Users /\ current # Idle /\ current # Init1
           /\ state[current] = "RUNNABLE" /\ wait_state[current] = "0"
           /\ current \notin ToSet(runq) /\ parent[current] \in Procs
<1>1. current \in Procs
  BY DEF SchedInv, TypeOK
<1>2. current \in Users
  BY <1>1, Distinct DEF SchedInv, Where
<1>3. state[current] = "RUNNABLE"
  BY DEF SchedInv, CurrentRunnable
<1> QED BY <1>1, <1>2, <1>3, Distinct DEF SchedInv, SleepReason, RunQueueExact, HasParent

(* schedule(): the next process is the head of the queue, or idle. *)
LEMMA SchedSchedule == SchedInv /\ schedule => SchedInv'
<1> SUFFICES ASSUME SchedInv, schedule PROVE SchedInv'
  OBVIOUS
<1> DEFINE again == state[current] = "RUNNABLE" /\ current # Idle
           rq == IF again THEN Append(runq, current) ELSE runq
<1>1. /\ current' = IF rq = <<>> THEN Idle ELSE Head(rq)
      /\ runq' = IF rq = <<>> THEN rq ELSE Tail(rq)
      /\ time_slice' = IF again THEN Enqueued(time_slice, {current}) ELSE time_slice
      /\ need_resched' = [need_resched EXCEPT ![current] = FALSE]
      /\ switching' = FALSE
      /\ UNCHANGED <<state, wait_state, exiting, parent, kids, left, at, wpid, halted>>
  BY DEF schedule
<1>2. /\ current \in Procs /\ runq \in Seq(Procs) /\ IsInjective(runq)
      /\ \A p \in Procs : p \in ToSet(runq) <=>
             state[p] = "RUNNABLE" /\ p # current /\ p # Idle
  BY DEF SchedInv, TypeOK, RunQueueExact
<1>3. /\ rq \in Seq(Procs) /\ IsInjective(rq)
      /\ \A p \in Procs : p \in ToSet(rq) <=> state[p] = "RUNNABLE" /\ p # Idle
  <2>1. CASE again
    <3>1. rq = runq \o <<current>>
      BY <2>1, <1>2, AppendIsConcat
    <3> HIDE DEF rq
    <3>2. <<current>> \in Seq(Procs) /\ ToSet(<<current>>) = {current} /\ IsInjective(<<current>>)
      BY <1>2, OneElement
    <3>3. ToSet(runq) \cap ToSet(<<current>>) = {}
      BY <1>2, <3>2
    <3>4. rq \in Seq(Procs) /\ ToSet(rq) = ToSet(runq) \cup {current}
      <4>1. /\ runq \o <<current>> \in Seq(Procs)
            /\ ToSet(runq \o <<current>>) = ToSet(runq) \cup ToSet(<<current>>)
        BY <3>2, <1>2, ConcatSet
      <4> QED BY <4>1, <3>1, <3>2
    <3>5. IsInjective(rq)
      BY <3>1, <3>2, <3>3, <1>2, ConcatNoDup
    <3> QED BY <3>4, <3>5, <1>2, <2>1
  <2>2. CASE ~again
    BY <2>2, <1>2
  <2> QED BY <2>1, <2>2
<1> HIDE DEF rq
<1>4. /\ current' \in Procs /\ runq' \in Seq(Procs) /\ IsInjective(runq')
      /\ state[current'] = "RUNNABLE"
      /\ \A p \in Procs : p \in ToSet(runq') <=>
             state[p] = "RUNNABLE" /\ p # current' /\ p # Idle
  <2>1. CASE rq = <<>>
    <3>1. ToSet(rq) = {}
      BY <2>1, EmptyList
    <3> QED BY <2>1, <3>1, <1>1, <1>3, Distinct DEF SchedInv, Where
  <2>2. CASE rq # <<>>
    <3>1. /\ Head(rq) \in Procs /\ Head(rq) \in ToSet(rq)
          /\ Tail(rq) \in Seq(Procs) /\ IsInjective(Tail(rq))
          /\ ToSet(Tail(rq)) = ToSet(rq) \ {Head(rq)}
      BY <2>2, <1>3, TailSet
    <3> QED BY <2>2, <3>1, <1>1, <1>3
  <2> QED BY <2>1, <2>2
<1>5. TypeOK'
  <2>1. time_slice' \in [Procs -> 0..MAX_TIME_SLICE]
    BY <1>1, EnqueuedType DEF SchedInv, TypeOK
  <2>2. need_resched' \in [Procs -> BOOLEAN]
    BY <1>1 DEF SchedInv, TypeOK
  <2> QED BY <1>1, <1>4, <2>1, <2>2 DEF SchedInv, TypeOK
<1>6. RunQueueExact' /\ CurrentRunnable'
  BY <1>1, <1>4 DEF RunQueueExact, CurrentRunnable
<1>7. SleepReason' /\ Where' /\ HasParent' /\ TimerOwned'
  BY <1>1 DEF SchedInv, SleepReason, Where, HasParent, TimerOwned, Live
<1> QED BY <1>5, <1>6, <1>7 DEF SchedInv

(* Steps that move the process on the CPU to another program point without
   changing what it is: the other parts of the invariant are not concerned. *)
LEMMA SchedMove ==
    ASSUME SchedInv, at' \in [Procs -> Points], Where', TimerOwned',
           switching' \in BOOLEAN, need_resched' \in [Procs -> BOOLEAN],
           left' \in [Procs -> 0..MaxSleep],
           halted' \in {"no", "shutdown", "initproc exit"},
           ~switching,
           UNCHANGED <<current, state, wait_state, exiting, parent, kids, runq,
                       time_slice, wpid>>
    PROVE  SchedInv'
<1>1. TypeOK'
  BY DEF SchedInv, TypeOK
<1>2. RunQueueExact' /\ SleepReason' /\ HasParent'
  BY DEF SchedInv, RunQueueExact, SleepReason, HasParent
<1>3. CurrentRunnable'
  BY DEF SchedInv, CurrentRunnable
<1> QED BY <1>1, <1>2, <1>3 DEF SchedInv

(* The same when a user process goes on in another place. *)
LEMMA SchedUserMove ==
    ASSUME SchedInv, ~switching,
           \/ at[current] \in {"user", "trapret"} /\ left' = left
           \/ at[current] = "wait" /\ current # Init1 /\ left' = left
           \/ at[current] = "sleep" /\ left' = del_timer(current),
           NEW point \in {"user", "trapret"}, at' = [at EXCEPT ![current] = point],
           switching' \in BOOLEAN, need_resched' \in [Procs -> BOOLEAN],
           UNCHANGED <<current, state, wait_state, exiting, parent, kids, runq,
                       time_slice, wpid, halted>>
    PROVE  SchedInv'
<1>1. /\ current \in Users /\ current # Idle /\ current # Init1
      /\ state[current] = "RUNNABLE" /\ wait_state[current] = "0"
  BY UserOnCpu
<1>2. /\ at \in [Procs -> Points] /\ left \in [Procs -> 0..MaxSleep]
      /\ halted \in {"no", "shutdown", "initproc exit"}
  BY DEF SchedInv, TypeOK
<1>3. at' \in [Procs -> Points]
  BY <1>2 DEF Points
<1>4. Where'
  BY <1>1, <1>2, Distinct DEF SchedInv, Where
<1>5. left' = [left EXCEPT ![current] = 0]
  <2>1. CASE at[current] = "sleep" /\ left' = del_timer(current)
    BY <2>1 DEF del_timer
  <2>2. CASE at[current] # "sleep" /\ left' = left
    <3>1. left[current] \in 0..MaxSleep /\ ~(left[current] > 0)
      BY <1>1, <1>2, <2>2, Distinct DEF SchedInv, TimerOwned
    <3>2. left[current] = 0
      BY <3>1, ProcessAssumption
    <3> QED BY <1>2, <2>2, <3>2
  <2> QED BY <2>1, <2>2
<1>6. left' \in [Procs -> 0..MaxSleep]
  <2>1. 0 \in 0..MaxSleep
    BY ProcessAssumption
  <2>2. \A n \in 0..MaxSleep : [left EXCEPT ![current] = n] \in [Procs -> 0..MaxSleep]
    BY <1>2
  <2> QED BY <2>1, <2>2, <1>5
<1>7. TimerOwned'
  <2> SUFFICES ASSUME NEW p \in Procs
               PROVE  /\ left'[p] > 0 => Live(p)' /\ at'[p] = "sleep"
                      /\ state'[p] = "SLEEPING" /\ wait_state'[p] = "WT_TIMER" => left'[p] > 0
    BY DEF TimerOwned
  <2>1. CASE p = current
    <3>1. state'[p] = "RUNNABLE" /\ left'[p] = 0
      BY <2>1, <1>1, <1>2, <1>5
    <3> QED BY <3>1
  <2>2. CASE p # current
    BY <2>2, <1>2, <1>5 DEF SchedInv, TimerOwned, Live
  <2> QED BY <2>1, <2>2
<1> QED BY <1>2, <1>3, <1>4, <1>6, <1>7, SchedMove

LEMMA SchedSimple ==
    ASSUME SchedInv, \/ cpu_idle \/ sys_noop \/ sys_yield \/ sleep_resume
                     \/ Running("wait") /\ panic_initproc_exit
                     \/ trap_return /\ ~exiting[current]
    PROVE  SchedInv'
<1>0. /\ switching \in BOOLEAN /\ need_resched \in [Procs -> BOOLEAN]
      /\ at \in [Procs -> Points] /\ left \in [Procs -> 0..MaxSleep]
      /\ Where /\ TimerOwned /\ current \in Procs
      /\ halted \in {"no", "shutdown", "initproc exit"}
  BY DEF SchedInv, TypeOK
<1>1. CASE cpu_idle
  <2>1. Where' /\ TimerOwned'
    BY <1>0, <1>1 DEF cpu_idle, Where, TimerOwned, Live
  <2> QED BY <1>0, <1>1, <2>1, SchedMove DEF cpu_idle, Running
<1>2. CASE sys_noop
  BY <1>0, <1>2, SchedUserMove DEF sys_noop, Running
<1>3. CASE sys_yield
  BY <1>0, <1>3, SchedUserMove DEF sys_yield, Running
<1>4. CASE sleep_resume
  BY <1>0, <1>4, SchedUserMove DEF sleep_resume, Running
<1>5. CASE Running("wait") /\ panic_initproc_exit
  <2>1. Where' /\ TimerOwned'
    BY <1>0, <1>5 DEF panic_initproc_exit, Where, TimerOwned, Live
  <2> QED BY <1>0, <1>5, <2>1, SchedMove DEF panic_initproc_exit, Running
<1>6. CASE trap_return /\ ~exiting[current]
  <2>1. switching' = need_resched[current] /\ need_resched' = need_resched
    BY <1>6 DEF trap_return
  <2>2. switching' \in BOOLEAN
    BY <1>0, <2>1
  <2> QED BY <1>0, <1>6, <2>1, <2>2, SchedUserMove DEF trap_return, Running
<1> QED BY <1>1, <1>2, <1>3, <1>4, <1>5, <1>6

(* The process on the CPU goes to sleep in do_wait or do_sleep. *)
LEMMA SchedBlock ==
    ASSUME SchedInv, Running("user") \/ Running("wait") \/ Running("reap"),
           \/ \E pid \in Procs \cup {AnyPid} : wait_block(current, pid)
           \/ sys_sleep
    PROVE  SchedInv'
<1>0. /\ at \in [Procs -> Points] /\ left \in [Procs -> 0..MaxSleep]
      /\ state \in [Procs -> States] /\ wait_state \in [Procs -> WaitStates]
      /\ current \in Procs /\ wpid \in [Procs -> Procs \cup {AnyPid}]
  BY DEF SchedInv, TypeOK
<1>1. ~switching /\ at[current] \in {"user", "wait", "reap"}
  BY DEF Running
<1>2. current # Idle /\ state[current] = "RUNNABLE" /\ current \notin ToSet(runq)
  BY <1>0, <1>1 DEF SchedInv, Where, CurrentRunnable, RunQueueExact
<1>3. PICK why \in {"WT_CHILD", "WT_TIMER"}, point \in {"wait", "sleep"} :
        /\ state' = [state EXCEPT ![current] = "SLEEPING"]
        /\ wait_state' = [wait_state EXCEPT ![current] = why]
        /\ at' = [at EXCEPT ![current] = point]
        /\ switching' = TRUE
        /\ wpid' \in [Procs -> Procs \cup {AnyPid}]
        /\ UNCHANGED <<current, exiting, parent, kids, runq, time_slice,
                       need_resched, halted>>
        /\ \/ why = "WT_CHILD" /\ point = "wait" /\ left' = left
           \/ /\ why = "WT_TIMER" /\ point = "sleep" /\ at[current] = "user"
              /\ \E time \in 1..MaxSleep : left' = [left EXCEPT ![current] = time]
  <2>1. CASE \E pid \in Procs \cup {AnyPid} : wait_block(current, pid)
    BY <2>1, <1>0 DEF wait_block
  <2>2. CASE sys_sleep
    BY <2>2, <1>0 DEF sys_sleep, Running
  <2> QED BY <2>1, <2>2
<1>4. left' \in [Procs -> 0..MaxSleep]
  BY <1>0, <1>3, ProcessAssumption
<1>5. TypeOK'
  BY <1>0, <1>3, <1>4 DEF SchedInv, TypeOK, States, WaitStates, Points
<1>6. RunQueueExact' /\ CurrentRunnable'
  BY <1>0, <1>2, <1>3 DEF SchedInv, RunQueueExact, CurrentRunnable
<1>7. SleepReason' /\ HasParent'
  BY <1>0, <1>2, <1>3 DEF SchedInv, SleepReason, HasParent
<1>8. Where'
  BY <1>0, <1>1, <1>2, <1>3, Distinct DEF SchedInv, Where
<1>9. left[current] = 0
  BY <1>0, <1>1, <1>2 DEF SchedInv, TimerOwned
<1>10. TimerOwned'
  <2> SUFFICES ASSUME NEW p \in Procs
               PROVE  /\ left'[p] > 0 => Live(p)' /\ at'[p] = "sleep"
                      /\ state'[p] = "SLEEPING" /\ wait_state'[p] = "WT_TIMER" => left'[p] > 0
    BY DEF TimerOwned
  <2>1. CASE p = current
    BY <2>1, <1>0, <1>3, <1>9 DEF Live
  <2>2. CASE p # current
    BY <2>2, <1>0, <1>3 DEF SchedInv, TimerOwned, Live
  <2> QED BY <2>1, <2>2
<1> QED BY <1>5, <1>6, <1>7, <1>8, <1>10 DEF SchedInv

(* do_fork, by a user process or by init_main. *)
LEMMA SchedFork ==
    ASSUME SchedInv, ~switching, at[current] \in {"user", "start"},
           NEW c \in FreePids, do_fork(current, c), UNCHANGED switching,
           NEW point \in {"trapret", "reap"},
           point = "trapret" <=> at[current] = "user",
           at' = [at EXCEPT ![current] = point, ![c] = "user"]
    PROVE  SchedInv'
<1>0. /\ at \in [Procs -> Points] /\ left \in [Procs -> 0..MaxSleep]
      /\ state \in [Procs -> States] /\ wait_state \in [Procs -> WaitStates]
      /\ current \in Procs /\ parent \in [Procs -> Procs \cup {None}]
      /\ kids \in [Procs -> Seq(Procs)] /\ runq \in Seq(Procs) /\ IsInjective(runq)
  BY DEF SchedInv, TypeOK, RunQueueExact
<1>1. /\ c \in Users /\ c \in Procs /\ state[c] = "UNUSED"
      /\ c # Idle /\ c # Init1 /\ c # current /\ c \notin ToSet(runq)
  BY <1>0, Distinct DEF FreePids, SchedInv, CurrentRunnable, RunQueueExact
<1>2. /\ <<c>> \in Seq(Procs) /\ ToSet(<<c>>) = {c} /\ IsInjective(<<c>>)
      /\ <<>> \in Seq(Procs)
  BY <1>1, OneElement, EmptyList
<1>3. /\ state' \in [Procs -> States]
      /\ wait_state' \in [Procs -> WaitStates]
      /\ runq' \in Seq(Procs)
      /\ time_slice' \in [Procs -> 0..MAX_TIME_SLICE]
      /\ IsInjective(runq')
      /\ ToSet(runq') = ToSet(runq) \cup {c}
      /\ \A p \in Procs :
            /\ state'[p] = IF p = c THEN "RUNNABLE" ELSE state[p]
            /\ wait_state'[p] = IF p = c THEN "0" ELSE wait_state[p]
  <2>1. TypeOK /\ wakeup_proc(<<c>>, state) /\ ToSet(runq) \cap {c} = {}
    BY <1>1 DEF SchedInv, do_fork
  <2>2. /\ state' \in [Procs -> States]
        /\ wait_state' \in [Procs -> WaitStates]
        /\ runq' \in Seq(Procs)
        /\ time_slice' \in [Procs -> 0..MAX_TIME_SLICE]
        /\ IsInjective(runq')
        /\ ToSet(runq') = ToSet(runq) \cup {c}
        /\ \A p \in Procs :
              /\ state'[p] = IF p \in {c} THEN "RUNNABLE" ELSE state[p]
              /\ wait_state'[p] = IF p \in {c} THEN "0" ELSE wait_state[p]
    BY <1>0, <1>2, <2>1, WakeupEffect
  <2> QED BY <2>2
<1>4. /\ parent' = [parent EXCEPT ![c] = current]
      /\ kids' = [kids EXCEPT ![current] = <<c>> \o @, ![c] = <<>>]
      /\ UNCHANGED <<current, switching, exiting, need_resched, left, wpid, halted>>
  BY DEF do_fork
<1>5. TypeOK'
  <2>1. kids' \in [Procs -> Seq(Procs)]
    <3>1. <<c>> \o kids[current] \in Seq(Procs)
      BY <1>0, <1>2, ConcatSet
    <3> QED BY <1>0, <1>2, <1>4, <3>1
  <2>2. parent' \in [Procs -> Procs \cup {None}] /\ at' \in [Procs -> Points]
    BY <1>0, <1>4 DEF Points
  <2> QED BY <1>3, <1>4, <2>1, <2>2 DEF SchedInv, TypeOK
<1>6. RunQueueExact' /\ CurrentRunnable'
  BY <1>0, <1>1, <1>3, <1>4 DEF SchedInv, RunQueueExact, CurrentRunnable
<1>7. SleepReason' /\ HasParent'
  BY <1>0, <1>1, <1>3, <1>4 DEF SchedInv, SleepReason, HasParent
<1>8. at[current] = "user" <=> current \in Users
  BY <1>0, Distinct DEF SchedInv, Where
<1>9. Where'
  <2>1. at'[Idle] = "idle" /\ state'[Idle] = "RUNNABLE"
    BY <1>0, <1>1, <1>3, Distinct DEF SchedInv, Where
  <2>2. at'[Init1] \in {"start", "reap", "wait"}
    BY <1>0, <1>1, <1>8, Distinct DEF SchedInv, Where
  <2>3. \A u \in Users : at'[u] \in {"user", "trapret", "wait", "sleep", "dead"}
    BY <1>0, <1>1, <1>8, Distinct DEF SchedInv, Where
  <2>4. \A p \in Procs : at'[p] = "dead" <=> state'[p] \in {"UNUSED", "ZOMBIE"}
    BY <1>0, <1>1, <1>3 DEF SchedInv, Where, CurrentRunnable
  <2> QED BY <2>1, <2>2, <2>3, <2>4 DEF Where
<1>10. TimerOwned'
  <2> SUFFICES ASSUME NEW p \in Procs
               PROVE  /\ left'[p] > 0 => Live(p)' /\ at'[p] = "sleep"
                      /\ state'[p] = "SLEEPING" /\ wait_state'[p] = "WT_TIMER" => left'[p] > 0
    BY DEF TimerOwned
  <2>1. left[c] > 0 => FALSE
    BY <1>1 DEF SchedInv, TimerOwned, Live
  <2>2. left[current] > 0 => FALSE
    BY <1>0 DEF SchedInv, TimerOwned
  <2> QED BY <1>0, <1>1, <1>3, <1>4, <2>1, <2>2 DEF SchedInv, TimerOwned, Live
<1> QED BY <1>5, <1>6, <1>7, <1>9, <1>10 DEF SchedInv

(* do_wait frees the zombie it found. *)
LEMMA SchedFound ==
    ASSUME SchedInv, ~switching, switching' \in BOOLEAN,
           NEW pid, wait_found(current, pid),
           NEW point \in {"trapret", "reap"},
           \/ point = "trapret" /\ (at[current] = "user" \/ (at[current] = "wait" /\ current # Init1))
           \/ point = "reap" /\ current = Init1,
           at' = [at EXCEPT ![current] = point]
    PROVE  SchedInv'
<1>0. /\ at \in [Procs -> Points] /\ left \in [Procs -> 0..MaxSleep]
      /\ state \in [Procs -> States] /\ wait_state \in [Procs -> WaitStates]
      /\ current \in Procs /\ parent \in [Procs -> Procs \cup {None}]
      /\ kids \in [Procs -> Seq(Procs)] /\ exiting \in [Procs -> BOOLEAN]
      /\ time_slice \in [Procs -> 0..MAX_TIME_SLICE]
      /\ wpid \in [Procs -> Procs \cup {AnyPid}]
  BY DEF SchedInv, TypeOK
<1>1. PICK i \in DOMAIN kids[current] :
        /\ kids[current][i] \in Zombies(current, pid)
        /\ remove_proc(current, i)
        /\ UNCHANGED <<current, wait_state, runq, need_resched, left, halted>>
  BY DEF wait_found
<1> DEFINE z == kids[current][i]
<1>2. /\ kids' = [kids EXCEPT ![current] = RemoveAt(@, i)]
      /\ state' = [state EXCEPT ![z] = "UNUSED"]
      /\ parent' = [parent EXCEPT ![z] = None]
      /\ exiting' = [exiting EXCEPT ![z] = FALSE]
      /\ time_slice' = [time_slice EXCEPT ![z] = 0]
      /\ wpid' = [wpid EXCEPT ![z] = AnyPid]
  BY <1>1 DEF remove_proc
<1>3. kids[current] \in Seq(Procs) /\ i \in 1..Len(kids[current])
  BY <1>0, <1>1
<1>4. z \in Procs /\ state[z] = "ZOMBIE"
  BY <1>1, <1>3 DEF Zombies
<1> HIDE DEF z
<1>5. /\ state[current] = "RUNNABLE" /\ z # current /\ z # Idle /\ z # Init1
      /\ wait_state[z] = "0" /\ z \notin ToSet(runq) /\ at[z] = "dead"
  BY <1>0, <1>4, Distinct
     DEF SchedInv, CurrentRunnable, Where, SleepReason, RunQueueExact
<1>6. TypeOK'
  <2>1. RemoveAt(kids[current], i) \in Seq(Procs)
    BY <1>3, RemoveAtType
  <2>2. kids' \in [Procs -> Seq(Procs)]
    BY <1>0, <1>2, <2>1
  <2>3. /\ state' \in [Procs -> States] /\ exiting' \in [Procs -> BOOLEAN]
        /\ parent' \in [Procs -> Procs \cup {None}]
        /\ wpid' \in [Procs -> Procs \cup {AnyPid}] /\ at' \in [Procs -> Points]
    BY <1>0, <1>2 DEF States, Points
  <2>4. 0 \in 0..MAX_TIME_SLICE
    BY ProcessAssumption
  <2>5. time_slice' \in [Procs -> 0..MAX_TIME_SLICE]
    BY <1>0, <1>2, <2>4
  <2> QED BY <1>1, <2>2, <2>3, <2>5 DEF SchedInv, TypeOK
<1>7. RunQueueExact' /\ CurrentRunnable'
  BY <1>0, <1>1, <1>2, <1>4, <1>5 DEF SchedInv, RunQueueExact, CurrentRunnable
<1>8. SleepReason' /\ HasParent'
  BY <1>0, <1>1, <1>2, <1>4, <1>5 DEF SchedInv, SleepReason, HasParent
<1>9. Where'
  BY <1>0, <1>2, <1>4, <1>5, Distinct DEF SchedInv, Where
<1>10. TimerOwned'
  <2>1. \A p \in Procs : left[p] > 0 => p # z /\ p # current
    BY <1>0, <1>4, <1>5, Distinct DEF SchedInv, TimerOwned, Live, Where
  <2> QED BY <1>0, <1>1, <1>2, <1>4, <1>5, <2>1 DEF SchedInv, TimerOwned, Live
<1> QED BY <1>6, <1>7, <1>8, <1>9, <1>10 DEF SchedInv

(* What the wakeups of do_exit(p) do when they wake the processes of W. *)
ExitEffect(p, W) ==
    /\ \A q \in W : state[q] = "SLEEPING" /\ wait_state[q] = "WT_CHILD"
    /\ W = {q \in {parent[p]} : WakesParent(p)} \cup {q \in {Init1} : WakesInit(p)}
    /\ state' \in [Procs -> States]
    /\ wait_state' \in [Procs -> WaitStates]
    /\ runq' \in Seq(Procs)
    /\ time_slice' \in [Procs -> 0..MAX_TIME_SLICE]
    /\ IsInjective(runq')
    /\ ToSet(runq') = ToSet(runq) \cup W
    /\ \A q \in Procs :
          /\ state'[q] = IF q \in W THEN "RUNNABLE"
                         ELSE IF q = p THEN "ZOMBIE" ELSE state[q]
          /\ wait_state'[q] = IF q \in W THEN "0" ELSE wait_state[q]

(* Whom do_exit wakes: the parent or init, neither of which is RUNNABLE. *)
LEMMA ExitWakes ==
    ASSUME SchedInv, NEW p \in Users, p = current, ~switching,
           at[p] \in {"user", "trapret", "wait"}, do_exit(p)
    PROVE  \E W \in SUBSET Procs : ExitEffect(p, W)
<1>0. /\ state \in [Procs -> States] /\ runq \in Seq(Procs) /\ IsInjective(runq)
      /\ p \in Procs /\ TypeOK
  BY Distinct DEF SchedInv, TypeOK, RunQueueExact
<1>1. parent[p] \in Procs
  BY UserOnCpu, Distinct
<1> DEFINE A == {q \in {parent[p]} : WakesParent(p)}
           B == {q \in {Init1} : WakesInit(p)}
           wp == WakeIf(parent[p], WakesParent(p))
           wi == WakeIf(Init1, WakesInit(p))
           st == [state EXCEPT ![p] = "ZOMBIE"]
<1>2. \A q \in A \cup B : q \in Procs /\ wait_state[q] = "WT_CHILD"
  BY <1>1, Distinct DEF WakesParent, WakesInit
<1>3. \A q \in A \cup B : state[q] = "SLEEPING" /\ q \notin ToSet(runq)
  BY <1>2 DEF SchedInv, SleepReason, RunQueueExact
<1>4. wp \in Seq(Procs) /\ IsInjective(wp) /\ ToSet(wp) = A
  <2>1. /\ wp \in Seq(Procs) /\ IsInjective(wp)
        /\ ToSet(wp) = {q \in {parent[p]} : WakesParent(p) /\ state[parent[p]] # "RUNNABLE"}
    BY <1>1, WakeIfList
  <2> QED BY <2>1, <1>3
<1>5. wi \in Seq(Procs) /\ IsInjective(wi) /\ ToSet(wi) = B
  <2>1. /\ wi \in Seq(Procs) /\ IsInjective(wi)
        /\ ToSet(wi) = {q \in {Init1} : WakesInit(p) /\ state[Init1] # "RUNNABLE"}
    BY Distinct, WakeIfList
  <2> QED BY <2>1, <1>3
<1>6. A \cap B = {}
  BY DEF WakesInit
<1> DEFINE ws == wp \o wi
           W == A \cup B
<1> HIDE DEF wp, wi, st
<1>7. ws \in Seq(Procs) /\ IsInjective(ws) /\ ToSet(ws) = W
  BY <1>4, <1>5, <1>6, ConcatSet, ConcatNoDup
<1>8. wakeup_proc(ws, st)
  BY DEF do_exit, wp, wi, st
<1>9. st \in [Procs -> States] /\ \A q \in Procs : st[q] = IF q = p THEN "ZOMBIE" ELSE state[q]
  BY <1>0 DEF States, st
<1>10. ToSet(runq) \cap W = {}
  BY <1>3
<1>11. W \in SUBSET Procs /\ \A q \in W : state[q] = "SLEEPING" /\ wait_state[q] = "WT_CHILD"
  BY <1>2, <1>3
<1>12. W = {q \in {parent[p]} : WakesParent(p)} \cup {q \in {Init1} : WakesInit(p)}
  OBVIOUS
<1> HIDE DEF A, B, W, ws
<1>13. /\ state' \in [Procs -> States]
       /\ wait_state' \in [Procs -> WaitStates]
       /\ runq' \in Seq(Procs)
       /\ time_slice' \in [Procs -> 0..MAX_TIME_SLICE]
       /\ IsInjective(runq')
       /\ ToSet(runq') = ToSet(runq) \cup W
       /\ \A q \in Procs :
             /\ state'[q] = IF q \in W THEN "RUNNABLE" ELSE st[q]
             /\ wait_state'[q] = IF q \in W THEN "0" ELSE wait_state[q]
  BY <1>0, <1>7, <1>8, <1>9, <1>10, WakeupEffect
<1>14. \A q \in Procs :
          /\ state'[q] = IF q \in W THEN "RUNNABLE" ELSE IF q = p THEN "ZOMBIE" ELSE state[q]
          /\ wait_state'[q] = IF q \in W THEN "0" ELSE wait_state[q]
  BY <1>9, <1>13
<1>15. ExitEffect(p, W)
  BY <1>11, <1>12, <1>13, <1>14 DEF ExitEffect
<1> QED BY <1>11, <1>15

(* do_exit. *)
LEMMA SchedExit ==
    ASSUME SchedInv, NEW p \in Users, p = current, ~switching,
           at[p] \in {"user", "trapret", "wait"}, do_exit(p)
    PROVE  SchedInv'
<1>0. /\ at \in [Procs -> Points] /\ left \in [Procs -> 0..MaxSleep]
      /\ state \in [Procs -> States] /\ wait_state \in [Procs -> WaitStates]
      /\ current \in Procs /\ parent \in [Procs -> Procs \cup {None}]
      /\ kids \in [Procs -> Seq(Procs)] /\ p \in Procs
      /\ p # Idle /\ p # Init1 /\ Idle # Init1 /\ Init1 \in Procs /\ Idle \in Procs
  BY Distinct DEF SchedInv, TypeOK
<1>1. /\ state[p] = "RUNNABLE" /\ wait_state[p] = "0" /\ p \notin ToSet(runq)
  BY UserOnCpu, <1>0
<1>2. PICK W \in SUBSET Procs : ExitEffect(p, W)
  BY ExitWakes
<1>3. /\ parent' = Reparent(p)
      /\ kids' = [kids EXCEPT ![Init1] = Reverse(kids[p]) \o @, ![p] = <<>>]
      /\ at' = [at EXCEPT ![p] = "dead"]
      /\ switching' = TRUE
      /\ UNCHANGED <<current, exiting, need_resched, left, wpid, halted>>
  BY DEF do_exit
<1>4. p \notin W /\ Idle \notin W
  BY <1>0, <1>1, <1>2 DEF SchedInv, Where, ExitEffect
<1>5. TypeOK'
  <2>1. Reverse(kids[p]) \in Seq(Procs) /\ kids[Init1] \in Seq(Procs)
    BY <1>0, ReverseSet
  <2>2. Reverse(kids[p]) \o kids[Init1] \in Seq(Procs) /\ <<>> \in Seq(Procs)
    BY <2>1, ConcatSet, EmptyList
  <2>3. kids' \in [Procs -> Seq(Procs)]
    BY <1>0, <1>3, <2>2
  <2>4. parent' \in [Procs -> Procs \cup {None}] /\ at' \in [Procs -> Points]
    BY <1>0, <1>3 DEF Reparent, Points
  <2> QED BY <1>2, <1>3, <2>3, <2>4 DEF SchedInv, TypeOK, ExitEffect
<1>6. RunQueueExact' /\ CurrentRunnable'
  <2>1. \A q \in Procs : q \in ToSet(runq') <=>
          state'[q] = "RUNNABLE" /\ q # current /\ q # Idle
    BY <1>0, <1>1, <1>2, <1>4 DEF SchedInv, RunQueueExact, ExitEffect
  <2> QED BY <1>2, <1>3, <2>1 DEF RunQueueExact, CurrentRunnable, ExitEffect
<1>7. SleepReason'
  BY <1>0, <1>1, <1>2, <1>4 DEF SchedInv, SleepReason, ExitEffect
<1>8. HasParent'
  <2>1. \A q \in Procs : state'[q] # "UNUSED" => state[q] # "UNUSED"
    BY <1>1, <1>2 DEF ExitEffect
  <2> QED BY <1>0, <1>3, <2>1 DEF SchedInv, HasParent, Reparent
<1>9. Where'
  <2>1. \A q \in Procs : state'[q] \in {"UNUSED", "ZOMBIE"} <=>
                            q = p \/ state[q] \in {"UNUSED", "ZOMBIE"}
    BY <1>0, <1>1, <1>2, <1>4 DEF ExitEffect
  <2>2. state'[Idle] = "RUNNABLE"
    BY <1>0, <1>2, <1>4 DEF SchedInv, Where, ExitEffect
  <2> QED BY <1>0, <1>3, <2>1, <2>2, Distinct DEF SchedInv, Where
<1>10. TimerOwned'
  <2> SUFFICES ASSUME NEW q \in Procs
               PROVE  /\ left'[q] > 0 => Live(q)' /\ at'[q] = "sleep"
                      /\ state'[q] = "SLEEPING" /\ wait_state'[q] = "WT_TIMER" => left'[q] > 0
    BY DEF TimerOwned
  <2>1. left[q] > 0 => q # p /\ q \in Procs /\ Live(q) /\ at[q] = "sleep"
    BY <1>0 DEF SchedInv, TimerOwned
  <2>2. left[q] > 0 => Live(q)'
    BY <1>2, <2>1 DEF Live, ExitEffect
  <2>3. state'[q] = "SLEEPING" /\ wait_state'[q] = "WT_TIMER" => left[q] > 0
    BY <1>1, <1>2, <1>4 DEF SchedInv, TimerOwned, ExitEffect
  <2> QED BY <1>0, <1>3, <2>1, <2>2, <2>3
<1> QED BY <1>5, <1>6, <1>7, <1>8, <1>9, <1>10 DEF SchedInv

(* do_kill. *)
LEMMA SchedKill == ASSUME SchedInv, sys_kill PROVE SchedInv'
<1>0. /\ at \in [Procs -> Points] /\ left \in [Procs -> 0..MaxSleep]
      /\ state \in [Procs -> States] /\ wait_state \in [Procs -> WaitStates]
      /\ current \in Procs /\ runq \in Seq(Procs) /\ IsInjective(runq) /\ TypeOK
      /\ exiting \in [Procs -> BOOLEAN]
  BY DEF SchedInv, TypeOK, RunQueueExact
<1>1. /\ ~switching /\ at[current] = "user"
      /\ at' = [at EXCEPT ![current] = "trapret"]
      /\ UNCHANGED <<current, switching, parent, kids, need_resched, left, wpid, halted>>
  BY DEF sys_kill, Running
<1>2. PICK p \in Procs \ {Idle} :
         /\ exiting' = [exiting EXCEPT ![p] = TRUE]
         /\ wakeup_proc(WakeIf(p, WakesVictim(p)), state)
  BY DEF sys_kill
<1>3. /\ current \in Users /\ current # Idle /\ current # Init1
      /\ state[current] = "RUNNABLE" /\ wait_state[current] = "0"
  BY <1>1, UserOnCpu
<1> DEFINE ws == WakeIf(p, WakesVictim(p))
           W == {q \in {p} : WakesVictim(p)}
<1>4. \A q \in W : q \in Procs /\ state[q] = "SLEEPING" /\ q \notin ToSet(runq)
  BY DEF SchedInv, SleepReason, RunQueueExact, WakesVictim, WT_INTERRUPTED
<1>5. ws \in Seq(Procs) /\ IsInjective(ws) /\ ToSet(ws) = W
  <2>1. /\ ws \in Seq(Procs) /\ IsInjective(ws)
        /\ ToSet(ws) = {q \in {p} : WakesVictim(p) /\ state[p] # "RUNNABLE"}
    BY WakeIfList
  <2> QED BY <2>1, <1>4
<1>6. ToSet(runq) \cap W = {} /\ W \subseteq Procs /\ current \notin W /\ Idle \notin W
  BY <1>3, <1>4
<1> HIDE DEF W, ws
<1>8. /\ state' \in [Procs -> States]
      /\ wait_state' \in [Procs -> WaitStates]
      /\ runq' \in Seq(Procs)
      /\ time_slice' \in [Procs -> 0..MAX_TIME_SLICE]
      /\ IsInjective(runq')
      /\ ToSet(runq') = ToSet(runq) \cup W
      /\ \A q \in Procs :
            /\ state'[q] = IF q \in W THEN "RUNNABLE" ELSE state[q]
            /\ wait_state'[q] = IF q \in W THEN "0" ELSE wait_state[q]
  <2>1. wakeup_proc(ws, state)
    BY <1>2 DEF ws
  <2> QED BY <1>0, <1>5, <1>6, <2>1, WakeupEffect
<1>9. TypeOK'
  <2>1. exiting' \in [Procs -> BOOLEAN] /\ at' \in [Procs -> Points]
    BY <1>0, <1>1, <1>2 DEF Points
  <2> QED BY <1>1, <1>8, <2>1 DEF SchedInv, TypeOK
<1>10. RunQueueExact' /\ CurrentRunnable'
  <2>1. \A q \in Procs : q \in ToSet(runq') <=>
          state'[q] = "RUNNABLE" /\ q # current /\ q # Idle
    BY <1>4, <1>6, <1>8 DEF SchedInv, RunQueueExact
  <2>2. state'[current] = "RUNNABLE"
    BY <1>0, <1>3, <1>8
  <2> QED BY <1>1, <1>8, <2>1, <2>2 DEF RunQueueExact, CurrentRunnable
<1>11. SleepReason' /\ HasParent'
  BY <1>1, <1>4, <1>6, <1>8 DEF SchedInv, SleepReason, HasParent
<1>12. Where'
  <2>1. \A q \in Procs : state'[q] \in {"UNUSED", "ZOMBIE"} <=> state[q] \in {"UNUSED", "ZOMBIE"}
    BY <1>4, <1>8
  <2>2. state'[Idle] = "RUNNABLE"
    BY <1>6, <1>8, Distinct DEF SchedInv, Where
  <2> QED BY <1>0, <1>1, <1>3, <2>1, <2>2, Distinct DEF SchedInv, Where
<1>13. TimerOwned'
  <2>1. \A q \in Procs : Live(q) => Live(q)'
    BY <1>8 DEF Live
  <2>2. \A q \in Procs : at[q] = "sleep" => at'[q] = "sleep"
    BY <1>0, <1>1
  <2>3. \A q \in Procs : state'[q] = "SLEEPING" /\ wait_state'[q] = "WT_TIMER" =>
                            state[q] = "SLEEPING" /\ wait_state[q] = "WT_TIMER"
    BY <1>8
  <2> QED BY <1>1, <2>1, <2>2, <2>3 DEF SchedInv, TimerOwned
<1> QED BY <1>9, <1>10, <1>11, <1>12, <1>13 DEF SchedInv

(* The timer interrupt. *)
LEMMA SchedTimer == ASSUME SchedInv, run_timer_list PROVE SchedInv'
<1> DEFINE W == TimerWakes
           used == IF current # Idle /\ time_slice[current] > 0
                   THEN time_slice[current] - 1 ELSE time_slice[current]
<1>0. /\ at \in [Procs -> Points] /\ left \in [Procs -> 0..MaxSleep]
      /\ state \in [Procs -> States] /\ wait_state \in [Procs -> WaitStates]
      /\ current \in Procs /\ runq \in Seq(Procs) /\ IsInjective(runq) /\ TypeOK
      /\ time_slice \in [Procs -> 0..MAX_TIME_SLICE]
      /\ need_resched \in [Procs -> BOOLEAN]
  BY DEF SchedInv, TypeOK, RunQueueExact
<1>1. /\ IntrEnabled
      /\ left' = [p \in Procs |-> IF left[p] > 0 THEN left[p] - 1 ELSE 0]
      /\ \E ws \in Orderings(W) :
            /\ state' = Woken(state, ws)
            /\ wait_state' = [p \in Procs |-> IF p \in W THEN "0" ELSE wait_state[p]]
            /\ runq' = runq \o ws
      /\ time_slice' = [Enqueued(time_slice, W) EXCEPT ![current] = used]
      /\ need_resched' = [need_resched EXCEPT ![current] = @ \/ SliceOver(current, used)]
      /\ at' = [at EXCEPT ![current] = IF InUserMode THEN "trapret" ELSE @]
      /\ UNCHANGED <<current, switching, exiting, parent, kids, wpid, halted>>
  BY Zenon DEF run_timer_list
<1>2. \A q \in W : /\ q \in Procs /\ left[q] = 1 /\ at[q] = "sleep"
                    /\ state[q] = "SLEEPING" /\ q \notin ToSet(runq)
  <2>1. \A q \in W : q \in Procs /\ left[q] = 1 /\ state[q] # "RUNNABLE"
    BY DEF TimerWakes, Expired
  <2>2. \A q \in W : Live(q) /\ at[q] = "sleep"
    BY <2>1 DEF SchedInv, TimerOwned
  <2> QED BY <2>1, <2>2 DEF Live, SchedInv, RunQueueExact
<1>3. /\ current \notin W /\ Idle \notin W /\ W \subseteq Procs
  BY <1>1, <1>2, Distinct
     DEF IntrEnabled, InUserMode, SchedInv, CurrentRunnable, Where
<1> HIDE DEF W, used
<1>4. PICK ws \in Orderings(W) :
            /\ state' = Woken(state, ws)
            /\ wait_state' = [p \in Procs |-> IF p \in W THEN "0" ELSE wait_state[p]]
            /\ runq' = runq \o ws
  BY <1>1
<1>5. ws \in Seq(Procs) /\ IsInjective(ws) /\ ToSet(ws) = W
  <2>1. W \subseteq Users
    BY <1>2, <1>3, Distinct DEF SchedInv, Where
  <2>2. IsFiniteSet(W)
    BY <2>1, ProcessAssumption, FS_Subset
  <2>3. Cardinality(W) \in Nat
    BY <2>2, FS_CardinalityType
  <2>4. ws \in [1..Cardinality(W) -> Procs]
    BY <1>3 DEF Orderings
  <2>5. ws \in Seq(Procs)
    BY <2>3, <2>4
  <2> QED BY <2>5 DEF Orderings
<1>6. /\ runq' \in Seq(Procs) /\ IsInjective(runq')
      /\ ToSet(runq') = ToSet(runq) \cup W
  <2>1. ToSet(runq) \cap ToSet(ws) = {}
    BY <1>2, <1>5
  <2> QED BY <1>0, <1>4, <1>5, <2>1, ConcatSet, ConcatNoDup
<1>7. /\ state' \in [Procs -> States] /\ wait_state' \in [Procs -> WaitStates]
      /\ \A q \in Procs :
            /\ state'[q] = IF q \in W THEN "RUNNABLE" ELSE state[q]
            /\ wait_state'[q] = IF q \in W THEN "0" ELSE wait_state[q]
  BY <1>0, <1>4, <1>5 DEF Woken, States, WaitStates
<1>8. left' \in [Procs -> 0..MaxSleep]
  BY <1>0, <1>1, ProcessAssumption
<1>9. time_slice' \in [Procs -> 0..MAX_TIME_SLICE]
  <2>1. used \in 0..MAX_TIME_SLICE
    BY <1>0, ProcessAssumption DEF used
  <2>2. Enqueued(time_slice, W) \in [Procs -> 0..MAX_TIME_SLICE]
    BY <1>0, EnqueuedType
  <2> QED BY <1>1, <2>1, <2>2
<1>10. TypeOK'
  <2>1. need_resched' \in [Procs -> BOOLEAN]
    <3>1. (need_resched[current] \/ SliceOver(current, used)) \in BOOLEAN
      BY Zenon
    <3> QED BY <1>0, <1>1, <3>1
  <2>2. at' \in [Procs -> Points]
    BY <1>0, <1>1 DEF Points
  <2> QED BY <1>1, <1>6, <1>7, <1>8, <1>9, <2>1, <2>2 DEF SchedInv, TypeOK
<1>11. RunQueueExact' /\ CurrentRunnable'
  <2>1. \A q \in Procs : q \in ToSet(runq') <=>
          state'[q] = "RUNNABLE" /\ q # current /\ q # Idle
    BY <1>2, <1>3, <1>6, <1>7 DEF SchedInv, RunQueueExact
  <2>2. ~switching => state'[current] = "RUNNABLE"
    BY <1>0, <1>7 DEF SchedInv, CurrentRunnable
  <2> QED BY <1>1, <1>6, <2>1, <2>2 DEF RunQueueExact, CurrentRunnable
<1>12. SleepReason' /\ HasParent'
  BY <1>1, <1>2, <1>7 DEF SchedInv, SleepReason, HasParent
<1>13. \A q \in Procs : at'[q] = at[q] \/ (at[q] = "user" /\ at'[q] = "trapret")
  <2>1. PICK point : /\ at' = [at EXCEPT ![current] = point]
                     /\ point = at[current] \/ (at[current] = "user" /\ point = "trapret")
    BY <1>1, Zenon DEF InUserMode
  <2>2. at \in [Procs -> Points] /\ current \in Procs
    BY <1>0
  <2> QED BY <2>1, <2>2
<1>14. Where'
  <2>1. \A q \in Procs : state'[q] \in {"UNUSED", "ZOMBIE"} <=> state[q] \in {"UNUSED", "ZOMBIE"}
    BY <1>2, <1>7
  <2>2. state'[Idle] = "RUNNABLE"
    BY <1>3, <1>7, Distinct DEF SchedInv, Where
  <2> QED BY <1>13, <2>1, <2>2, Distinct DEF SchedInv, Where
<1>15. TimerOwned'
  <2> SUFFICES ASSUME NEW q \in Procs
               PROVE  /\ left'[q] > 0 => Live(q)' /\ at'[q] = "sleep"
                      /\ state'[q] = "SLEEPING" /\ wait_state'[q] = "WT_TIMER" => left'[q] > 0
    BY DEF TimerOwned
  <2>1. left'[q] > 0 => left[q] > 0
    BY <1>0, <1>1
  <2>2. left[q] > 0 => Live(q) /\ at[q] = "sleep"
    BY DEF SchedInv, TimerOwned
  <2>3. Live(q) => Live(q)'
    BY <1>7 DEF Live
  <2>4. at[q] = "sleep" => at'[q] = "sleep"
    BY <1>13
  <2>5. ASSUME state'[q] = "SLEEPING", wait_state'[q] = "WT_TIMER" PROVE left'[q] > 0
    <3>1. q \notin W /\ state[q] = "SLEEPING" /\ wait_state[q] = "WT_TIMER"
      BY <1>7, <2>5
    <3>2. left[q] > 0 /\ left[q] # 1
      BY <3>1 DEF SchedInv, TimerOwned, W, TimerWakes, Expired
    <3> QED BY <1>0, <1>1, <3>2
  <2> QED BY <2>1, <2>2, <2>3, <2>4, <2>5
<1> QED BY <1>10, <1>11, <1>12, <1>14, <1>15 DEF SchedInv

(* do_wait of a system call, from its start or from "repeat". *)
LEMMA SchedWait ==
    ASSUME SchedInv, ~switching, halted = "no",
           at[current] = "user" \/ (at[current] = "wait" /\ current # Init1),
           NEW pid \in Procs \cup {AnyPid}, do_wait(pid)
    PROVE  SchedInv'
<1>0. switching \in BOOLEAN /\ need_resched \in [Procs -> BOOLEAN]
  BY DEF SchedInv, TypeOK
<1>1. CASE /\ wait_found(current, pid) /\ UNCHANGED switching
           /\ at' = [at EXCEPT ![current] = "trapret"]
  BY <1>0, <1>1, SchedFound
<1>2. CASE wait_block(current, pid)
  BY <1>2, SchedBlock DEF Running
<1>3. CASE /\ at' = [at EXCEPT ![current] = "trapret"]
           /\ UNCHANGED <<current, switching, state, wait_state, exiting, parent, kids,
                          runq, time_slice, need_resched, left, wpid, halted>>
  BY <1>0, <1>3, SchedUserMove
<1> QED BY <1>1, <1>2, <1>3 DEF do_wait

(* do_wait of init_main. *)
LEMMA SchedInitWait ==
    ASSUME SchedInv, ~switching, halted = "no", current = Init1,
           at[Init1] \in {"reap", "wait"}, init_wait
    PROVE  SchedInv'
<1>1. CASE /\ wait_found(current, AnyPid) /\ switching' = TRUE
           /\ at' = [at EXCEPT ![current] = "reap"]
  BY <1>1, SchedFound
<1>2. CASE wait_block(current, AnyPid)
  BY <1>2, SchedBlock DEF Running
<1>3. CASE /\ halted' = "shutdown"
           /\ UNCHANGED <<current, switching, state, wait_state, exiting, parent, kids,
                          runq, time_slice, need_resched, left, at, wpid>>
  <2>1. Where' /\ TimerOwned'
    BY <1>3 DEF SchedInv, Where, TimerOwned, Live
  <2>2. /\ at' \in [Procs -> Points] /\ switching' \in BOOLEAN
        /\ need_resched' \in [Procs -> BOOLEAN] /\ left' \in [Procs -> 0..MaxSleep]
    BY <1>3 DEF SchedInv, TypeOK
  <2> QED BY <1>3, <2>1, <2>2, SchedMove
<1> QED BY <1>1, <1>2, <1>3 DEF init_wait

(* Every step of the kernel preserves the scheduling invariant. *)
LEMMA SchedNext == SchedInv /\ [Next]_vars => SchedInv'
<1> SUFFICES ASSUME SchedInv, [Next]_vars PROVE SchedInv'
  OBVIOUS
<1>0. wpid[current] \in Procs \cup {AnyPid} /\ current \in Procs
  BY DEF SchedInv, TypeOK
<1>1. CASE schedule
  BY <1>1, SchedSchedule
<1>2. CASE cpu_idle \/ sys_noop \/ sys_yield \/ sleep_resume
  BY <1>2, SchedSimple
<1>3. CASE sys_exit
  BY <1>3, SchedExit, UserOnCpu DEF sys_exit, Running
<1>4. CASE trap_return
  <2>1. CASE exiting[current]
    BY <1>4, <2>1, SchedExit, UserOnCpu DEF trap_return, Running
  <2>2. CASE ~exiting[current]
    BY <1>4, <2>2, SchedSimple
  <2> QED BY <2>1, <2>2
<1>5. CASE sys_fork
  BY <1>5, SchedFork DEF sys_fork, Running
<1>6. CASE init_main
  BY <1>6, SchedFork DEF init_main, Running
<1>7. CASE sys_wait
  <2>1. PICK pid \in Procs \cup {AnyPid} : do_wait(pid)
    BY <1>7 DEF sys_wait
  <2> QED BY <1>7, <2>1, SchedWait DEF sys_wait, Running
<1>8. CASE wait_resume
  <2>1. CASE exiting[current]
    BY <1>8, <2>1, SchedExit, UserOnCpu DEF wait_resume, Running
  <2>2. CASE ~exiting[current]
    BY <1>0, <1>8, <2>2, SchedWait DEF wait_resume, Running
  <2> QED BY <2>1, <2>2
<1>9. CASE init_reap
  <2>1. current = Init1
    BY <1>0, <1>9, Distinct DEF init_reap, Running, SchedInv, Where
  <2> QED BY <1>9, <2>1, SchedInitWait DEF init_reap, Running
<1>10. CASE init_resume
  <2>1. CASE exiting[Init1]
    BY <1>10, <2>1, SchedSimple DEF init_resume
  <2>2. CASE ~exiting[Init1]
    BY <1>10, <2>2, SchedInitWait DEF init_resume, Running
  <2> QED BY <2>1, <2>2
<1>11. CASE sys_kill
  BY <1>11, SchedKill
<1>12. CASE sys_sleep
  BY <1>12, SchedBlock DEF sys_sleep
<1>13. CASE run_timer_list
  BY <1>13, SchedTimer
<1>14. CASE UNCHANGED vars
  BY <1>14 DEF vars, SchedInv, TypeOK, RunQueueExact, CurrentRunnable, SleepReason,
               Where, HasParent, TimerOwned, Live
<1>15. CASE stopped
  BY <1>14, <1>15 DEF stopped
<1> QED BY <1>1, <1>2, <1>3, <1>4, <1>5, <1>6, <1>7, <1>8, <1>9, <1>10, <1>11,
           <1>12, <1>13, <1>14, <1>15 DEF Next, Syscall, Kernel

(* proc.c, sched.c and default_sched.c keep the scheduling invariant for any
   number of processes. *)
THEOREM SchedInvariant == Spec => []SchedInv
BY SchedInit, SchedNext, PTL DEF Spec

(* The variables always have their types; in particular RR_enqueue and
   RR_proc_tick keep proc->time_slice between 0 and max_time_slice. *)
THEOREM TypeCorrect == Spec => []TypeOK
<1>1. SchedInv => TypeOK
  BY DEF SchedInv
<1> QED BY <1>1, SchedInvariant, PTL

(* wakeup_proc, schedule and the timer never enqueue a process twice, and no
   RUNNABLE process is missing from the run queue. *)
THEOREM RunQueueCorrect == Spec => []RunQueueExact
<1>1. SchedInv => RunQueueExact
  BY DEF SchedInv
<1> QED BY <1>1, SchedInvariant, PTL

(* A timer of do_sleep never outlives the call, killed sleepers included. *)
THEOREM TimerCorrect == Spec => []TimerOwned
<1>1. SchedInv => TimerOwned
  BY DEF SchedInv
<1> QED BY <1>1, SchedInvariant, PTL
=============================================================================
