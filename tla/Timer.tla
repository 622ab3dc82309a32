-------------------------------- MODULE Timer --------------------------------
(***************************************************************************)
(* The timer list of kern/schedule/sched.c and its use by do_sleep: a list *)
(* ordered by deadline in which each entry holds the ticks that it expires *)
(* after its predecessor.                                                  *)
(*                                                                         *)
(* TicksLeft keeps the ticks of each sleeper apart; PROPERTY LeftSpec says *)
(* that the differences implement it.                                      *)
(***************************************************************************)
EXTENDS Naturals, FiniteSets, SequencesExt

CONSTANTS Procs, MaxSleep

ASSUME TimerAssumption == MaxSleep \in Nat \ {0}

VARIABLES
    timer_list,   \* from its head: [proc, expires]
    where         \* per process: "out" of do_sleep, "asleep" in it, or "woken"

vars == <<timer_list, where>>

Timers == [proc : Procs, expires : 0..MaxSleep]

TypeOK ==
    /\ timer_list \in Seq(Timers)
    /\ where \in [Procs -> {"out", "asleep", "woken"}]

Init == timer_list = <<>> /\ where = [p \in Procs |-> "out"]

(* The ticks until the i-th timer expires. *)
Due(i) ==
    LET due[n \in 0..Len(timer_list)] ==
          IF n = 0 THEN 0 ELSE due[n - 1] + timer_list[n].expires
    IN due[i]

-----------------------------------------------------------------------------
(* The loop of add_timer passes the timers that are due by then.  The new one
   keeps what is left, and its successor the rest. *)
Passed(i, time) == Due(i) <= time

(* `next->expires -= timer->expires', for the timer after the new one *)
Shortened_bug(t, time) == t
Shortened(t, time) == [t EXCEPT !.expires = @ - time]

add_timer(p, time) ==
    LET n    == CHOOSE n \in 0..Len(timer_list) :
                  /\ \A i \in 1..n : Passed(i, time)
                  /\ n < Len(timer_list) => ~Passed(n + 1, time)
        rest == time - Due(n)
    IN timer_list' =
         SubSeq(timer_list, 1, n) \o <<[proc |-> p, expires |-> rest]>> \o
         [i \in 1..(Len(timer_list) - n) |->
            IF i = 1 THEN Shortened(timer_list[n + 1], rest) ELSE timer_list[n + i]]

(* del_timer hands the ticks of the timer to its successor. *)
Lengthened_bug(t, time) == t
Lengthened(t, time) == [t EXCEPT !.expires = @ + time]

del_timer_bug(p) == UNCHANGED timer_list
del_timer(p) ==
    \/ /\ \A i \in DOMAIN timer_list : timer_list[i].proc # p
       /\ UNCHANGED timer_list
    \/ \E i \in DOMAIN timer_list :
         /\ timer_list[i].proc = p
         /\ timer_list' =
              [j \in 1..(Len(timer_list) - 1) |->
                 IF j < i THEN timer_list[j]
                 ELSE IF j = i THEN Lengthened(timer_list[i + 1], timer_list[i].expires)
                 ELSE timer_list[j + 1]]

-----------------------------------------------------------------------------
do_sleep(p) ==
    /\ where[p] = "out"
    /\ where' = [where EXCEPT ![p] = "asleep"]
    /\ \E time \in 1..MaxSleep : add_timer(p, time)

(* do_kill ends the sleep before the timer expires. *)
do_kill(p) ==
    /\ where[p] = "asleep"
    /\ where' = [where EXCEPT ![p] = "woken"]
    /\ UNCHANGED timer_list

(* The return of schedule() in do_sleep. *)
resume(p) ==
    /\ where[p] = "woken"
    /\ where' = [where EXCEPT ![p] = "out"]
    /\ del_timer(p)

(* The loop of run_timer_list takes the timers at the head that are due now. *)
DueNow_bug(i) == i = 1 /\ Due(i) = 1
DueNow(i) == Due(i) = 1

run_timer_list ==
    LET now  == {i \in DOMAIN timer_list : DueNow(i)}
        n    == Cardinality(now)
        rest == SubSeq(timer_list, n + 1, Len(timer_list))
    IN /\ timer_list' = IF n = 0 /\ rest # <<>> THEN [rest EXCEPT ![1].expires = @ - 1] ELSE rest
       /\ where' = [p \in Procs |-> IF \E i \in now : timer_list[i].proc = p
                                    THEN "woken" ELSE where[p]]

Next ==
    \/ \E p \in Procs : do_sleep(p) \/ do_kill(p) \/ resume(p)
    \/ run_timer_list

Spec == Init /\ [][Next]_vars

-----------------------------------------------------------------------------
(* `assert(timer->expires != 0)' in run_timer_list: a timer is never at the head
   with no ticks left, though timers with the same deadline have none between
   them and the ones before them may be deleted. *)
HeadNotDue == timer_list # <<>> => timer_list[1].expires # 0

(* A process has one timer in the list while it sleeps, and none once it has left
   do_sleep: the timer is a variable on its stack. *)
OneTimer ==
    /\ \A i, j \in DOMAIN timer_list :
         timer_list[i].proc = timer_list[j].proc => i = j
    /\ \A p \in Procs :
         /\ where[p] = "asleep" => \E i \in DOMAIN timer_list : timer_list[i].proc = p
         /\ where[p] = "out" => \A i \in DOMAIN timer_list : timer_list[i].proc # p

(* Every sleeper is woken at its own tick, whatever timers are added and deleted
   around it. *)
Left(p) ==
    IF \E i \in DOMAIN timer_list : timer_list[i].proc = p
    THEN Due(CHOOSE i \in DOMAIN timer_list : timer_list[i].proc = p) ELSE 0

Ticks == INSTANCE TicksLeft WITH left <- [p \in Procs |-> Left(p)]
LeftSpec == Ticks!Spec
=============================================================================
