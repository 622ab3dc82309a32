------------------------------ MODULE TicksLeft ------------------------------
(***************************************************************************)
(* The timers of do_sleep as module Process uses them: for each process    *)
(* the number of ticks left, 0 for none.                                   *)
(***************************************************************************)
EXTENDS Naturals

CONSTANTS Procs, MaxSleep

VARIABLE left

Init == left = [p \in Procs |-> 0]

Set(p, time) == left[p] = 0 /\ left' = [left EXCEPT ![p] = time]

Cancel(p) == left' = [left EXCEPT ![p] = 0]

Tick == left' = [p \in Procs |-> IF left[p] > 0 THEN left[p] - 1 ELSE 0]

Next ==
    \/ \E p \in Procs, time \in 1..MaxSleep : Set(p, time)
    \/ \E p \in Procs : Cancel(p)
    \/ Tick

Spec == Init /\ [][Next]_left
=============================================================================
