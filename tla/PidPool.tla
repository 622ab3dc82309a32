------------------------------ MODULE PidPool ------------------------------
(***************************************************************************)
(* What get_pid promises do_fork: a pid between 1 and MAX_PID - 1 that no  *)
(* process has.  This is the choice that sys_fork of module Process makes. *)
(***************************************************************************)
EXTENDS Integers

CONSTANT MAX_PID

VARIABLES
    used,       \* the pids of the processes in proc_list
    nr          \* the number of processes, idle included

Pids == 1..(MAX_PID - 1)

Init == used = {} /\ nr = 1

Alloc == \E pid \in Pids \ used : used' = used \cup {pid} /\ nr' = nr + 1

Free == \E pid \in used : used' = used \ {pid} /\ nr' = nr - 1

Spec == Init /\ [][Alloc \/ Free]_<<used, nr>>
=============================================================================
