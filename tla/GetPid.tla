------------------------------- MODULE GetPid -------------------------------
(***************************************************************************)
(* get_pid of kern/process/proc.c, with the two static variables it keeps  *)
(* between calls, as do_fork and do_wait use it: do_fork links a process   *)
(* with the pid it returned at the head of proc_list (set_links), do_wait  *)
(* unlinks a process that was reaped (remove_links).  A call runs with     *)
(* interrupts off, so nothing happens between its steps.                   *)
(***************************************************************************)
EXTENDS Naturals, SequencesExt

CONSTANTS MAX_PROCESS, MAX_PID

(* The static_assert of get_pid. *)
ASSUME GetPidAssumption ==
    MAX_PROCESS \in Nat /\ MAX_PID \in Nat /\ MAX_PID > MAX_PROCESS /\ MAX_PROCESS > 1

VARIABLES
    plist,      \* the pids of the processes in proc_list, from its head
    last_pid, next_safe,
    pc,         \* "out" of get_pid, in its "scan" loop, or about to "link"
    seen        \* how many entries of proc_list the loop has looked at

vars == <<plist, last_pid, next_safe, pc, seen>>

TypeOK ==
    /\ plist \in Seq(1..(MAX_PID - 1))
    /\ last_pid \in 1..MAX_PID
    /\ next_safe \in 1..MAX_PID
    /\ pc \in {"out", "scan", "link"}
    /\ seen \in 0..Len(plist)

Init ==
    /\ plist = <<>>
    /\ last_pid = MAX_PID
    /\ next_safe = MAX_PID
    /\ pc = "out"
    /\ seen = 0

(* nr_process counts idle, which is not in proc_list. *)
nr_process == Len(plist) + 1

(* The label "inside": scan proc_list for the next unused pid. *)
inside(pid) ==
    /\ last_pid' = pid
    /\ next_safe' = MAX_PID
    /\ pc' = "scan"
    /\ seen' = 0

(* do_fork calls get_pid.  Below next_safe no pid is in use. *)
Safe_bug(pid) == pid <= next_safe
Safe(pid) == pid < next_safe

get_pid ==
    LET next == last_pid + 1
    IN /\ pc = "out"
       /\ nr_process < MAX_PROCESS
       /\ \/ next >= MAX_PID /\ inside(1)
          \/ next < MAX_PID /\ ~Safe(next) /\ inside(next)
          \/ /\ next < MAX_PID /\ Safe(next)
             /\ last_pid' = next
             /\ pc' = "link"
             /\ UNCHANGED <<next_safe, seen>>
       /\ UNCHANGED plist

(* One turn of the loop, at the process with pid. *)
Bound_bug(pid) == IF pid > last_pid THEN pid ELSE next_safe
Bound(pid) == IF pid > last_pid /\ next_safe > pid THEN pid ELSE next_safe

Wrap_off(pid) == pid
Wrap_bug(pid) == 1
Wrap(pid) == IF pid >= MAX_PID THEN 1 ELSE pid

scan ==
    LET pid == plist[seen + 1]
    IN /\ pc = "scan" /\ seen < Len(plist)
       /\ \/ /\ pid = last_pid /\ last_pid + 1 >= next_safe
             /\ inside(Wrap(last_pid + 1))
          \/ /\ pid = last_pid /\ last_pid + 1 < next_safe
             /\ last_pid' = last_pid + 1
             /\ seen' = seen + 1
             /\ UNCHANGED <<next_safe, pc>>
          \/ /\ pid # last_pid
             /\ next_safe' = Bound(pid)
             /\ seen' = seen + 1
             /\ UNCHANGED <<last_pid, pc>>
       /\ UNCHANGED plist

found ==
    /\ pc = "scan" /\ seen = Len(plist)
    /\ pc' = "link"
    /\ UNCHANGED <<plist, last_pid, next_safe, seen>>

(* hash_proc and set_links in do_fork. *)
set_links ==
    /\ pc = "link"
    /\ plist' = <<last_pid>> \o plist
    /\ pc' = "out"
    /\ seen' = 0
    /\ UNCHANGED <<last_pid, next_safe>>

(* unhash_proc and remove_links in do_wait; initproc (pid 1) is never reaped. *)
remove_links ==
    /\ pc = "out"
    /\ \E i \in DOMAIN plist : plist[i] # 1 /\ plist' = RemoveAt(plist, i)
    /\ seen' = 0
    /\ UNCHANGED <<last_pid, next_safe, pc>>

Next == get_pid \/ scan \/ found \/ set_links \/ remove_links

Spec == Init /\ [][Next]_vars

(* get_pid is a loop of the kernel: once called it goes on. *)
FairSpec == Spec /\ WF_vars(scan \/ found)

-----------------------------------------------------------------------------
(* get_pid returns a pid in range that no process in proc_list has. *)
PidUnique ==
    pc = "link" => last_pid \in 1..(MAX_PID - 1) /\ last_pid \notin ToSet(plist)

(* Between calls no process has a pid between the two static variables: what
   lets get_pid skip the scan. *)
GapUnused ==
    pc = "out" => \A q \in ToSet(plist) : ~(last_pid < q /\ q < next_safe)

(* The scan ends: MAX_PID > MAX_PROCESS leaves a free pid. *)
ScanEnds == pc = "scan" ~> pc = "link"

(* get_pid keeps the promise that do_fork relies on. *)
Pool == INSTANCE PidPool WITH used <- ToSet(plist), nr <- nr_process
PoolSpec == Pool!Spec
=============================================================================
