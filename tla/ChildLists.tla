----------------------------- MODULE ChildLists -----------------------------
(***************************************************************************)
(* The process tree as module Process uses it: each process has a list of  *)
(* children, newest first.                                                 *)
(***************************************************************************)
EXTENDS SequencesExt

CONSTANTS Procs, Init1

VARIABLE kids

Init == kids = [p \in Procs |-> <<>>]

(* do_fork by p *)
Add(p, c) == kids' = [kids EXCEPT ![p] = <<c>> \o @]

(* do_exit of p: init adopts the children, in reverse order. *)
Adopt(p) == kids' = [kids EXCEPT ![Init1] = Reverse(kids[p]) \o @, ![p] = <<>>]

(* do_wait by p, for its i-th child *)
Drop(p, i) == kids' = [kids EXCEPT ![p] = RemoveAt(@, i)]

Next ==
    \/ \E p, c \in Procs : p # c /\ Add(p, c)
    \/ \E p \in Procs \ {Init1} : Adopt(p)
    \/ \E p \in Procs : \E i \in DOMAIN kids[p] : Drop(p, i)

Spec == Init /\ [][Next]_kids
=============================================================================
