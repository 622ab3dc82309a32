------------------------------ MODULE ProcTree ------------------------------
(***************************************************************************)
(* The links between processes (kern/process/proc.c): parent, cptr (the    *)
(* youngest child), optr and yptr (the next older and younger sibling), as *)
(* do_fork, do_exit and do_wait maintain them.  Each of the three changes  *)
(* the links with interrupts off.                                          *)
(*                                                                         *)
(* ChildLists is the same tree with the children of a process as a list;   *)
(* PROPERTY ListSpec says that the pointers implement it.                  *)
(***************************************************************************)
EXTENDS Naturals, FiniteSets, SequencesExt

CONSTANTS Users, Init1, NULL

ASSUME ProcTreeAssumption ==
    Init1 \notin Users /\ NULL \notin Users \cup {Init1} /\ IsFiniteSet(Users)

Procs == Users \cup {Init1}

VARIABLES
    state,      \* "UNUSED" (no proc_struct), "LIVE" or "ZOMBIE"
    links       \* the pointers of every proc_struct

vars == <<state, links>>

Pointers == Procs \cup {NULL}

TypeOK ==
    /\ state \in [Procs -> {"UNUSED", "LIVE", "ZOMBIE"}]
    /\ links \in [parent : [Procs -> Pointers], cptr : [Procs -> Pointers],
                  optr : [Procs -> Pointers], yptr : [Procs -> Pointers]]

NoLinks == [p \in Procs |-> NULL]

Init ==
    /\ state = [p \in Procs |-> IF p = Init1 THEN "LIVE" ELSE "UNUSED"]
    /\ links = [parent |-> NoLinks, cptr |-> NoLinks, optr |-> NoLinks, yptr |-> NoLinks]

(* Assign v to f[p] unless p is NULL. *)
Assign(f, p, v) == IF p = NULL THEN f ELSE [f EXCEPT ![p] = v]

-----------------------------------------------------------------------------
(* Put c in front of the children of its (new) parent p: set_links, and the body
   of the loop in do_exit. *)
LinkFirst_bug(l, c, p) ==
    [l EXCEPT !.parent[c] = p,
              !.optr[c] = l.cptr[p],
              !.yptr = Assign(@, l.cptr[p], c),
              !.cptr[p] = c]
LinkFirst(l, c, p) ==
    [l EXCEPT !.parent[c] = p,
              !.optr[c] = l.cptr[p],
              !.yptr = [Assign(@, l.cptr[p], c) EXCEPT ![c] = NULL],
              !.cptr[p] = c]

do_fork(p, c) ==
    /\ state[p] = "LIVE" /\ state[c] = "UNUSED"
    /\ state' = [state EXCEPT ![c] = "LIVE"]
    /\ links' = LinkFirst([links EXCEPT !.cptr[c] = NULL], c, p)

(* One turn of the loop of do_exit: p's youngest child moves to init. *)
AdoptOne(l, p) ==
    LET c == l.cptr[p]
    IN LinkFirst([l EXCEPT !.cptr[p] = l.optr[c]], c, Init1)

(* The loop: at most Cardinality(Users) turns. *)
AdoptAll(l, p) ==
    LET turn[n \in 0..Cardinality(Users)] ==
          IF n = 0 THEN l
          ELSE LET t == turn[n - 1] IN IF t.cptr[p] = NULL THEN t ELSE AdoptOne(t, p)
    IN turn[Cardinality(Users)]

do_exit(p) ==
    /\ p # Init1 /\ state[p] = "LIVE"
    /\ state' = [state EXCEPT ![p] = "ZOMBIE"]
    /\ links' = AdoptAll(links, p)

(* Unlink c, and free its proc_struct. *)
remove_links_bug(l, c) ==
    [l EXCEPT !.yptr = Assign(@, l.optr[c], l.yptr[c]),
              !.optr = Assign(@, l.yptr[c], l.optr[c])]
remove_links(l, c) ==
    [l EXCEPT !.yptr = Assign(@, l.optr[c], l.yptr[c]),
              !.optr = Assign(@, l.yptr[c], l.optr[c]),
              !.cptr = IF l.yptr[c] = NULL THEN [@ EXCEPT ![l.parent[c]] = l.optr[c]] ELSE @]

do_wait(p, c) ==
    /\ state[p] = "LIVE" /\ state[c] = "ZOMBIE" /\ links.parent[c] = p
    /\ state' = [state EXCEPT ![c] = "UNUSED"]
    /\ links' = [remove_links(links, c) EXCEPT
                   !.parent[c] = NULL, !.cptr[c] = NULL, !.optr[c] = NULL, !.yptr[c] = NULL]

Next ==
    \/ \E p \in Procs, c \in Users : do_fork(p, c)
    \/ \E p \in Users : do_exit(p)
    \/ \E p \in Procs, c \in Users : do_wait(p, c)

Spec == Init /\ [][Next]_vars

-----------------------------------------------------------------------------
(* The children of p in the order in which do_wait visits them. *)
Children(p) ==
    LET from[n \in 0..Cardinality(Users), c \in Pointers] ==
          IF n = 0 \/ c = NULL THEN <<>> ELSE <<c>> \o from[n - 1, links.optr[c]]
    IN from[Cardinality(Users), links.cptr[p]]

(* A process is reached along cptr and optr from p, once, exactly if p is its
   parent: no child is lost to do_wait and none is visited by a stranger. *)
ChildrenExact ==
    \A p \in Procs :
        /\ IsInjective(Children(p))
        /\ ToSet(Children(p)) = {c \in Users : state[c] # "UNUSED" /\ links.parent[c] = p}

(* remove_links relies on optr and yptr being inverse to each other, and on the
   youngest child having no yptr: after any sequence of forks, adoptions and
   reaps. *)
SiblingsLinked ==
    \A c \in Users : state[c] # "UNUSED" =>
        /\ links.optr[c] # NULL => links.yptr[links.optr[c]] = c
        /\ links.yptr[c] # NULL => links.optr[links.yptr[c]] = c
        /\ links.yptr[c] = NULL <=> links.cptr[links.parent[c]] = c

(* A pointer of a process that exists is NULL or leads to one that exists too,
   never to a proc_struct that do_wait has freed. *)
PointersValid ==
    /\ TypeOK
    /\ \A p \in Procs : state[p] # "UNUSED" =>
          \A q \in {links.parent[p], links.cptr[p], links.optr[p], links.yptr[p]} \ {NULL} :
              state[q] # "UNUSED"

(* The pointers implement the lists of children. *)
Lists == INSTANCE ChildLists WITH kids <- [p \in Procs |-> Children(p)]
ListSpec == Lists!Spec
=============================================================================
