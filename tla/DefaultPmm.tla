----------------------------- MODULE DefaultPmm -----------------------------
(***************************************************************************)
(* The first-fit page allocator of kern/mm/default_pmm.c: a doubly linked  *)
(* list (libs/list.h) of free blocks in the order of their addresses.  A   *)
(* page is named by its index; FreeList is the list head.  Callers free    *)
(* what they were given, as a whole.  alloc_pages and free_pages of pmm.c  *)
(* run the allocator with interrupts off.                                  *)
(***************************************************************************)
EXTENDS Integers, SequencesExt

CONSTANTS
    NPages,     \* pages of the one region that page_init hands over
    Sizes,      \* the sizes that callers ask for
    MaxUsed     \* the load: the most pages that callers hold at a time

ASSUME PmmAssumption ==
    NPages \in Nat \ {0} /\ Sizes \subseteq 1..NPages /\ MaxUsed \in 0..NPages

Pages == 0..(NPages - 1)
FreeList == -1
Nodes == Pages \cup {FreeList}

VARIABLES
    list,         \* the fields next and prev of every page_link and of free_list
    property,     \* page->property
    PG_property,  \* the pages with this flag
    nr_free,
    held,         \* the blocks given to callers and not yet freed
    panic         \* an assertion has failed and the kernel stands still

vars == <<list, property, PG_property, nr_free, held, panic>>

TypeOK ==
    /\ list \in [next : [Nodes -> Nodes], prev : [Nodes -> Nodes]]
    /\ property \in [Pages -> 0..NPages]
    /\ PG_property \subseteq Pages
    /\ nr_free \in 0..NPages
    /\ held \subseteq [base : Pages, n : Sizes]
    /\ panic \in BOOLEAN

-----------------------------------------------------------------------------
(* libs/list.h *)

list_init == [next |-> [x \in Nodes |-> x], prev |-> [x \in Nodes |-> x]]

__list_add(l, elm, p, n) ==
    [next |-> [l.next EXCEPT ![p] = elm, ![elm] = n],
     prev |-> [l.prev EXCEPT ![n] = elm, ![elm] = p]]

list_add_after(l, at, elm) == __list_add(l, elm, at, l.next[at])
list_add(l, at, elm) == list_add_after(l, at, elm)
list_add_before(l, at, elm) == __list_add(l, elm, l.prev[at], at)

__list_del(l, p, n) == [next |-> [l.next EXCEPT ![p] = n], prev |-> [l.prev EXCEPT ![n] = p]]

list_del(l, elm) == __list_del(l, l.prev[elm], l.next[elm])

(* The pages that list_next visits before it is back at the head. *)
Walk(l) ==
    LET pages[k \in 0..NPages] ==
          IF k = 0 THEN <<>>
          ELSE LET seen == pages[k - 1]
                   le   == l.next[IF seen = <<>> THEN FreeList ELSE Last(seen)]
               IN IF le = FreeList THEN seen ELSE Append(seen, le)
    IN pages[NPages]

-----------------------------------------------------------------------------
(* Insert base in the order of addresses.  After list_add at the tail the loop
   goes on, and finds base itself in front of the head. *)
Before_bug(base, page) == TRUE
Before(base, page) == base < page

insert(l, base) ==
    LET Turn(w) ==
          LET le == w.l.next[w.le]
          IN CASE le = FreeList -> [w EXCEPT !.done = TRUE]
               [] le # FreeList /\ Before(base, le) ->
                    [l |-> list_add_before(w.l, le, base), le |-> le, done |-> TRUE]
               [] le # FreeList /\ ~Before(base, le) /\ w.l.next[le] = FreeList ->
                    [l |-> list_add(w.l, le, base), le |-> le, done |-> FALSE]
               [] OTHER -> [w EXCEPT !.le = le]
        turn[k \in 0..(NPages + 2)] ==
          IF k = 0 THEN [l |-> l, le |-> FreeList, done |-> FALSE]
          ELSE LET w == turn[k - 1] IN IF w.done THEN w ELSE Turn(w)
    IN IF l.next[FreeList] = FreeList THEN list_add(l, FreeList, base)
       ELSE turn[NPages + 2].l

(* default_init, and default_init_memmap for the region *)
Init ==
    /\ list = insert(list_init, 0)
    /\ property = [p \in Pages |-> IF p = 0 THEN NPages ELSE 0]
    /\ PG_property = {0}
    /\ nr_free = NPages
    /\ held = {}
    /\ panic = FALSE

-----------------------------------------------------------------------------
PagesOf(b) == b.base..(b.base + b.n - 1)

(* The remainder of a block goes back where the block was. *)
Split_bug(page, n) ==
    IF property[page] > n THEN [property EXCEPT ![page + n] = property[page]] ELSE property
Split(page, n) ==
    IF property[page] > n THEN [property EXCEPT ![page + n] = property[page] - n] ELSE property

default_alloc_pages(n) ==
    /\ ~panic
    /\ n <= nr_free
    /\ \E k \in DOMAIN Walk(list) :
         LET page == Walk(list)[k]
             l    == list_del(list, page)
             rest == IF property[page] > n THEN {page + n} ELSE {}
         IN /\ property[page] >= n
            /\ \A i \in 1..(k - 1) : property[Walk(list)[i]] < n
            /\ property' = Split(page, n)
            /\ PG_property' = (PG_property \cup rest) \ {page}
            /\ list' = IF rest = {} THEN l ELSE list_add(l, list.prev[page], page + n)
            /\ held' = held \cup {[base |-> page, n |-> n]}
    /\ nr_free' = nr_free - n
    /\ UNCHANGED panic

(* The two merges of default_free_pages, on m = [list, property, flags]: the block
   hi, which follows lo in the list, becomes part of lo if it also follows in
   memory. *)
Adjacent_bug(m, lo, hi) == FALSE
Adjacent(m, lo, hi) ==
    lo # FreeList /\ hi # FreeList /\ lo + m.property[lo] = hi

merge(m, lo, hi) ==
    [list |-> list_del(m.list, hi),
     property |-> [m.property EXCEPT ![lo] = @ + m.property[hi]],
     flags |-> m.flags \ {hi}]

freed(b) ==
    LET m0    == [list |-> insert(list, b.base),
                  property |-> [property EXCEPT ![b.base] = b.n],
                  flags |-> PG_property \cup {b.base}]
        below == m0.list.prev[b.base]
        low   == Adjacent(m0, below, b.base)
        m1    == IF low THEN merge(m0, below, b.base) ELSE m0
        base  == IF low THEN below ELSE b.base
        above == m1.list.next[base]
    IN IF Adjacent(m1, base, above) THEN merge(m1, base, above) ELSE m1

(* The first loop asserts that no page of the block has the flag. *)
default_free_pages(b) ==
    /\ ~panic
    /\ panic' = (PagesOf(b) \cap PG_property # {})
    /\ IF panic'
       THEN UNCHANGED <<list, property, PG_property, nr_free, held>>
       ELSE /\ list' = freed(b).list
            /\ property' = freed(b).property
            /\ PG_property' = freed(b).flags
            /\ nr_free' = nr_free + b.n
            /\ held' = held \ {b}

(* The callers: together they never ask for more than MaxUsed pages.  The code has
   no such bound; with MaxUsed = NPages they may ask for all there are. *)
UsedPages == MapThenSumSet(LAMBDA b : b.n, held)

Next ==
    \/ \E n \in Sizes : UsedPages + n <= MaxUsed /\ default_alloc_pages(n)
    \/ \E b \in held : default_free_pages(b)

Spec == Init /\ [][Next]_vars

-----------------------------------------------------------------------------
BlockOf(page) == [base |-> page, n |-> property[page]]

(* The list is a list: sorted, prev inverse to next; its blocks are the ones with
   the flag, do not touch each other, and add up to nr_free.  The assertion of
   default_free_pages relies on it and has not failed. *)
FreeListSound ==
    LET listed == ToSet(Walk(list))
    IN /\ ~panic
       /\ \A x \in listed \cup {FreeList} :
            list.prev[list.next[x]] = x /\ (list.next[x] # FreeList => x < list.next[x])
       /\ listed = PG_property
       /\ \A x, y \in listed : x < y => x + property[x] < y
       /\ nr_free = MapThenSumSet(LAMBDA x : property[x], listed)

(* basic_check: `assert(p0 != p1 && p0 != p2 && p1 != p2)'.  A block that
   default_alloc_pages returns has no page that a caller holds already. *)
NoDoubleAlloc ==
    [][nr_free' < nr_free =>
         \E b \in held' \ held : \A c \in held : PagesOf(b) \cap PagesOf(c) = {}]_vars

(* The list implements first fit over the pages that nobody holds. *)
Fit == INSTANCE FirstFit WITH
         free <- UNION {PagesOf(BlockOf(page)) : page \in PG_property}
FirstFitSpec == Fit!Spec
=============================================================================
