------------------------------ MODULE FirstFit ------------------------------
(***************************************************************************)
(* What default_pmm.c promises: "on receiving a request for memory, scans  *)
(* along the list for the first block that is large enough".  The pages    *)
(* that are free, and the blocks that callers hold.                        *)
(***************************************************************************)
EXTENDS Naturals

CONSTANTS NPages, Sizes

VARIABLES free, held

Init == free = 0..(NPages - 1) /\ held = {}

Fits(a, n) == a..(a + n - 1) \subseteq free

Alloc(n) ==
    \E a \in free :
        /\ Fits(a, n)
        /\ \A b \in free : b < a => ~Fits(b, n)
        /\ free' = free \ (a..(a + n - 1))
        /\ held' = held \cup {[base |-> a, n |-> n]}

Free(b) ==
    /\ free' = free \cup (b.base..(b.base + b.n - 1))
    /\ held' = held \ {b}

Next == (\E n \in Sizes : Alloc(n)) \/ (\E b \in held : Free(b))

Spec == Init /\ [][Next]_<<free, held>>
=============================================================================
