--------------------------- MODULE KHeapValidate ---------------------------
(***************************************************************************)
(* kheap_validate_print of kernel/mem/kheap.c: the walk over the blocks    *)
(* that kheap_killer makes after each of its calls, with its assertions.   *)
(***************************************************************************)
EXTENDS KHeap

(* The assertion that stops the walk at a block, if one does. *)
FailsAt(start, next) ==
    IF start \notin DOMAIN mem.hdr THEN "magic"
    ELSE IF IsHole(mem.hdr[start]) /\ start \notin Items(index) THEN "the hole is indexed"
    ELSE IF next > end_address THEN "start <= end_address"
    ELSE "none"

NextBlock(start) == After(mem.hdr, start)

(* From a block to the end: the assertion that fails and the two counts. *)
Walk ==
    LET from[a \in HeapStart..end_address] ==
            IF a = end_address THEN [failed |-> "none", holes |-> 0, allocs |-> 0]
            ELSE LET next   == IF a \in DOMAIN mem.hdr THEN NextBlock(a) ELSE a
                     failed == FailsAt(a, next)
                 IN  IF failed # "none" THEN [failed |-> failed, holes |-> 0, allocs |-> 0]
                     ELSE IF IsHole(mem.hdr[a])
                     THEN [from[next] EXCEPT !.holes = @ + 1]
                     ELSE [from[next] EXCEPT !.allocs = @ + 1]
    IN  from[HeapStart]

KheapValidatePrint ==
    IF Walk.failed = "none" /\ Walk.holes # Len(index)
    THEN [Walk EXCEPT !.failed = "hole_num == index.size"] ELSE Walk

(* No call fails but for lack of addresses: a hole that is merged away is  *)
(* found in the index, alloc calls itself twice at most on its one page of *)
(* stack, and between two calls the walk of kheap_validate_print meets     *)
(* holes that are all indexed, as many as the index has, and as many       *)
(* allocated blocks as pointers are held.                                  *)
CallsSucceed ==
    /\ AssertionsHold /\ AtMostTwoExpansions
    /\ req = NoRequest /\ panic = Running =>
           /\ KheapValidatePrint.failed = "none"
           /\ KheapValidatePrint.allocs = Cardinality(DOMAIN ptrs)
=============================================================================
