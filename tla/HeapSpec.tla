------------------------------ MODULE HeapSpec ------------------------------
(***************************************************************************)
(* What kheap.h promises to the rest of the kernel: kmalloc returns a      *)
(* pointer to size bytes inside the heap that nobody else holds, at a page *)
(* boundary if asked, and they stay the caller's until kfree.              *)
(***************************************************************************)
EXTENDS Integers

CONSTANTS HeapStart, MaxAddress, PageSize, Requests

VARIABLES
    owned,     \* data pointer -> [size, align]
    stopped    \* the kernel has panicked

heapVars == <<owned, stopped>>

Bytes(p, n) == p..(p + n - 1)

Usable(p, n, align) ==
    /\ Bytes(p, n) \subseteq HeapStart..(MaxAddress - 1)
    /\ align => p % PageSize = 0
    /\ \A q \in DOMAIN owned : Bytes(p, n) \cap Bytes(q, owned[q].size) = {}

Init == owned = << >> /\ stopped = FALSE

Malloc(n, align) ==
    /\ ~ stopped
    /\ \E p \in HeapStart..(MaxAddress - 1) :
         /\ Usable(p, n, align)
         /\ owned' = [q \in DOMAIN owned \cup {p} |->
                        IF q = p THEN [size |-> n, align |-> align] ELSE owned[q]]
    /\ UNCHANGED stopped

Free(p) ==
    /\ ~ stopped /\ p \in DOMAIN owned
    /\ owned' = [q \in DOMAIN owned \ {p} |-> owned[q]]
    /\ UNCHANGED stopped

(* Running out of address space stops the kernel; no call ever returns NULL. *)
Stop == stopped' = TRUE /\ UNCHANGED owned

Next ==
    \/ \E n \in Requests, align \in BOOLEAN : Malloc(n, align)
    \/ \E p \in DOMAIN owned : Free(p)
    \/ Stop

Spec == Init /\ [][Next]_heapVars
=============================================================================
