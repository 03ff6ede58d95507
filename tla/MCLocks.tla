------------------------------ MODULE MCLocks ------------------------------
(* Two spin locks to nest, a plain one, a yield lock as the heap's, and    *)
(* handlers that could nest if interrupts were enabled inside one.         *)
EXTENDS Locks
=============================================================================
