------------------------------- MODULE MCVmm -------------------------------
(* Tables of six entries and pages of two bytes.  Frames: 0 the low RAM,   *)
(* 1 the first table, 2 the directory, 3 and 4 the tables of the kernel's  *)
(* two directory entries, 5 the kernel, 6 to 8 free, 9 the kernel stack.   *)
EXTENDS Vmm

Entry(a, n, t) == [addr |-> a, size |-> n, type |-> t]

(* RAM ends below the kernel stack, which lies in what the firmware keeps, *)
(* as the low memory does.                                                 *)
Small == << Entry(0, 10, 2), Entry(10, 8, 1), Entry(18, 2, 2) >>

(* A machine with more RAM than PHY_MEM_SIZE. *)
Large == << Entry(0, 24, 1), Entry(24, 4, 2) >>

SmallMachine == {Small}
LargeMachine == {Large}
=============================================================================
