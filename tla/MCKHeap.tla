------------------------------ MODULE MCKHeap ------------------------------
(* Small heaps for TLC: pages of a few cells, tags of one or two. *)
EXTENDS KHeapValidate
=============================================================================
