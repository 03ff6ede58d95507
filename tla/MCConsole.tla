----------------------------- MODULE MCConsole -----------------------------
(* A screen of two lines of four; "\nu\n" stands for the line irq_handler  *)
(* prints about an interrupt nobody handles.                               *)
EXTENDS Console

Line == <<10, 117, 10>>
=============================================================================
