------------------------------- MODULE MCPmm -------------------------------
(* Machines of a few pages of two bytes each; low memory takes two pages,  *)
(* the kernel the page after them.                                         *)
EXTENDS PmmDump

Entry(a, n, t) == [addr |-> a, size |-> n, type |-> t]

(* A PC: a reserved range next to the low RAM, RAM whose end is inside a   *)
(* page, reserved memory right behind it and at the top.                   *)
Usual == << Entry(0, 1, 1), Entry(1, 1, 2), Entry(2, 15, 1), Entry(17, 3, 3),
            Entry(28, 4, 2) >>

(* Entries that overlap each other, the kernel and RAM, and are out of order. *)
Overlapping == << Entry(13, 2, 2), Entry(0, 18, 1), Entry(5, 4, 4), Entry(14, 3, 3) >>

(* Nothing behind RAM; no RAM at all; no map, when the firmware gives none. *)
OnlyRam == << Entry(0, 24, 1) >>
NoRam   == << Entry(0, 9, 2) >>
NoMap   == << >>

(* More address space than the bitmap covers. *)
TooLarge == << Entry(0, 16, 1), Entry(62, 4, 2) >>

(* Memory that no entry mentions between two of RAM. *)
Gap == << Entry(0, 8, 1), Entry(12, 4, 1) >>

Machines    == {Usual, Overlapping, OnlyRam, NoRam, NoMap, TooLarge}
GapMachines == {Gap}
=============================================================================
