------------------------------ MODULE PmmDump ------------------------------
(***************************************************************************)
(* The dumps of kernel/mem/pmm.c: the bitmap in lines of a fixed width,    *)
(* and the runs of used and of free pages.  They only read.                *)
(***************************************************************************)
EXTENDS Pmm, SequencesExt

CONSTANT LineWidth      \* 32 pages

ASSUME LineAssumption == LineWidth \in Nat \ {0}

UsedPages == Cardinality(0..(total_pages - 1)) - free_pages

(* dump_bitmap_line: TRUE is '#'. *)
DumpBitmapLine(start, end) ==
    [i \in 1..(IF end < total_pages THEN end - start ELSE total_pages - start)
        |-> start + i - 1 \in bitmap]

(* pmm_dump *)
PmmDumpLines ==
    [k \in 1..((total_pages + LineWidth - 1) \div LineWidth)
        |-> DumpBitmapLine((k - 1) * LineWidth, k * LineWidth)]

Run(from, to) == [from |-> from, to |-> to]

(* A run that reaches the limit is printed after the loop. *)
DropOpenRun(state, limit)  == state.out                 \* mutant
CloseOpenRun(state, limit) ==
    IF state.in_run THEN Append(state.out, Run(state.start, limit - 1)) ELSE state.out

(* pmm_dump_regions: one pass, that remembers where the run began. *)
Scan(state, p, wanted) ==
    IF wanted /\ ~state.in_run THEN [state EXCEPT !.start = p, !.in_run = TRUE]
    ELSE IF ~wanted /\ state.in_run
    THEN [state EXCEPT !.in_run = FALSE, !.out = Append(@, Run(state.start, p - 1))]
    ELSE state

PmmDumpRegions(used) ==
    LET limit == IF used THEN total_pages ELSE max_ram_page
        after[p \in 0..limit] ==
            IF p = 0 THEN [start |-> 0, in_run |-> FALSE, out |-> << >>]
            ELSE Scan(after[p - 1], p - 1, (p - 1 \in bitmap) = used)
    IN  CloseOpenRun(after[limit], limit)

----------------------------------------------------------------------------
(* What a list of runs says and whether it says it shortly. *)
PagesIn(runs) == UNION {runs[k].from..runs[k].to : k \in 1..Len(runs)}
AreMaximal(runs) == \A k \in 1..(Len(runs) - 1) : runs[k].to + 1 < runs[k + 1].from

(* The dumps agree with the manager: every used page, and every free page  *)
(* of RAM, is in exactly one printed run, runs that touch are one, the     *)
(* last one is not lost, and the lines of pmm_dump show as many used pages *)
(* as its count.                                                           *)
DumpsShowTheBitmap ==
    Ready =>
        /\ PagesIn(PmmDumpRegions(TRUE)) = bitmap /\ AreMaximal(PmmDumpRegions(TRUE))
        /\ PagesIn(PmmDumpRegions(FALSE)) = (0..(max_ram_page - 1)) \ bitmap
        /\ AreMaximal(PmmDumpRegions(FALSE))
        /\ LET shown == FlattenSeq(PmmDumpLines)
           IN  /\ Len(shown) = total_pages
               /\ UsedPages = Cardinality({p \in DOMAIN shown : shown[p]})
=============================================================================
