-------------------------------- MODULE Vmm --------------------------------
(***************************************************************************)
(* The virtual memory of the kernel: the page tables that boot/loader.S    *)
(* builds, kernel/mem/vmm.c that changes them through their own mapping,   *)
(* the MMU with its TLB, and demand paging by the page fault handler, on   *)
(* top of the frames of Pmm.                                               *)
(*                                                                         *)
(* The tables are memory: tables[f] is the content of frame f.  The        *)
(* directory is a table as well, and its entry number Self points to       *)
(* itself, so the tables appear in the virtual pages of that entry.        *)
(*                                                                         *)
(* A page fault arrives through an interrupt gate and everything in its    *)
(* handler is mapped, so the handler is one step; the CPU then tries the   *)
(* access again.                                                           *)
(***************************************************************************)
EXTENDS Integers, Sequences, FiniteSets

CONSTANTS
    PageSize, LowMemory, BitmapPages, KernelBase, KernelSize, E820Maps, StaleWords,
    Entries,          \* entries of a table, 1024
    KernelSpace,      \* directory entry of KERNEL_SPACE_START, 768
    DirFrame,         \* PAGE_DIR_PHYISCAL_ADDR
    LowMapped,        \* pages of low memory that the first table maps, 256
    PhysicalFrames,   \* PHY_MEM_SIZE, 32 MB whatever the machine has
    ImagePages,       \* KERNEL_MEM_MAX_SIZE
    BinPages,         \* KERNEL_BIN_MAX_SIZE
    StackPage,        \* KERNEL_STACK_TOP - PAGE_SIZE
    StackPages,       \* 4
    Touched,          \* the pages the kernel's code touches
    Mapped,           \* the pages callers of the vmm.h interface map and unmap
    DeviceFrames      \* the frames vmm_map_page is asked to map

VARIABLES
    e820, step, total_pages, max_ram_page, bitmap, free_pages,
    last_alloc_index, held, answer,
    tables,           \* frame -> the entries of the table in it
    tlb,              \* page -> frame, what the MMU has cached
    cr3,              \* the frame of the active directory
    running,          \* boot, then kernel; stopped: PANIC; reset: triple fault
    access,           \* the page the CPU is about to touch
    faulted           \* the handler has just run for this access

pmmVars == <<e820, step, total_pages, max_ram_page, bitmap, free_pages,
             last_alloc_index, held, answer>>
vars == <<e820, step, total_pages, max_ram_page, bitmap, free_pages,
          last_alloc_index, held, answer, tables, tlb, cr3, running, access, faulted>>

P == INSTANCE Pmm

Self     == KernelSpace + 1            \* 769
LoadDir  == KernelSpace + 2            \* 770, of KERNEL_LOAD_VIRTUAL_ADDR
LoadPage == LoadDir * Entries
Pages    == 0..(Entries * Entries - 1)

ASSUME FrameAssumption == P!SizeAssumption /\ P!MapAssumption

ASSUME TableAssumption ==
    /\ Entries \in Nat /\ KernelSpace \in 1..(Entries - 3)
    /\ DirFrame \in Nat \ {0}
    /\ Touched \subseteq Pages /\ Mapped \subseteq Pages
    /\ \A v \in Mapped : v \div Entries \notin {0, KernelSpace, Self}

NoAccess == -1

----------------------------------------------------------------------------
(* boot/loader.S: setup_page and allocate_pages_for_kernel *)

Absent     == [frame |-> 0, present |-> FALSE]
Present(f) == [frame |-> f, present |-> TRUE]

FirstTable == DirFrame - 1
TableFrame(d) == DirFrame + 1 + (d - LoadDir)
TableFrames == FirstTable..TableFrame(Entries - 1)

Directory ==
    [d \in 0..(Entries - 1) |->
        CASE d \in {0, KernelSpace} -> Present(FirstTable)
          [] d = Self               -> Present(DirFrame)
          [] d >= LoadDir           -> Present(TableFrame(d))
          [] OTHER                  -> Absent]

BinFrame   == PhysicalFrames - 1 - BinPages
StackFrame == PhysicalFrames - StackPages
Stack      == StackFrame..(PhysicalFrames - 1)
BinPage    == Entries * Entries - BinPages

(* bootmacros.inc: the tables and what the first of them maps lie in the   *)
(* low memory; the loader's three ranges do not overlap.                   *)
ASSUME LayoutAssumption ==
    /\ TableFrame(Entries - 1) < P!LowPages
    /\ LowMapped \in 0..P!LowPages
    /\ PhysicalFrames \in Nat /\ BinPages \in 0..(PhysicalFrames - 1)
    /\ ImagePages \in Nat /\ StackPages \in 1..PhysicalFrames
    /\ StackPage \in Nat
    /\ LoadPage + ImagePages <= StackPage - StackPages
    /\ StackPage + StackPages <= BinPage

(* Nobody hands a frame of RAM to vmm_map_page but vmm_alloc_and_map_page. *)
ASSUME DeviceAssumption ==
    /\ DeviceFrames \subseteq Nat
    /\ \A f \in DeviceFrames, map \in E820Maps : f >= P!LastRam(map) \div PageSize

(* set_pages_mapping for the kernel stack, the kernel's sections and the   *)
(* buffer its ELF file is read into: three ranges that do not overlap.     *)
(* What no call sets is 0, as in memory after power-up.                    *)
BootEntry(v) ==
    CASE v \in StackPage..(StackPage + StackPages - 1) -> Present(StackFrame + v - StackPage)
      [] v \in LoadPage..(LoadPage + ImagePages - 1)   ->
             Present((KernelBase \div PageSize) + v - LoadPage)
      [] v >= BinPage                                  -> Present(BinFrame + v - BinPage)
      [] OTHER                                         -> Absent

BootTables ==
    [f \in TableFrames |->
        IF f = DirFrame THEN Directory
        ELSE IF f = FirstTable
        THEN [i \in 0..(Entries - 1) |-> IF i < LowMapped THEN Present(i) ELSE Absent]
        ELSE [i \in 0..(Entries - 1) |->
                 BootEntry((LoadDir + f - TableFrame(LoadDir)) * Entries + i)]]

Init ==
    /\ P!Init
    /\ tables = BootTables
    /\ tlb = << >>
    /\ cr3 = DirFrame
    /\ running = "boot"
    /\ access = NoAccess /\ faulted = FALSE

----------------------------------------------------------------------------
(* The MMU *)

(* The frame a walk of the tables gives for a page; NoFrame: a fault. *)
NoFrame == -1
Walk(v) ==
    LET pde == tables[cr3][v \div Entries]
    IN  IF ~ pde.present \/ pde.frame \notin TableFrames THEN NoFrame
        ELSE LET pte == tables[pde.frame][v % Entries]
             IN  IF pte.present THEN pte.frame ELSE NoFrame

Translation(v) == IF v \in DOMAIN tlb THEN tlb[v] ELSE Walk(v)

----------------------------------------------------------------------------
(* vmm.c *)

(* PAGE_DIR_VIRTUAL and the page of PAGE_TABLES_VIRTUAL_ADDR that shows    *)
(* the table of directory entry d.                                         *)
DirectoryPage == Self * Entries + Self
NextTablePage(d) == Self * Entries + ((d + 1) % Entries)     \* mutant
TablePage(d)     == Self * Entries + d

(* get_page: where the entry of a page is; << >> for NULL. *)
GetPage(v) ==
    LET directory == Walk(DirectoryPage)
        d         == v \div Entries
    IN  IF directory \notin TableFrames \/ ~ tables[directory][d].present
        THEN << >>
        ELSE <<Walk(TablePage(d)), v % Entries>>

(* vmm_get_phys_addr, of a page; 0 when it is not mapped. *)
GetPhysAddr(v) ==
    LET place == GetPage(v)
    IN  IF place = << >> \/ ~ tables[place[1]][place[2]].present
        THEN 0
        ELSE tables[place[1]][place[2]].frame

(* invlpg *)
KeepTranslation(v) == tlb                                    \* mutant: none
Invalidate(v)      == [p \in DOMAIN tlb \ {v} |-> tlb[p]]

SetEntry(v, entry) ==
    IF GetPage(v) = << >>
    THEN UNCHANGED <<tables, tlb>>
    ELSE /\ tables' = [tables EXCEPT ![GetPage(v)[1]][GetPage(v)[2]] = entry]
         /\ tlb' = Invalidate(v)

(* The entry of vmm_map_page; of the flags only PAGE_PRESENT matters here. *)
EntryNeverPresent(f, present) == [frame |-> f, present |-> FALSE]   \* mutant
EntryFor(f, present)          == [frame |-> f, present |-> present]

(* vmm_alloc_and_map_page; the frame stays allocated when there is no      *)
(* table to map it in.                                                     *)
AllocAndMap(v) ==
    /\ P!AllocPage
    /\ IF answer' = NoFrame
       THEN UNCHANGED <<tables, tlb>>
       ELSE SetEntry(v, EntryFor(answer', TRUE))

AllocAndMapReturns == answer' # NoFrame /\ GetPage(access) # << >>

----------------------------------------------------------------------------
(* The kernel *)

Boot ==
    /\ running = "boot"
    /\ P!PmmInit \/ P!LockRegion
    /\ UNCHANGED <<tables, tlb, cr3, running, access, faulted>>

(* vmm_init registers the page fault handler; the heap starts after it. *)
VmmInit ==
    /\ running = "boot" /\ P!Ready
    /\ running' = "kernel"
    /\ UNCHANGED <<pmmVars, tables, tlb, cr3, access, faulted>>

Idle == running = "kernel" /\ access = NoAccess

Touch(v) ==
    /\ Idle
    /\ access' = v
    /\ UNCHANGED <<pmmVars, tables, tlb, cr3, running, faulted>>

Translate ==
    /\ running = "kernel" /\ access # NoAccess
    /\ Translation(access) # NoFrame
    /\ tlb' = [p \in DOMAIN tlb \cup {access} |-> Translation(p)]
    /\ access' = NoAccess /\ faulted' = FALSE
    /\ UNCHANGED <<pmmVars, tables, cr3, running>>

(* The code runs on the pages below KERNEL_STACK_TOP.  A push that faults  *)
(* has no stack to deliver the fault on, nor the double fault after it.    *)
KernelStack == (StackPage - StackPages + 1)..StackPage

Push(v) ==
    /\ Idle
    /\ IF Translation(v) = NoFrame
       THEN running' = "reset" /\ UNCHANGED <<access>>
       ELSE access' = v /\ UNCHANGED running
    /\ UNCHANGED <<pmmVars, tables, tlb, cr3, faulted>>

(* The two PANICs of the handler *)
IgnoreFailure(ok)  == running' = running                     \* mutant
PanicOnFailure(ok) == running' = IF ok THEN running ELSE "stopped"

PageFault ==
    /\ running = "kernel" /\ access # NoAccess
    /\ Translation(access) = NoFrame
    /\ \/ /\ access < LoadPage
          /\ running' = "stopped"
          /\ UNCHANGED <<pmmVars, tables, tlb, faulted>>
       \/ /\ access >= LoadPage
          /\ AllocAndMap(access)
          /\ PanicOnFailure(AllocAndMapReturns)
          /\ faulted' = TRUE
    /\ UNCHANGED <<cr3, access>>

(* The rest of the interface *)
MapPage(v, f, present) ==
    /\ Idle
    /\ SetEntry(v, EntryFor(f, present))
    /\ UNCHANGED <<pmmVars, cr3, running, access, faulted>>

AllocAndMapPage(v) ==
    /\ Idle
    /\ AllocAndMap(v)
    /\ UNCHANGED <<cr3, running, access, faulted>>

UnmapPage(v) ==
    /\ Idle
    /\ IF GetPage(v) # << >> /\ tables[GetPage(v)[1]][GetPage(v)[2]].present
       THEN SetEntry(v, Absent)
       ELSE UNCHANGED <<tables, tlb>>
    /\ UNCHANGED <<pmmVars, cr3, running, access, faulted>>

(* A write to CR3, of the only directory there is, empties the TLB; the    *)
(* MMU may also drop a translation when it likes.                          *)
SwitchPageDirectory ==
    /\ Idle
    /\ cr3' = DirFrame /\ tlb' = << >>
    /\ UNCHANGED <<pmmVars, tables, running, access, faulted>>

Evict(v) ==
    /\ running = "kernel" /\ v \in DOMAIN tlb
    /\ tlb' = [p \in DOMAIN tlb \ {v} |-> tlb[p]]
    /\ UNCHANGED <<pmmVars, tables, cr3, running, access, faulted>>

Stopped == (running \in {"stopped", "reset"} \/ step = P!PANIC) /\ UNCHANGED vars

Next ==
    \/ Boot
    \/ VmmInit
    \/ \E v \in Touched : Touch(v) \/ Evict(v)
    \/ \E v \in KernelStack : Push(v)
    \/ Translate
    \/ PageFault
    \/ \E v \in Mapped, f \in DeviceFrames, present \in BOOLEAN : MapPage(v, f, present)
    \/ \E v \in Mapped : AllocAndMapPage(v) \/ UnmapPage(v)
    \/ SwitchPageDirectory
    \/ Stopped

(* The CPU goes on with the access it has begun. *)
Spec == Init /\ [][Next]_vars /\ WF_vars(Translate \/ PageFault)

----------------------------------------------------------------------------
(* Properties *)

(* The tables stay tables, the TLB holds frames, the page fault handler    *)
(* runs only for an access.                                                *)
TypeOK ==
    /\ P!TypeOK
    /\ tables \in [TableFrames -> [0..(Entries - 1) -> [frame : Nat, present : BOOLEAN]]]
    /\ DOMAIN tlb \subseteq Pages /\ \A v \in DOMAIN tlb : tlb[v] \in Nat
    /\ cr3 \in TableFrames
    /\ running \in {"boot", "kernel", "stopped", "reset"}
    /\ access \in Pages \cup {NoAccess}
    /\ faulted \in BOOLEAN

(* What the MMU has cached is what the tables say, after every mapping,    *)
(* remapping and unmapping: no access goes to a frame that the page has    *)
(* lost.                                                                   *)
TlbAgreesWithTables == \A v \in DOMAIN tlb : tlb[v] = Walk(v)

(* get_page finds, through the tables' own mapping, exactly the entry that *)
(* the MMU reads, for every page, and NULL only where there is no table;   *)
(* vmm_get_phys_addr answers with the frame that an access would reach.    *)
SelfMapReachesTheTables ==
    \A v \in Pages :
        LET pde == tables[cr3][v \div Entries]
        IN  /\ GetPage(v) = IF pde.present THEN <<pde.frame, v % Entries>> ELSE << >>
            /\ GetPhysAddr(v) = IF Walk(v) = NoFrame THEN 0 ELSE Walk(v)

(* Pages that the loader maps and nobody uses again: the buffer of the ELF *)
(* file, and what is left of the kernel's megabyte behind its end.  Their  *)
(* frames are free memory for pmm.c.                                       *)
KernelPages == P!CeilPage(KernelBase + KernelSize) - KernelBase \div PageSize
Leftover    == (BinPage..(Entries * Entries - 1))
                   \cup ((LoadPage + KernelPages)..(LoadPage + ImagePages - 1))

(* A frame the physical memory manager handed out is behind one page only, *)
(* and never one of the page tables: two pages of the heap never share     *)
(* memory.                                                                 *)
HandedOutFramesAreMappedOnce ==
    \A f \in held :
        /\ f \notin TableFrames
        /\ \A v, w \in Pages \ Leftover : Walk(v) = f /\ Walk(w) = f => v = w

(* When the page fault handler returns, the access that faulted succeeds:  *)
(* one access faults once.                                                 *)
RetrySucceeds ==
    running = "kernel" /\ faulted => access # NoAccess /\ Translation(access) # NoFrame

(* A touch of memory ends: with the page mapped, or with a PANIC when it   *)
(* was a wild address or memory ran out.                                   *)
TouchEnds == access # NoAccess ~> (access = NoAccess \/ running = "stopped")

(* "Lock: mark the region that the kernel itself occupies": the frames of  *)
(* the kernel's stack are not handed out.                                  *)
KernelStackIsNotHandedOut == Stack \cap held = {}

(* "Allocate 4 page for kernel stack": the stack may grow through as many  *)
(* pages as the loader allocates for it.                                   *)
StackNeverFaults == running # "reset"
=============================================================================
