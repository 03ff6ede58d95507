-------------------------------- MODULE Pmm --------------------------------
(***************************************************************************)
(* The physical memory manager of kernel/mem/pmm.c: a bitmap with one bit  *)
(* per page frame, set up from the firmware's E820 map, and a next-fit     *)
(* search.  Frames are numbered as the bitmap numbers them; E820 entries   *)
(* are in bytes, for their ends need not fall on page boundaries.          *)
(*                                                                         *)
(* pmm_init locks one region after another and each is a step of its own,  *)
(* because regions may overlap and the count of free pages must not count  *)
(* a page twice.  The other functions run to their end: no interrupt       *)
(* handler but the page fault's allocates, and none of them can fault.     *)
(***************************************************************************)
EXTENDS Integers, Sequences, FiniteSets

CONSTANTS
    PageSize,
    LowMemory,        \* LOW_MEMORY_SIZE, in bytes
    BitmapPages,      \* 8 * MAX_BITMAP_SIZE_BYTES
    KernelBase,       \* kernel_phys_base
    KernelSize,       \* kernel_size
    E820Maps,         \* the maps a machine may have: sequences of entries
    StaleWords        \* what pmm_last_alloc_index may hold: nobody zeroes .bss

RAM == 1              \* an E820 entry of another type is not RAM

ASSUME SizeAssumption ==
    /\ PageSize \in Nat \ {0}
    /\ LowMemory \in Nat \ {0} /\ LowMemory % PageSize = 0
    /\ BitmapPages \in Nat
    /\ KernelBase \in Nat /\ KernelSize \in Nat
    /\ StaleWords \subseteq Nat

ASSUME MapAssumption ==
    \A map \in E820Maps :
        map \in Seq([addr : Nat, size : Nat \ {0}, type : Nat])

VARIABLES
    e820,               \* boot_info.e820_map of this machine
    step,               \* what pmm_init does next, an index of Regions; then ready
    total_pages,
    max_ram_page,
    bitmap,             \* the frames whose bit is set
    free_pages,
    last_alloc_index,
    held,               \* the frames that callers were given and did not free
    answer              \* what the last pmm_alloc_page returned

vars == <<e820, step, total_pages, max_ram_page, bitmap, free_pages,
          last_alloc_index, held, answer>>

NotStarted == 0
PANIC == -1
NoFrame == -1           \* pmm_alloc_page returns 0: page 0 is never free

LowPages == LowMemory \div PageSize

----------------------------------------------------------------------------
(* pmm_init *)

Listed(map)  == {map[i] : i \in 1..Len(map)}
IsRam(entry) == entry.type = RAM

(* Where the highest of some entries ends, 0 when there are none. *)
HighestEnd(entries) ==
    LET ends == {entry.addr + entry.size : entry \in entries} \cup {0}
    IN  CHOOSE e \in ends : \A x \in ends : x <= e

LastRam(map) == HighestEnd({entry \in Listed(map) : IsRam(entry)})

(* What is locked, in this order: the E820 entries (the loop passes over   *)
(* those of RAM), the kernel, the low memory.                              *)
Regions ==
    e820 \o << [addr |-> KernelBase, size |-> KernelSize, type |-> 0],
               [addr |-> 0, size |-> LowMemory, type |-> 0] >>

Ready == step = Len(Regions) + 1

Init ==
    /\ e820 \in E820Maps
    /\ step = NotStarted
    /\ total_pages = 0 /\ max_ram_page = 0
    /\ bitmap = {} /\ free_pages = 0
    /\ last_alloc_index \in StaleWords
    /\ held = {} /\ answer = NoFrame

(* The two scans of the map, the check of the bitmap's space and the       *)
(* memset: every page is free.                                             *)
PmmInit ==
    /\ step = NotStarted
    /\ LET total == HighestEnd(Listed(e820)) \div PageSize
       IN  /\ total_pages' = total
           /\ max_ram_page' = LastRam(e820) \div PageSize
           /\ IF total > BitmapPages
              THEN step' = PANIC /\ UNCHANGED <<bitmap, free_pages>>
              ELSE step' = 1 /\ bitmap' = {} /\ free_pages' = total
    /\ UNCHANGED <<e820, last_alloc_index, held, answer>>

FloorPage(addr) == addr \div PageSize
CeilPage(addr)  == (addr + PageSize - 1) \div PageSize

(* The pages of a region: all of the pages it touches, as far as the       *)
(* bitmap reaches.                                                         *)
PagesRoundedDown(addr, sz) ==                          \* mutant: the last
    {p \in 0..(total_pages - 1) : FloorPage(addr) <= p /\ p < FloorPage(addr + sz)}

PagesOf(addr, sz) ==
    {p \in 0..(total_pages - 1) : FloorPage(addr) <= p /\ p < CeilPage(addr + sz)}

(* Only a page that was free changes the count. *)
CountAll(pages)     == pages                            \* mutant: no test
NewlyMarked(pages)  == pages \ bitmap

MarkRegionUsed(addr, sz) ==
    /\ bitmap' = bitmap \cup PagesOf(addr, sz)
    /\ free_pages' = free_pages - Cardinality(NewlyMarked(PagesOf(addr, sz)))

LockRegion ==
    /\ step \in 1..Len(Regions)
    /\ LET region == Regions[step]
       IN  IF IsRam(region) THEN UNCHANGED <<bitmap, free_pages>>
                            ELSE MarkRegionUsed(region.addr, region.size)
    /\ step' = step + 1
    /\ UNCHANGED <<e820, total_pages, max_ram_page, last_alloc_index, held, answer>>

----------------------------------------------------------------------------
(* pmm_alloc_page *)

Allocatable == {i \in LowPages..(max_ram_page - 1) : i \notin bitmap}

(* How far the search has come when it looks at page i. *)
Distance(i) ==
    LET start == last_alloc_index % max_ram_page
    IN  IF i >= start THEN i - start ELSE i + max_ram_page - start

(* Mutant: the search stops at the end of RAM, it does not wrap around. *)
IsNextAhead(i) ==
    /\ i \in Allocatable /\ i >= last_alloc_index % max_ram_page
    /\ \A j \in Allocatable : j >= last_alloc_index % max_ram_page => i <= j

IsNextFit(i) ==
    /\ i \in Allocatable
    /\ \A j \in Allocatable : Distance(i) <= Distance(j)

Finds(i) == free_pages # 0 /\ max_ram_page # 0 /\ IsNextFit(i)

FindsNothing ==
    free_pages = 0 \/ max_ram_page = 0 \/ ~ \E i \in 0..(max_ram_page - 1) : IsNextFit(i)

(* Mutant: the bit of the page is not set. *)
TakeUnmarked(i) ==
    /\ UNCHANGED bitmap
    /\ free_pages' = free_pages - 1
    /\ last_alloc_index' = i
    /\ held' = held \cup {i}
    /\ answer' = i

Take(i) ==
    /\ bitmap' = bitmap \cup {i}
    /\ free_pages' = free_pages - 1
    /\ last_alloc_index' = i
    /\ held' = held \cup {i}
    /\ answer' = i

AllocPage ==
    /\ Ready
    /\ \/ \E i \in 0..(max_ram_page - 1) : Finds(i) /\ Take(i)
       \/ /\ FindsNothing
          /\ answer' = NoFrame
          /\ UNCHANGED <<bitmap, free_pages, last_alloc_index, held>>
    /\ UNCHANGED <<e820, step, total_pages, max_ram_page>>

----------------------------------------------------------------------------
(* pmm_free_page *)

(* The calls the code ignores: an address inside a page, a page of low     *)
(* memory or beyond RAM, a page that is free already.                      *)
NeverIgnored(paddr) == paddr % PageSize # 0             \* mutant: one guard left
Ignored(paddr) ==
    \/ paddr % PageSize # 0
    \/ FloorPage(paddr) < LowPages \/ FloorPage(paddr) >= max_ram_page
    \/ FloorPage(paddr) \notin bitmap

(* What the header leaves undefined and the code does not catch: to free a *)
(* frame of RAM that is in use and was never handed out.                   *)
Undefined(paddr) ==
    /\ paddr % PageSize = 0
    /\ FloorPage(paddr) \in (LowPages..(max_ram_page - 1)) \cap (bitmap \ held)

FreePage(paddr) ==
    /\ Ready /\ ~ Undefined(paddr)
    /\ IF Ignored(paddr)
       THEN UNCHANGED <<bitmap, free_pages, held>>
       ELSE /\ bitmap' = bitmap \ {FloorPage(paddr)}
            /\ free_pages' = free_pages + 1
            /\ held' = held \ {FloorPage(paddr)}
    /\ UNCHANGED <<e820, step, total_pages, max_ram_page, last_alloc_index, answer>>

Halted == step = PANIC /\ UNCHANGED vars

Next ==
    \/ PmmInit
    \/ LockRegion
    \/ AllocPage
    \/ \E paddr \in 0..(BitmapPages * PageSize - 1) : FreePage(paddr)
    \/ Halted

Spec == Init /\ [][Next]_vars

----------------------------------------------------------------------------
(* Properties *)

(* Page numbers stay inside the bitmap, the count of free pages inside the *)
(* number of pages: a count that went below zero would wrap around.        *)
TypeOK ==
    /\ e820 \in E820Maps
    /\ step \in {PANIC, NotStarted} \cup 1..(Len(Regions) + 1)
    /\ total_pages \in Nat /\ max_ram_page \in 0..total_pages
    /\ bitmap \subseteq 0..(total_pages - 1)
    /\ free_pages \in 0..total_pages
    /\ last_alloc_index \in Nat
    /\ held \subseteq LowPages..(max_ram_page - 1)
    /\ answer \in held \cup {NoFrame} \cup 0..(total_pages - 1)

(* pmm_free_pages is the number of clear bits, through overlapping and     *)
(* unaligned regions, allocations, and frees of all kinds; pmm_alloc_page  *)
(* gives up early when it is 0.                                            *)
CountMatchesBitmap ==
    step > NotStarted =>
        free_pages = Cardinality((0..(total_pages - 1)) \ bitmap)

Overlaps(p, region) ==
    /\ region.addr < (p + 1) * PageSize
    /\ p * PageSize < region.addr + region.size

Reserved(p) == \E i \in 1..Len(Regions) : ~ IsRam(Regions[i]) /\ Overlaps(p, Regions[i])

(* No frame is handed out that shares a byte with what the firmware, the   *)
(* kernel or the low memory occupies, and a frame that is held is locked.  *)
NoReservedFrameIsHeld == \A p \in held : p \in bitmap /\ ~ Reserved(p)

(* The frames of this machine that pmm_alloc_page may hand out. *)
Pool == {p \in LowPages..(LastRam(e820) \div PageSize - 1) : ~ Reserved(p)}

(* The manager does what FramePool promises: it hands out every frame of   *)
(* the pool, to one holder at a time, and fails only when all are held,    *)
(* wherever the next-fit search starts.                                    *)
Promise == INSTANCE FramePool WITH pool <- Pool
ImplementsFramePool == Promise!Spec

(* pmm_alloc_page allocates "from the available physical memory": a frame  *)
(* that is handed out lies in an E820 entry of RAM.                        *)
HeldFramesAreRam ==
    \A p \in held : \E i \in 1..Len(e820) :
        /\ IsRam(e820[i])
        /\ e820[i].addr <= p * PageSize
        /\ (p + 1) * PageSize <= e820[i].addr + e820[i].size
=============================================================================
