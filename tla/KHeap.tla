------------------------------- MODULE KHeap -------------------------------
(***************************************************************************)
(* The kernel heap of kernel/mem/kheap.c: kmalloc, kmalloc_aligned and     *)
(* kfree over boundary-tagged blocks.                                      *)
(*                                                                         *)
(*        | header | data (size bytes) | footer | header | data ...        *)
(*                                                                         *)
(* A block starts at the address of its header and takes size + META       *)
(* bytes.  The memory is what the tags say: mem.hdr maps the address of a  *)
(* header to its is_hole and size fields, mem.ftr the address of a footer  *)
(* to the header it points to.  Writing a block wipes the tags inside it   *)
(* (they become the owner's data), and reading a tag where none is gives   *)
(* an arbitrary value.                                                     *)
(*                                                                         *)
(* Every function of kheap.c runs under kheap_lock and nothing in the      *)
(* kernel takes that lock in interrupt context, so kfree is one step; an   *)
(* allocation is one step per round of alloc(), which calls itself again   *)
(* after growing the heap.                                                 *)
(***************************************************************************)
EXTENDS Integers, Sequences, FiniteSets, OrderedArray

CONSTANTS
    HeaderSize, FooterSize,   \* bytes of the two tags
    PageSize,
    HeapStart,                \* the first block: KHEAP_START + the index array
    InitialEnd, MaxAddress,   \* KHEAP_START + KHEAP_MIN_SIZE, KHEAP_MAX
    IndexCapacity,            \* KHEAP_INDEX_NUM
    WordSize,                 \* 2^32: addresses and sizes are uint32_t
    Requests,                 \* the sizes kmalloc is asked for
    MaxLive,                  \* bound: pointers the kernel holds at a time
    MaxRounds,                \* bound: where the count of nested alloc() calls saturates
    StaleMemory               \* RAM beyond the tags ever written may hold tags

META == HeaderSize + FooterSize

ASSUME TagAssumption ==
    /\ HeaderSize \in Nat \ {0} /\ FooterSize \in Nat \ {0}
    /\ PageSize \in Nat /\ PageSize > HeaderSize + META

ASSUME LayoutAssumption ==
    /\ HeapStart \in Nat /\ InitialEnd \in Nat /\ MaxAddress \in Nat
    /\ FooterSize <= HeapStart /\ HeapStart + META < InitialEnd
    /\ InitialEnd <= MaxAddress /\ MaxAddress < WordSize
    /\ \A a \in {HeapStart, InitialEnd, MaxAddress} : a % PageSize = 0
    /\ WordSize \in Nat /\ WordSize % PageSize = 0

ASSUME RequestAssumption ==
    /\ Requests \subseteq 1..(WordSize - 1)
    /\ IndexCapacity \in Nat \ {0}
    /\ MaxLive \in Nat /\ MaxRounds \in Nat \ {0}
    /\ StaleMemory \in BOOLEAN

VARIABLES
    mem,          \* the tags: [hdr, ftr]
    index,        \* kheap.index: the holes, in the order of their sizes
    end_address,  \* kheap.end_address
    size,         \* kheap.size
    ptrs,         \* what the kernel holds: data pointer -> [size, align]
    req,          \* the allocation that runs under kheap_lock
    panic         \* the assertion that stopped the kernel

vars == <<mem, index, end_address, size, ptrs, req, panic>>

IS_HOLE == 1
NOT_HOLE == 0
IsHole(block) == block.is_hole = IS_HOLE

NoRequest == [size |-> 0, align |-> FALSE, rounds |-> 0]
Running == "none"
Assertions ==
    {"new_end <= max_address", "last hole is indexed", "block_size >= size",
     "footer->magic", "right hole is indexed", "left hole is indexed"}

(* uint32_t arithmetic on two words *)
Add32(x, y) == IF x + y < WordSize THEN x + y ELSE x + y - WordSize
Sub32(x, y) == IF x >= y THEN x - y ELSE x - y + WordSize

(* Mutant: the address is rounded down. *)
AlignDown(num) == num - (num % PageSize)

AlignToPage(num) ==
    IF num % PageSize = 0 THEN num ELSE Add32(num - (num % PageSize), PageSize)

----------------------------------------------------------------------------
(* Blocks *)

(* The address after a block with its header at a. *)
After(hdr, a) == a + hdr[a].size + META

MakeBlock(m, start, sz, hole) ==
    LET span == start..(start + sz + META - 1)
    IN  [hdr |-> [a \in (DOMAIN m.hdr \ span) \cup {start} |->
                    IF a = start THEN [size |-> sz, is_hole |-> hole]
                                 ELSE m.hdr[a]],
         ftr |-> [f \in (DOMAIN m.ftr \ span) \cup {start + sz + META - FooterSize} |->
                    IF f = start + sz + META - FooterSize THEN start
                                                          ELSE m.ftr[f]]]

(* The size of the hole that two neighbouring blocks make. *)
JoinedTooShort(x, y) == Add32(x, y)                      \* mutant: no META
JoinedTooLong(x, y)  == Add32(x, Add32(y, 2 * META))     \* mutant: META twice
Joined(x, y)         == Add32(x, Add32(y, META))

(* What is left over is too small for a hole: the owner gets it as well. *)
KeepsLess(remain) == remain < META                       \* mutant: off by one
KeepsAll(remain)  == remain <= META

NextRound(rounds) == IF rounds < MaxRounds THEN rounds + 1 ELSE rounds

MarkHole(m, a) ==      \* header->is_hole = 1
    [hdr |-> [m.hdr EXCEPT ![a] = [size |-> m.hdr[a].size, is_hole |-> IS_HOLE]],
     ftr |-> m.ftr]

Sizes(m) == [a \in DOMAIN m.hdr |-> m.hdr[a].size]

InsertHole(idx, m, a) == Insert(idx, IndexCapacity, Sizes(m), a)

(* What a read of a tag can give.  NoMagic stands for every content whose  *)
(* magic is wrong.  Inside the heap a dead tag is data of some owner, so   *)
(* anything; outside it is RAM that nobody cleared.                        *)
NoMagic == [size |-> 0, is_hole |-> NOT_HOLE]
InHeap(a) == HeapStart <= a /\ a < end_address
Readable(a) == InHeap(a) \/ StaleMemory

HeaderUnread(m, a) == {NoMagic}        \* mutant: no merge with the right

HeaderAt(m, a) ==
    IF a \in DOMAIN m.hdr THEN {m.hdr[a]}
    ELSE {NoMagic} \cup IF Readable(a) THEN [size : {1}, is_hole : {NOT_HOLE, IS_HOLE}] ELSE {}

NoFooter == -1
FooterUnread(m, f) == {NoFooter}       \* mutant: no merge with the left

FooterAt(m, f) ==
    IF f \in DOMAIN m.ftr THEN {m.ftr[f]}
    ELSE {NoFooter} \cup IF Readable(f) THEN HeapStart..(MaxAddress - 1) ELSE {}

(* The block whose footer was read: none without the footer's magic. *)
HeaderBehind(m, left) == IF left = NoFooter THEN {NoMagic} ELSE HeaderAt(m, left)

HolesOf(m) == {a \in DOMAIN m.hdr : IsHole(m.hdr[a])}
Holes == HolesOf(mem)

----------------------------------------------------------------------------
(* create_kheap: one hole over the whole heap *)

Init ==
    /\ mem = MakeBlock([hdr |-> << >>, ftr |-> << >>], HeapStart,
                       InitialEnd - HeapStart - META, IS_HOLE)
    /\ index = InsertHole(EmptyArray, mem, HeapStart)
    /\ end_address = InitialEnd
    /\ size = InitialEnd - HeapStart
    /\ ptrs = << >>
    /\ req = NoRequest
    /\ panic = Running

(* An ASSERT that fails: kernel_panic spins with interrupts off, so what   *)
(* the interrupted call wrote to the heap before is never read again.      *)
Panic(assertion) ==
    /\ panic' = assertion
    /\ UNCHANGED <<mem, index, end_address, size, ptrs, req>>

----------------------------------------------------------------------------
(* find_hole *)

(* The first page boundary of the search loop that leaves room in front of *)
(* the block's header for a hole.                                          *)
FirstCut(start) ==
    IF AlignToPage(start) - start > META THEN AlignToPage(start)
                                         ELSE AlignToPage(start) + PageSize

(* Mutant: the header, not the data, is aligned. *)
AllocPosOfHeader(a, align) ==
    IF align THEN FirstCut(a + HeaderSize) + HeaderSize ELSE a + HeaderSize

AllocPos(a, align) ==
    IF align THEN FirstCut(a + HeaderSize) ELSE a + HeaderSize

Fits(a, sz, align) ==
    LET start == a + HeaderSize
        last  == start + mem.hdr[a].size
    IN  IF align
        THEN \A p \in {AlignToPage(start), FirstCut(start)} : Add32(p, sz) <= last
        ELSE sz <= mem.hdr[a].size

Found(i) ==      \* find_hole returns position i
    /\ Fits(index[i], req.size, req.align)
    /\ \A j \in 1..(i - 1) : ~ Fits(index[j], req.size, req.align)

NotFound == \A i \in 1..Len(index) : ~ Fits(index[i], req.size, req.align)

----------------------------------------------------------------------------
(* kmalloc, kmalloc_aligned: take the lock and call alloc *)

Kmalloc(sz, align) ==
    /\ panic = Running /\ req = NoRequest
    /\ Cardinality(DOMAIN ptrs) < MaxLive
    /\ req' = [size |-> sz, align |-> align, rounds |-> 1]
    /\ UNCHANGED <<mem, index, end_address, size, ptrs, panic>>

InAlloc == panic = Running /\ req # NoRequest

(* No hole fits: grow the heap by whole pages, give the pages to the last  *)
(* block when it is a hole or make them a hole, and call alloc again.      *)
Expand ==
    /\ InAlloc /\ NotFound
    /\ LET extended == AlignToPage(Add32(req.size, META))
           new_end  == Add32(end_address, extended)
       IN  \E last \in FooterAt(mem, end_address - FooterSize) :
           \E block \in HeaderAt(mem, last) :
             LET where  == IF IsHole(block) THEN last ELSE end_address
                 sz     == IF IsHole(block) THEN Add32(block.size, extended)
                                            ELSE Sub32(extended, META)
                 m      == MakeBlock(mem, where, sz, IS_HOLE)
                 others == IF IsHole(block) THEN RemoveElement(index, last)
                                            ELSE index
             IN  IF new_end > MaxAddress
                 THEN Panic("new_end <= max_address")
                 ELSE IF IsHole(block) /\ last \notin Items(index)
                 THEN Panic("last hole is indexed")
                 ELSE /\ end_address' = new_end
                      /\ size' = Add32(size, extended)
                      /\ mem' = m
                      /\ index' = InsertHole(others, m, where)
                      /\ req' = [req EXCEPT !.rounds = NextRound(@)]
                      /\ UNCHANGED <<ptrs, panic>>

(* A hole fits: take it out of the index, cut what precedes an aligned     *)
(* position and what remains behind into holes of their own, return.       *)
Place ==
    /\ InAlloc
    /\ \E i \in 1..Len(index) :
         /\ Found(i)
         /\ LET hole   == index[i]
                pos    == AllocPos(hole, req.align)
                header == pos - HeaderSize
                cut    == header - hole
                block  == Sub32(mem.hdr[hole].size, cut)
                remain == Sub32(block, req.size)
                whole  == KeepsAll(remain)
                taken  == IF whole THEN block ELSE req.size
                rest   == header + META + taken
                i0 == RemoveAtPosition(index, i)
                m1 == IF cut > 0 THEN MakeBlock(mem, hole, cut - META, IS_HOLE) ELSE mem
                i1 == IF cut > 0 THEN InsertHole(i0, m1, hole) ELSE i0
                m2 == MakeBlock(m1, header, taken, NOT_HOLE)
                m3 == IF whole THEN m2 ELSE MakeBlock(m2, rest, remain - META, IS_HOLE)
                i3 == IF whole THEN i1 ELSE InsertHole(i1, m3, rest)
            IN  IF block < req.size
                THEN Panic("block_size >= size")
                ELSE /\ mem' = m3
                     /\ index' = i3
                     /\ ptrs' = [p \in DOMAIN ptrs \cup {pos} |->
                                   IF p = pos
                                   THEN [size |-> req.size, align |-> req.align]
                                   ELSE ptrs[p]]
                     /\ req' = NoRequest
                     /\ UNCHANGED <<end_address, size, panic>>

----------------------------------------------------------------------------
(* kfree: the block becomes a hole and takes in the hole to its right and  *)
(* the hole to its left.                                                   *)

Kfree(p) ==
    /\ panic = Running /\ req = NoRequest
    /\ LET header == p - HeaderSize
           next   == After(mem.hdr, header)
           freed  == MarkHole(mem, header)
       IN  \E right \in HeaderAt(freed, next) :
             LET m1 == IF IsHole(right)
                       THEN MakeBlock(freed, header,
                              Joined(mem.hdr[header].size, right.size), IS_HOLE)
                       ELSE freed
                 i1 == IF IsHole(right) THEN RemoveElement(index, next) ELSE index
             IN  \E left \in FooterAt(m1, header - FooterSize) :
                 \E block \in HeaderBehind(m1, left) :
                   LET m2 == IF IsHole(block)
                             THEN MakeBlock(m1, left,
                                    Joined(block.size, m1.hdr[header].size), IS_HOLE)
                             ELSE m1
                       i2 == IF IsHole(block) THEN RemoveElement(i1, left) ELSE i1
                       new_hole == IF IsHole(block) THEN left ELSE header
                   IN  IF next - FooterSize \notin DOMAIN mem.ftr
                       THEN Panic("footer->magic")
                       ELSE IF IsHole(right) /\ next \notin Items(index)
                       THEN Panic("right hole is indexed")
                       ELSE IF IsHole(block) /\ left \notin Items(i1)
                       THEN Panic("left hole is indexed")
                       ELSE /\ mem' = m2
                            /\ index' = InsertHole(i2, m2, new_hole)
                            /\ ptrs' = [q \in DOMAIN ptrs \ {p} |-> ptrs[q]]
                            /\ UNCHANGED <<end_address, size, req, panic>>

Halted == panic # Running /\ UNCHANGED vars      \* PANIC(): cli, hlt, for ever

Next ==
    \/ \E sz \in Requests, align \in BOOLEAN : Kmalloc(sz, align)
    \/ Expand
    \/ Place
    \/ \E p \in DOMAIN ptrs : Kfree(p)
    \/ Halted

(* Once in alloc the kernel runs on: nothing else can run until it returns. *)
Spec == Init /\ [][Next]_vars /\ WF_vars(Expand \/ Place)

----------------------------------------------------------------------------
(* Properties *)

(* Every variable keeps the shape the C types give it: addresses inside    *)
(* the heap, positive block sizes, index entries and footers that point to *)
(* headers.                                                                *)
TypeOK ==
    /\ DOMAIN mem.hdr \subseteq HeapStart..(MaxAddress - 1)
    /\ mem.hdr \in [DOMAIN mem.hdr -> [size : 1..MaxAddress, is_hole : {NOT_HOLE, IS_HOLE}]]
    /\ mem.ftr \in [DOMAIN mem.ftr -> DOMAIN mem.hdr]
    /\ index \in [1..Len(index) -> DOMAIN mem.hdr]
    /\ end_address \in InitialEnd..MaxAddress
    /\ size \in 0..MaxAddress
    /\ ptrs \in [DOMAIN ptrs -> [size : Requests, align : BOOLEAN]]
    /\ req \in [size : Requests, align : BOOLEAN, rounds : 1..MaxRounds] \cup {NoRequest}
    /\ panic \in Assertions \cup {Running}

Blocks == DOMAIN mem.hdr

(* The blocks tile the heap, whatever sequence of kmalloc and kfree built  *)
(* them: every byte between start_address and end_address is in exactly    *)
(* one block, no block leaves the heap, each has its footer at its end and *)
(* no footer is left over (the walk of kheap_validate_print relies on it,  *)
(* and the boundary tags of kfree do).                                     *)
Tiles(m, end) ==
    /\ \A a \in DOMAIN m.hdr : HeapStart <= a /\ After(m.hdr, a) <= end
    /\ \A a, b \in DOMAIN m.hdr : a < b => After(m.hdr, a) <= b
    /\ \A x \in HeapStart..(end - 1) :
         \E a \in DOMAIN m.hdr : a <= x /\ x < After(m.hdr, a)
    /\ \A a \in DOMAIN m.hdr : LET f == After(m.hdr, a) - FooterSize
                               IN  f \in DOMAIN m.ftr /\ m.ftr[f] = a
    /\ \A f \in DOMAIN m.ftr : \E a \in DOMAIN m.hdr :
         f = After(m.hdr, a) - FooterSize

BlocksTileTheHeap == Tiles(mem, end_address) /\ size = end_address - HeapStart

(* The index lists holes only, each once, smallest first: what find_hole   *)
(* needs for its first fit to be a best fit, although alloc and free       *)
(* change sizes of holes while they are in the index.                      *)
IndexIsOrdered ==
    /\ Items(index) \subseteq Holes
    /\ HasNoDuplicate(index)
    /\ IsOrdered(index, Sizes(mem))
    /\ Len(index) <= IndexCapacity

(* ASSERT(hole_num == kheap.index.size) and the find_element assertion of  *)
(* kheap_validate_print: no hole is missing from the index.                *)
EveryHoleIsIndexed == Holes \subseteq Items(index)

(* Neighbouring holes are always merged (by free in both directions, by    *)
(* alloc when it grows the heap), so no two holes touch.                   *)
NoAdjacentHoles == \A a \in Holes : After(mem.hdr, a) \notin Holes

(* The allocated blocks are the pointers the kernel holds, one for one:    *)
(* kheap_validate_print counts as many as kheap_killer expects after every *)
(* call, and each block is as large and as aligned as it was asked to be.  *)
OwnersMatchBlocks ==
    /\ \A p \in DOMAIN ptrs :
         /\ p - HeaderSize \in Blocks \ Holes
         /\ ptrs[p].size <= mem.hdr[p - HeaderSize].size
         /\ ptrs[p].align => p % PageSize = 0
    /\ \A a \in Blocks \ Holes : a + HeaderSize \in DOMAIN ptrs

(* kheap_killer ends with every pointer freed: the heap is then one single *)
(* hole again, however fragmented it was.                                  *)
FreeingAllLeavesOneHole ==
    panic = Running /\ ptrs = << >> => Cardinality(Blocks) = 1 /\ Holes = Blocks

(* No assertion of the heap ever fails but the one on the address space:   *)
(* a hole that is merged away is always found in the index.                *)
AssertionsHold == panic \in {Running, "new_end <= max_address"}

(* alloc calls itself at most twice however large or aligned the request:  *)
(* its recursion cannot eat up the kernel's stack.                         *)
AtMostTwoExpansions == req.rounds <= 3

(* find_hole returns the smallest hole that fits ("Find the smallest hole  *)
(* that fits requested size", kheap.c:115).                                *)
TakesSmallestHole ==
    [][\A p \in DOMAIN ptrs' \ DOMAIN ptrs : \A a, b \in Holes :
         a < p /\ p < After(mem.hdr, a) /\ Fits(b, req.size, req.align)
           => mem.hdr[a].size <= mem.hdr[b].size]_vars

(* No call touches the block of a pointer that stays held: its tags remain *)
(* where and what they were.                                               *)
HeldBlocksStay ==
    [][\A p \in DOMAIN ptrs \cap DOMAIN ptrs' :
         LET a == p - HeaderSize
         IN  a \in DOMAIN mem'.hdr /\ mem'.hdr[a] = mem.hdr[a]]_vars

(* Every kmalloc returns, or stops the kernel at the end of its address    *)
(* space; it never grows the heap for ever.                                *)
KmallocReturns == req # NoRequest ~> (req = NoRequest \/ panic # Running)

(* The heap does what HeapSpec promises. *)
Promise == INSTANCE HeapSpec WITH owned <- ptrs, stopped <- panic # Running
ImplementsHeapSpec == Promise!Spec
=============================================================================
