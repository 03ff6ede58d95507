----------------------------- MODULE PmmProofs -----------------------------
(***************************************************************************)
(* What pmm.c keeps true for every page size, every size of the bitmap and *)
(* every E820 map, with entries that overlap, that are out of order and    *)
(* that end inside a page: the count of free pages is the number of clear  *)
(* bits, no reserved frame is handed out, and the next-fit search finds a  *)
(* frame whenever there is one.  The last section is about the dumps: what *)
(* they print is what the bitmap says.                                     *)
(***************************************************************************)
EXTENDS PmmDump, FiniteSetTheorems, SequenceTheorems, TLAPS

----------------------------------------------------------------------------
(* Numbers and finite sets of them. *)

(* A page is addresses p * size to p * size + size - 1. *)
LEMMA DivisionBounds ==
    ASSUME NEW a \in Nat, NEW b \in Nat \ {0}
    PROVE  /\ a \div b \in Nat
           /\ (a \div b) * b <= a
           /\ a < (a \div b) * b + b
<1>1. a \div b \in Nat
  OBVIOUS
<1>2. (a \div b) * b <= a
  OBVIOUS
<1>3. a < (a \div b) * b + b
  OBVIOUS
<1> QED
  BY <1>1, <1>2, <1>3

LEMMA MultiplesAscend ==
    ASSUME NEW p \in Int, NEW q \in Int, NEW b \in Nat \ {0}
    PROVE  /\ p < q => p * b + b <= q * b
           /\ p * b < q * b => p < q
<1>1. p < q => p * b + b <= q * b
  OBVIOUS
<1>2. p * b < q * b => p < q
  OBVIOUS
<1> QED
  BY <1>1, <1>2

LEMMA PageAtOrBelow ==
    ASSUME NEW a \in Nat, NEW b \in Nat \ {0}, NEW p \in Int
    PROVE  a \div b <= p <=> a < (p + 1) * b
<1> DEFINE q == a \div b
           A == q * b
           B == (p + 1) * b
<1>1. q \in Nat /\ A <= a /\ a < A + b
  BY DivisionBounds
<1>2. /\ q < p + 1 => A + b <= B
      /\ A < B => q < p + 1
  BY <1>1, MultiplesAscend
<1>3. A \in Int /\ B \in Int
  BY <1>1
<1> HIDE DEF q, A, B
<1>4. q <= p <=> a < B
  BY <1>1, <1>2, <1>3
<1> QED
  BY <1>4 DEF q, B

LEMMA PageAbove ==
    ASSUME NEW e \in Nat, NEW b \in Nat \ {0}, NEW p \in Int
    PROVE  p < (e + b - 1) \div b <=> p * b < e
<1> DEFINE top == e + b - 1
           q == top \div b
<1>1. top \in Nat
  OBVIOUS
<1> HIDE DEF top
<1>2. q <= p <=> top < (p + 1) * b
  BY <1>1, PageAtOrBelow
<1>3. q \in Nat
  BY <1>1, DivisionBounds
<1>4. (p + 1) * b = p * b + b /\ p * b \in Int
  OBVIOUS
<1> HIDE DEF q
<1>5. p < q <=> p * b < e
  BY <1>2, <1>3, <1>4 DEF top
<1> QED
  BY <1>5 DEF q, top

LEMMA DivisionAscends ==
    ASSUME NEW a \in Nat, NEW c \in Nat, a <= c, NEW b \in Nat \ {0}
    PROVE  a \div b <= c \div b
<1> DEFINE q == c \div b
           B == (q + 1) * b
<1>1. q \in Nat
  BY DivisionBounds
<1>2. c < B
  BY <1>1, PageAtOrBelow
<1>3. B \in Int
  BY <1>1
<1> HIDE DEF B
<1>4. a < B
  BY <1>2, <1>3
<1> QED
  BY <1>1, <1>4, PageAtOrBelow DEF B

(* A finite set of naturals has a greatest element: the sets of what lies  *)
(* at or above an element are finite, and strict inclusion is well founded *)
(* on those.                                                               *)
LEMMA GreatestOfFinite ==
    ASSUME NEW S \in SUBSET Nat, S # {}, IsFiniteSet(S)
    PROVE  \E m \in S : \A x \in S : x <= m
<1> DEFINE From(n) == {x \in S : n <= x}
           Tails   == {From(n) : n \in S}
<1>1. Tails \in SUBSET FiniteSubsetsOf(Nat) /\ Tails # {}
  <2>1. \A n \in S : From(n) \in SUBSET S /\ From(n) \in SUBSET Nat
    OBVIOUS
  <2>2. \A n \in S : IsFiniteSet(From(n))
    BY <2>1, FS_Subset
  <2> QED
    BY <2>1, <2>2 DEF FiniteSubsetsOf
<1>2. PICK s \in Tails : \A t \in Tails : <<t, s>> \notin StrictSubsetOrdering(Nat)
  BY <1>1, FS_StrictSubsetOrderingWellFounded, WFMin
<1>3. PICK m \in S : s = From(m)
  OBVIOUS
<1>4. ASSUME NEW x \in S, m < x PROVE FALSE
  <2>1. m \in From(m) /\ m \notin From(x)
    BY <1>4
  <2>2. From(x) \subseteq From(m)
    <3> SUFFICES ASSUME NEW y \in S, x <= y PROVE m <= y
      OBVIOUS
    <3>1. m \in Nat /\ x \in Nat /\ y \in Nat
      OBVIOUS
    <3> QED
      BY <3>1, <1>4
  <2>3. From(x) \in SUBSET Nat /\ From(m) \in SUBSET Nat
    OBVIOUS
  <2>4. <<From(x), From(m)>> \in StrictSubsetOrdering(Nat)
    BY <2>1, <2>2, <2>3 DEF StrictSubsetOrdering
  <2> QED
    BY <2>4, <1>2, <1>3
<1> QED
  BY <1>4

(* The least element of a set of naturals is its greatest lower bound. *)
LEMMA LeastOfNaturals ==
    ASSUME NEW S \in SUBSET Nat, S # {}
    PROVE  \E m \in S : \A x \in S : m <= x
<1> DEFINE L == {n \in Nat : \A x \in S : n <= x}
<1>1. PICK s \in S : TRUE
  OBVIOUS
<1>2. L \in SUBSET Nat /\ 0 \in L /\ \A n \in L : n <= s
  OBVIOUS
<1>3. IsFiniteSet(L)
  BY <1>1, <1>2, FS_BoundedSetOfNaturals
<1>4. PICK m \in L : \A n \in L : n <= m
  BY <1>2, <1>3, GreatestOfFinite
<1>5. m + 1 \notin L
  BY <1>4
<1> QED
  BY <1>4, <1>5

----------------------------------------------------------------------------
(* The E820 map: where memory ends. *)

Entries == [addr : Nat, size : Nat \ {0}, type : Nat]

(* A map that ends nowhere ends at 0; else where one of its entries ends.  *)
LEMMA HighestEndIsLast ==
    ASSUME NEW map \in Seq(Entries), NEW entries \in SUBSET Listed(map)
    PROVE  /\ HighestEnd(entries) \in Nat
           /\ \A entry \in entries : entry.addr + entry.size <= HighestEnd(entries)
           /\ HighestEnd(entries) = 0
              \/ \E entry \in entries : HighestEnd(entries) = entry.addr + entry.size
<1> DEFINE ends  == {entry.addr + entry.size : entry \in entries}
           where == {i \in 1..Len(map) : map[i] \in entries}
           f     == [i \in where |-> map[i].addr + map[i].size]
<1>1. \A i \in 1..Len(map) : map[i] \in Entries
  OBVIOUS
<1>2. ends \in SUBSET Nat
  BY SMTT(30), <1>1 DEF Listed, Entries
<1>3. IsFiniteSet(where)
  <2>1. where \in SUBSET (1..Len(map))
    OBVIOUS
  <2>2. IsFiniteSet(1..Len(map))
    BY FS_Interval
  <2> QED
    BY <2>1, <2>2, FS_Subset
<1>4. IsFiniteSet(ends)
  <2>1. f \in Surjection(where, ends)
    <3>1. \A i \in where : map[i] \in entries
      OBVIOUS
    <3>2. \A entry \in entries : \E i \in where : map[i] = entry
      BY DEF Listed
    <3>3. f \in [where -> ends]
      BY <3>1
    <3>4. \A e \in ends : \E i \in where : f[i] = e
      BY <3>2
    <3> QED
      BY <3>3, <3>4 DEF Surjection
  <2> QED
    BY <2>1, <1>3, FS_Surjection
<1> DEFINE all == ends \cup {0}
<1>5. \E e \in all : \A x \in all : x <= e
  <2>1. all \in SUBSET Nat /\ all # {}
    BY <1>2
  <2>2. IsFiniteSet(all)
    <3> HIDE DEF ends
    <3> QED
      BY <1>4, FS_AddElement
  <2> QED
    BY <2>1, <2>2, GreatestOfFinite
<1>6. HighestEnd(entries) = CHOOSE e \in all : \A x \in all : x <= e
  BY DEF HighestEnd
<1>7. HighestEnd(entries) \in all /\ \A x \in all : x <= HighestEnd(entries)
  <2> HIDE DEF all
  <2> QED
    BY <1>5, <1>6
<1> QED
  BY <1>2, <1>7

(* RAM cannot end behind the end of the map. *)
LEMMA RamIsMemory ==
    ASSUME NEW map \in Seq(Entries)
    PROVE  /\ LastRam(map) \in Nat /\ HighestEnd(Listed(map)) \in Nat
           /\ LastRam(map) <= HighestEnd(Listed(map))
<1> DEFINE ram == {entry \in Listed(map) : IsRam(entry)}
<1>1. ram \in SUBSET Listed(map) /\ LastRam(map) = HighestEnd(ram)
  BY DEF LastRam
<1> HIDE DEF ram
<1>2. /\ HighestEnd(ram) \in Nat
      /\ HighestEnd(ram) = 0 \/ \E entry \in ram : HighestEnd(ram) = entry.addr + entry.size
  BY <1>1, HighestEndIsLast
<1>3. /\ HighestEnd(Listed(map)) \in Nat
      /\ \A entry \in Listed(map) : entry.addr + entry.size <= HighestEnd(Listed(map))
  BY HighestEndIsLast
<1> QED
  BY <1>1, <1>2, <1>3

----------------------------------------------------------------------------
(* Regions and their pages. *)

Areas == [addr : Nat, size : Nat, type : Nat]

LEMMA RegionsTyped ==
    ASSUME e820 \in E820Maps
    PROVE  /\ e820 \in Seq(Entries)
           /\ Regions \in Seq(Areas)
           /\ Len(Regions) = Len(e820) + 2
<1>1. e820 \in Seq(Entries)
  BY MapAssumption DEF Entries
<1>2. e820 \in Seq(Areas)
  <2>1. Entries \subseteq Areas
    BY DEF Entries, Areas
  <2> QED
    BY <1>1, <2>1, SeqMonotonic
<1> DEFINE own == << [addr |-> KernelBase, size |-> KernelSize, type |-> 0],
                     [addr |-> 0, size |-> LowMemory, type |-> 0] >>
<1>3. own \in Seq(Areas) /\ Len(own) = 2
  BY SizeAssumption DEF Areas
<1>4. Regions = e820 \o own
  BY DEF Regions
<1> HIDE DEF own
<1>5. e820 \o own \in Seq(Areas) /\ Len(e820 \o own) = Len(e820) + Len(own)
  BY <1>2, <1>3, ConcatProperties, Zenon
<1> QED
  BY <1>1, <1>3, <1>4, <1>5

(* mark_region_used rounds down where a region begins and up where it      *)
(* ends: it marks the pages that share a byte with the region.  A region   *)
(* of no bytes inside a page marks that page, as it does in the code.      *)
LEMMA PagesAreOverlaps ==
    ASSUME NEW region \in Areas, NEW p \in 0..(total_pages - 1), total_pages \in Nat
    PROVE  p \in PagesOf(region.addr, region.size) <=> Overlaps(p, region)
<1>1. /\ PageSize \in Nat \ {0} /\ p \in Nat
      /\ region.addr \in Nat /\ region.addr + region.size \in Nat
  BY SizeAssumption DEF Areas
<1>2. FloorPage(region.addr) <= p <=> region.addr < (p + 1) * PageSize
  BY <1>1, PageAtOrBelow DEF FloorPage
<1>3. p < CeilPage(region.addr + region.size) <=> p * PageSize < region.addr + region.size
  BY <1>1, PageAbove DEF CeilPage
<1> QED
  BY <1>2, <1>3 DEF PagesOf, Overlaps

----------------------------------------------------------------------------
(* The inductive invariant.  That a page is never counted twice, nor       *)
(* handed out when it is reserved, rests on what the bitmap says while     *)
(* pmm_init still runs: the regions it has passed are locked, and no page  *)
(* is in use without a region or a caller that uses it.                    *)

MemoryMeasured ==
    step # NotStarted =>
        /\ total_pages = HighestEnd(Listed(e820)) \div PageSize
        /\ max_ram_page = LastRam(e820) \div PageSize

RegionsLocked ==
    step > NotStarted =>
        \A i \in 1..Len(Regions) :
            i < step /\ ~ IsRam(Regions[i]) => PagesOf(Regions[i].addr, Regions[i].size) \subseteq bitmap

InUseForAReason ==
    step > NotStarted => \A p \in bitmap : p \in held \/ Reserved(p)

HeldOnceReady == ~ Ready => held = {}

InitiallyEmpty ==
    /\ step = NotStarted => bitmap = {} /\ free_pages = 0
    /\ ~ Ready => answer = NoFrame

PmmInv ==
    /\ TypeOK
    /\ CountMatchesBitmap
    /\ NoReservedFrameIsHeld
    /\ MemoryMeasured
    /\ RegionsLocked
    /\ InUseForAReason
    /\ HeldOnceReady
    /\ InitiallyEmpty

LEMMA InitPmm == Init => PmmInv
<1> SUFFICES ASSUME Init PROVE PmmInv
  OBVIOUS
<1>1. Len(Regions) \in Nat
  BY RegionsTyped, LenProperties DEF Init
<1>2. ~ Ready
  BY <1>1 DEF Init, Ready, NotStarted
<1>3. TypeOK
  BY <1>1, SizeAssumption DEF Init, TypeOK, NotStarted, PANIC, NoFrame
<1> QED
  BY <1>2, <1>3 DEF Init, PmmInv, NotStarted, CountMatchesBitmap, NoReservedFrameIsHeld,
                    MemoryMeasured, RegionsLocked, InUseForAReason, HeldOnceReady,
                    InitiallyEmpty

(* What stays as long as the machine does. *)
LEMMA RegionsStay ==
    ASSUME UNCHANGED e820
    PROVE  /\ Regions' = Regions
           /\ \A p : Reserved(p)' = Reserved(p)
           /\ Pool' = Pool
  BY DEF Regions, Reserved, Pool

(* The pages that are locked are the pages that are reserved, when every   *)
(* region has been passed.                                                 *)
LEMMA ReservedIsLocked ==
    ASSUME PmmInv, Ready, NEW p \in 0..(total_pages - 1), Reserved(p)
    PROVE  p \in bitmap
<1>1. PICK i \in 1..Len(Regions) : ~ IsRam(Regions[i]) /\ Overlaps(p, Regions[i])
  BY DEF Reserved
<1>2. Regions[i] \in Areas /\ total_pages \in Nat /\ Len(Regions) \in Nat
  BY RegionsTyped, ElementOfSeq, LenProperties DEF PmmInv, TypeOK
<1>3. p \in PagesOf(Regions[i].addr, Regions[i].size)
  BY <1>1, <1>2, PagesAreOverlaps
<1>4. i < step /\ step > NotStarted
  BY <1>2 DEF Ready, NotStarted
<1> QED
  BY <1>1, <1>3, <1>4 DEF PmmInv, RegionsLocked

(* The count of clear bits when bits are set or cleared. *)
LEMMA ClearBits ==
    ASSUME NEW n \in Nat, NEW B \in SUBSET (0..(n - 1))
    PROVE  /\ Cardinality((0..(n - 1)) \ B) \in 0..n
           /\ Cardinality((0..(n - 1)) \ {}) = n
           /\ Cardinality((0..(n - 1)) \ B) = 0 => B = 0..(n - 1)
           /\ \A P \in SUBSET (0..(n - 1)) :
                  Cardinality((0..(n - 1)) \ (B \cup P))
                      = Cardinality((0..(n - 1)) \ B) - Cardinality(P \ B)
           /\ \A p \in (0..(n - 1)) \ B :
                  Cardinality((0..(n - 1)) \ (B \cup {p})) = Cardinality((0..(n - 1)) \ B) - 1
           /\ \A p \in B :
                  Cardinality((0..(n - 1)) \ (B \ {p})) = Cardinality((0..(n - 1)) \ B) + 1
<1> DEFINE U == 0..(n - 1)
           F == U \ B
<1>1. IsFiniteSet(U) /\ Cardinality(U) = n
  BY FS_Interval
<1> HIDE DEF U
<1>2. F \in SUBSET U
  OBVIOUS
<1>3. IsFiniteSet(F) /\ Cardinality(F) \in Nat /\ Cardinality(F) <= n
  BY <1>1, <1>2, FS_Subset, FS_CardinalityType
<1>4. U \ {} = U
  OBVIOUS
<1>5. Cardinality(F) = 0 => B = U
  <2>1. Cardinality(F) = 0 => F = {}
    BY <1>3, FS_EmptySet
  <2> QED
    BY <2>1 DEF U
<1>6. ASSUME NEW P \in SUBSET U
      PROVE  Cardinality(U \ (B \cup P)) = Cardinality(F) - Cardinality(P \ B)
  <2> DEFINE X == P \ B
  <2>1. U \ (B \cup P) = F \ X /\ F \cap X = X
    OBVIOUS
  <2> HIDE DEF F, X
  <2>2. Cardinality(F \ X) = Cardinality(F) - Cardinality(F \cap X)
    BY <1>3, FS_Difference
  <2>3. Cardinality(U \ (B \cup P)) = Cardinality(F) - Cardinality(X)
    BY <2>1, <2>2
  <2> QED
    BY <2>3 DEF X
<1>7. ASSUME NEW p \in F
      PROVE  Cardinality(U \ (B \cup {p})) = Cardinality(F) - 1
  <2>1. U \ (B \cup {p}) = F \ {p}
    OBVIOUS
  <2> HIDE DEF F
  <2> QED
    BY <1>3, <2>1, FS_RemoveElement
<1>8. ASSUME NEW p \in B
      PROVE  Cardinality(U \ (B \ {p})) = Cardinality(F) + 1
  <2>1. U \ (B \ {p}) = F \cup {p} /\ p \notin F
    BY DEF U
  <2> HIDE DEF F
  <2> QED
    BY <1>3, <2>1, FS_AddElement
<1>9. Cardinality(F) \in 0..n
  BY <1>3
<1> QED
  BY <1>1, <1>4, <1>5, <1>6, <1>7, <1>8, <1>9, Zenon DEF U

(* pmm_init *)
LEMMA PmmInitKeeps == PmmInv /\ PmmInit => PmmInv'
<1> SUFFICES ASSUME PmmInv, PmmInit PROVE PmmInv'
  OBVIOUS
<1> DEFINE total == HighestEnd(Listed(e820)) \div PageSize
           ram   == LastRam(e820) \div PageSize
<1>1. /\ total_pages' = total /\ max_ram_page' = ram
      /\ UNCHANGED <<e820, last_alloc_index, held, answer>>
      /\ \/ step' = PANIC /\ UNCHANGED <<bitmap, free_pages>>
         \/ step' = 1 /\ bitmap' = {} /\ free_pages' = total
  BY DEF PmmInit
<1>2. total \in Nat /\ ram \in 0..total
  <2>1. e820 \in Seq(Entries)
    BY RegionsTyped DEF PmmInv, TypeOK
  <2>2. /\ LastRam(e820) \in Nat /\ HighestEnd(Listed(e820)) \in Nat
        /\ LastRam(e820) <= HighestEnd(Listed(e820))
    BY <2>1, RamIsMemory
  <2>3. PageSize \in Nat \ {0}
    BY SizeAssumption
  <2>4. total \in Nat /\ ram \in Nat /\ ram <= total
    BY <2>2, <2>3, DivisionBounds, DivisionAscends
  <2> HIDE DEF total, ram
  <2> QED
    BY <2>4
<1> HIDE DEF total, ram
<1>3. /\ step = NotStarted /\ Len(Regions) \in Nat /\ Regions' = Regions
      /\ held = {} /\ answer = NoFrame
  <2>1. Len(Regions) \in Nat
    BY RegionsTyped, LenProperties DEF PmmInv, TypeOK
  <2>2. step = NotStarted
    BY DEF PmmInit
  <2>3. ~ Ready
    BY <2>1, <2>2 DEF Ready, NotStarted
  <2> QED
    BY <2>1, <2>2, <2>3, <1>1, RegionsStay DEF PmmInv, HeldOnceReady, InitiallyEmpty
<1>4. /\ bitmap' \subseteq 0..(total - 1) /\ free_pages' \in 0..total
      /\ step' = PANIC \/ (step' = 1 /\ bitmap' = {} /\ free_pages' = total)
  <2>1. bitmap = {} /\ free_pages = 0
    BY <1>3 DEF PmmInv, InitiallyEmpty
  <2> QED
    BY <1>1, <1>2, <2>1
<1>5. TypeOK'
  <2>1. answer' = NoFrame \/ answer' \in 0..(total_pages' - 1)
    BY <1>1, <1>3
  <2>2. step' \in {PANIC, NotStarted} \cup 1..(Len(Regions') + 1)
    BY <1>3, <1>4
  <2>3. held' \subseteq LowPages..(max_ram_page' - 1)
    BY <1>1, <1>3
  <2>4. e820' \in E820Maps /\ last_alloc_index' \in Nat
    BY <1>1 DEF PmmInv, TypeOK
  <2> QED
    BY <1>1, <1>2, <1>4, <2>1, <2>2, <2>3, <2>4 DEF TypeOK
<1>6. CountMatchesBitmap'
  <2>1. Cardinality((0..(total - 1)) \ {}) = total
    BY <1>2, ClearBits
  <2>2. CASE step' = 1 /\ bitmap' = {} /\ free_pages' = total
    <3>1. total_pages' = total
      BY <1>1
    <3>2. free_pages' = Cardinality((0..(total_pages' - 1)) \ bitmap')
      BY <2>1, <2>2, <3>1
    <3> QED
      BY <3>2 DEF CountMatchesBitmap
  <2> QED
    BY <1>4, <2>2 DEF CountMatchesBitmap, PANIC, NotStarted
<1>7. MemoryMeasured'
  BY <1>1 DEF MemoryMeasured, total, ram
<1>8. RegionsLocked'
  BY <1>4 DEF RegionsLocked, PANIC, NotStarted
<1>9. NoReservedFrameIsHeld' /\ HeldOnceReady'
  BY <1>1, <1>3 DEF NoReservedFrameIsHeld, HeldOnceReady
<1>10. InUseForAReason' /\ InitiallyEmpty'
  BY <1>1, <1>3, <1>4 DEF InUseForAReason, InitiallyEmpty, PANIC, NotStarted
<1> QED
  BY <1>5, <1>6, <1>7, <1>8, <1>9, <1>10 DEF PmmInv

(* mark_region_used *)
LEMMA LockRegionKeeps == PmmInv /\ LockRegion => PmmInv'
<1> SUFFICES ASSUME PmmInv, LockRegion PROVE PmmInv'
  OBVIOUS
<1> DEFINE region == Regions[step]
           pages  == IF IsRam(region) THEN {} ELSE PagesOf(region.addr, region.size)
<1>1. /\ step \in 1..Len(Regions) /\ step' = step + 1
      /\ UNCHANGED <<e820, total_pages, max_ram_page, last_alloc_index, held, answer>>
  BY DEF LockRegion
<1>2. /\ Len(Regions) \in Nat /\ region \in Areas
      /\ total_pages \in Nat /\ free_pages \in 0..total_pages
      /\ bitmap \in SUBSET (0..(total_pages - 1)) /\ Regions' = Regions
      /\ held = {} /\ answer = NoFrame /\ step \in Nat
  <2>1. Len(Regions) \in Nat /\ region \in Areas
    BY <1>1, RegionsTyped, LenProperties, ElementOfSeq DEF PmmInv, TypeOK
  <2>2. held = {} /\ answer = NoFrame
    BY <2>1, <1>1 DEF PmmInv, HeldOnceReady, InitiallyEmpty, Ready
  <2> QED
    BY <2>1, <2>2, <1>1, RegionsStay DEF PmmInv, TypeOK
<1>3. pages \in SUBSET (0..(total_pages - 1))
  BY DEF PagesOf
<1>4. /\ bitmap' = bitmap \cup pages
      /\ free_pages' = free_pages - Cardinality(pages \ bitmap)
  <2>1. CASE IsRam(region)
    <3>1. pages = {} /\ pages \ bitmap = {} /\ Cardinality({}) = 0
      BY <2>1, FS_EmptySet
    <3> QED
      BY <2>1, <3>1, <1>2 DEF LockRegion
  <2>2. CASE ~ IsRam(region)
    BY <2>2 DEF LockRegion, MarkRegionUsed, NewlyMarked
  <2> QED
    BY <2>1, <2>2
<1>5. \A p \in pages : Reserved(p)
  <2> SUFFICES ASSUME NEW p \in pages PROVE Reserved(p)
    OBVIOUS
  <2>1. ~ IsRam(region) /\ p \in PagesOf(region.addr, region.size)
    OBVIOUS
  <2>2. Overlaps(p, region)
    BY <1>2, <1>3, <2>1, PagesAreOverlaps
  <2> QED
    BY <1>1, <2>1, <2>2 DEF Reserved
<1>6. ~ IsRam(region) => PagesOf(region.addr, region.size) = pages
  OBVIOUS
<1> HIDE DEF pages
<1>7. /\ step > NotStarted /\ step' > NotStarted
      /\ bitmap' \in SUBSET (0..(total_pages - 1))
  BY <1>1, <1>2, <1>3, <1>4 DEF NotStarted
<1>8. /\ free_pages' = Cardinality((0..(total_pages - 1)) \ bitmap')
      /\ free_pages' \in 0..total_pages
  <2>1. free_pages = Cardinality((0..(total_pages - 1)) \ bitmap)
    BY <1>7 DEF PmmInv, CountMatchesBitmap
  <2>2. Cardinality((0..(total_pages - 1)) \ (bitmap \cup pages))
           = Cardinality((0..(total_pages - 1)) \ bitmap) - Cardinality(pages \ bitmap)
    <3>1. \A P \in SUBSET (0..(total_pages - 1)) :
             Cardinality((0..(total_pages - 1)) \ (bitmap \cup P))
               = Cardinality((0..(total_pages - 1)) \ bitmap) - Cardinality(P \ bitmap)
      BY <1>2, ClearBits, Zenon
    <3> QED
      BY <1>3, <3>1, Zenon
  <2>3. free_pages' = Cardinality((0..(total_pages - 1)) \ bitmap')
    BY <1>4, <2>1, <2>2
  <2> QED
    BY <1>2, <1>7, <2>3, ClearBits
<1>9. TypeOK'
  <2>1. step' \in 1..(Len(Regions') + 1)
    BY <1>1, <1>2
  <2> QED
    BY <1>1, <1>7, <1>8, <2>1 DEF PmmInv, TypeOK, LowPages
<1>10. CountMatchesBitmap'
  BY <1>1, <1>8 DEF CountMatchesBitmap
<1>11. MemoryMeasured'
  BY <1>1, <1>7 DEF PmmInv, MemoryMeasured, NotStarted
<1>12. RegionsLocked'
  <2> SUFFICES ASSUME NEW i \in 1..Len(Regions), i < step + 1, ~ IsRam(Regions[i])
               PROVE  PagesOf(Regions[i].addr, Regions[i].size)' \subseteq bitmap'
    BY <1>1, <1>2 DEF RegionsLocked
  <2>1. PagesOf(Regions[i].addr, Regions[i].size)' = PagesOf(Regions[i].addr, Regions[i].size)
    BY <1>1, <1>2 DEF PagesOf
  <2>2. CASE i = step
    BY <1>4, <1>6, <2>1, <2>2
  <2>3. CASE i # step
    <3>1. i < step
      BY <1>2, <2>3
    <3>2. PagesOf(Regions[i].addr, Regions[i].size) \subseteq bitmap
      BY <1>7, <3>1 DEF PmmInv, RegionsLocked
    <3> QED
      BY <1>4, <2>1, <3>2
  <2> QED
    BY <2>2, <2>3
<1>13. InUseForAReason'
  <2>1. \A p \in bitmap : p \in held \/ Reserved(p)
    BY <1>7 DEF PmmInv, InUseForAReason
  <2>2. \A p : Reserved(p)' = Reserved(p)
    BY <1>1, RegionsStay
  <2> QED
    BY <1>1, <1>4, <1>5, <2>1, <2>2 DEF InUseForAReason
<1>14. NoReservedFrameIsHeld' /\ HeldOnceReady' /\ InitiallyEmpty'
  BY <1>1, <1>2, <1>7 DEF NoReservedFrameIsHeld, HeldOnceReady, InitiallyEmpty, NotStarted
<1> QED
  BY <1>9, <1>10, <1>11, <1>12, <1>13, <1>14 DEF PmmInv

(* What a caller can do, once pmm_init is through: get a frame or none ... *)
Gets(i) ==
    /\ i \in LowPages..(max_ram_page - 1) /\ i \notin bitmap
    /\ bitmap' = bitmap \cup {i} /\ free_pages' = free_pages - 1
    /\ held' = held \cup {i} /\ answer' = i /\ last_alloc_index' = i

GetsNone == FindsNothing /\ answer' = NoFrame /\ UNCHANGED <<bitmap, free_pages, held, last_alloc_index>>

(* ... and give one back, if it is one the caller holds. *)
GivesBack(f) ==
    /\ f \in held
    /\ bitmap' = bitmap \ {f} /\ free_pages' = free_pages + 1
    /\ held' = held \ {f} /\ UNCHANGED <<answer, last_alloc_index>>

IsIgnored == UNCHANGED <<bitmap, free_pages, held, answer, last_alloc_index>>

Serving == Ready /\ UNCHANGED <<e820, step, total_pages, max_ram_page>>

LEMMA AllocPageEffect ==
    ASSUME AllocPage
    PROVE  Serving /\ (GetsNone \/ \E i \in Nat : Gets(i))
<1>1. LowPages \in Nat
  BY SizeAssumption DEF LowPages
<1>2. ASSUME NEW i \in 0..(max_ram_page - 1), Finds(i), Take(i) PROVE i \in Nat /\ Gets(i)
  BY <1>2 DEF Finds, IsNextFit, Allocatable, Take, Gets
<1> QED
  BY <1>2 DEF AllocPage, Serving, GetsNone

LEMMA FreePageEffect ==
    ASSUME PmmInv, NEW paddr \in Nat, FreePage(paddr)
    PROVE  Serving /\ (IsIgnored \/ \E f \in held : GivesBack(f))
<1>1. CASE Ignored(paddr)
  BY <1>1 DEF FreePage, Serving, IsIgnored
<1>2. CASE ~ Ignored(paddr)
  <2>1. LowPages \in Nat /\ max_ram_page \in Int
    BY SizeAssumption DEF LowPages, PmmInv, TypeOK
  <2>2. FloorPage(paddr) \in Nat
    BY SizeAssumption, DivisionBounds DEF FloorPage
  <2>3. /\ paddr % PageSize = 0 /\ FloorPage(paddr) \in bitmap
        /\ FloorPage(paddr) \in LowPages..(max_ram_page - 1)
    BY <1>2, <2>1, <2>2 DEF Ignored
  <2>4. FloorPage(paddr) \in held
    BY <2>3 DEF FreePage, Undefined
  <2>5. GivesBack(FloorPage(paddr))
    BY <1>2, <2>4 DEF FreePage, GivesBack
  <2> QED
    BY <2>4, <2>5 DEF FreePage, Serving
<1> QED
  BY <1>1, <1>2

(* A frame that the search can find belongs to nobody. *)
LEMMA ClearFrameIsFree ==
    ASSUME PmmInv, Ready, NEW i \in LowPages..(max_ram_page - 1), i \notin bitmap
    PROVE  i \in 0..(total_pages - 1) /\ ~ Reserved(i) /\ i \notin held
<1>1. LowPages \in Nat /\ total_pages \in Nat /\ max_ram_page \in 0..total_pages
  BY SizeAssumption DEF LowPages, PmmInv, TypeOK
<1>2. i \in 0..(total_pages - 1)
  BY <1>1
<1> QED
  BY <1>2, ReservedIsLocked DEF PmmInv, NoReservedFrameIsHeld

(* The conjuncts that a call of a ready manager leaves alone. *)
LEMMA ServingKeepsRest ==
    ASSUME PmmInv, Serving
    PROVE  /\ MemoryMeasured' /\ HeldOnceReady' /\ InitiallyEmpty'
           /\ Regions' = Regions /\ (\A p : Reserved(p)' = Reserved(p))
           /\ \A a, n : PagesOf(a, n)' = PagesOf(a, n)
           /\ Len(Regions) \in Nat /\ step = Len(Regions) + 1 /\ step > NotStarted
<1>1. Len(Regions) \in Nat
  BY RegionsTyped, LenProperties DEF PmmInv, TypeOK
<1>2. Regions' = Regions /\ \A p : Reserved(p)' = Reserved(p)
  BY RegionsStay DEF Serving
<1>3. Ready'
  BY <1>2 DEF Serving, Ready
<1>4. step = Len(Regions) + 1 /\ step > NotStarted
  BY <1>1 DEF Serving, Ready, NotStarted
<1>5. MemoryMeasured'
  BY DEF Serving, PmmInv, MemoryMeasured
<1>6. HeldOnceReady' /\ InitiallyEmpty'
  BY <1>1, <1>3, <1>4 DEF HeldOnceReady, InitiallyEmpty, Serving, NotStarted
<1> QED
  BY <1>1, <1>2, <1>4, <1>5, <1>6 DEF PagesOf, Serving

LEMMA GetsKeeps ==
    ASSUME PmmInv, Serving, NEW i \in Nat, Gets(i)
    PROVE  PmmInv'
<1>1. i \in 0..(total_pages - 1) /\ ~ Reserved(i) /\ i \notin held
  BY ClearFrameIsFree DEF Gets, Serving
<1>2. /\ total_pages \in Nat /\ bitmap \in SUBSET (0..(total_pages - 1))
      /\ free_pages = Cardinality((0..(total_pages - 1)) \ bitmap)
  BY ServingKeepsRest DEF PmmInv, TypeOK, CountMatchesBitmap
<1>3. bitmap' \in SUBSET (0..(total_pages - 1))
  BY <1>1, <1>2 DEF Gets
<1>4. free_pages' = Cardinality((0..(total_pages - 1)) \ bitmap')
  <2>1. \A p \in (0..(total_pages - 1)) \ bitmap :
           Cardinality((0..(total_pages - 1)) \ (bitmap \cup {p}))
             = Cardinality((0..(total_pages - 1)) \ bitmap) - 1
    BY <1>2, ClearBits, Zenon
  <2>2. i \in (0..(total_pages - 1)) \ bitmap
    BY <1>1 DEF Gets
  <2> QED
    BY <1>2, <2>1, <2>2 DEF Gets
<1>5. TypeOK'
  <2>1. free_pages' \in 0..total_pages
    BY <1>2, <1>3, <1>4, ClearBits
  <2>2. held' \subseteq LowPages..(max_ram_page - 1)
    BY DEF Gets, PmmInv, TypeOK
  <2>3. step' \in 1..(Len(Regions') + 1)
    BY ServingKeepsRest DEF Serving, NotStarted
  <2>4. answer' \in held'
    BY DEF Gets
  <2>5. last_alloc_index' \in Nat
    BY DEF Gets
  <2> QED
    BY <1>3, <2>1, <2>2, <2>3, <2>4, <2>5 DEF Serving, PmmInv, TypeOK, LowPages
<1>6. CountMatchesBitmap'
  BY <1>4 DEF CountMatchesBitmap, Serving
<1>7. NoReservedFrameIsHeld'
  BY <1>1, ServingKeepsRest DEF Gets, PmmInv, NoReservedFrameIsHeld
<1>8. RegionsLocked'
  <2> SUFFICES ASSUME NEW k \in 1..Len(Regions), k < step, ~ IsRam(Regions[k])
               PROVE  PagesOf(Regions[k].addr, Regions[k].size) \subseteq bitmap'
    BY ServingKeepsRest DEF RegionsLocked, Serving
  <2> QED
    BY ServingKeepsRest DEF PmmInv, RegionsLocked, Gets
<1>9. InUseForAReason'
  BY ServingKeepsRest DEF PmmInv, InUseForAReason, Gets
<1> QED
  BY <1>5, <1>6, <1>7, <1>8, <1>9, ServingKeepsRest DEF PmmInv

LEMMA GivesBackKeeps ==
    ASSUME PmmInv, Serving, NEW f \in held, GivesBack(f)
    PROVE  PmmInv'
<1>1. /\ total_pages \in Nat /\ bitmap \in SUBSET (0..(total_pages - 1))
      /\ free_pages = Cardinality((0..(total_pages - 1)) \ bitmap)
  BY ServingKeepsRest DEF PmmInv, TypeOK, CountMatchesBitmap
<1>2. f \in bitmap /\ ~ Reserved(f)
  BY DEF PmmInv, NoReservedFrameIsHeld
<1>3. bitmap' \in SUBSET (0..(total_pages - 1))
  BY <1>1 DEF GivesBack
<1>4. free_pages' = Cardinality((0..(total_pages - 1)) \ bitmap')
  <2>1. \A p \in bitmap :
           Cardinality((0..(total_pages - 1)) \ (bitmap \ {p}))
             = Cardinality((0..(total_pages - 1)) \ bitmap) + 1
    BY <1>1, ClearBits, Zenon
  <2> QED
    BY <1>1, <1>2, <2>1 DEF GivesBack
<1>5. TypeOK'
  <2>1. free_pages' \in 0..total_pages
    BY <1>1, <1>3, <1>4, ClearBits
  <2>2. held' \subseteq LowPages..(max_ram_page - 1)
    BY DEF GivesBack, PmmInv, TypeOK
  <2>3. step' \in 1..(Len(Regions') + 1)
    BY ServingKeepsRest DEF Serving, NotStarted
  <2>4. answer' \in {NoFrame} \cup 0..(total_pages - 1)
    <3>1. held \subseteq 0..(total_pages - 1)
      BY <1>1 DEF PmmInv, NoReservedFrameIsHeld
    <3> QED
      BY <3>1 DEF GivesBack, PmmInv, TypeOK
  <2> QED
    BY <1>3, <2>1, <2>2, <2>3, <2>4 DEF GivesBack, Serving, PmmInv, TypeOK, LowPages
<1>6. CountMatchesBitmap'
  BY <1>4 DEF CountMatchesBitmap, Serving
<1>7. NoReservedFrameIsHeld'
  BY ServingKeepsRest DEF GivesBack, PmmInv, NoReservedFrameIsHeld
<1>8. RegionsLocked'
  <2> SUFFICES ASSUME NEW k \in 1..Len(Regions), k < step, ~ IsRam(Regions[k])
               PROVE  PagesOf(Regions[k].addr, Regions[k].size) \subseteq bitmap'
    BY ServingKeepsRest DEF RegionsLocked, Serving
  <2>1. PagesOf(Regions[k].addr, Regions[k].size) \subseteq bitmap
    BY ServingKeepsRest DEF PmmInv, RegionsLocked
  <2>2. f \notin PagesOf(Regions[k].addr, Regions[k].size)
    <3>1. Regions[k] \in Areas
      BY RegionsTyped, ElementOfSeq DEF PmmInv, TypeOK
    <3>2. f \in 0..(total_pages - 1)
      BY <1>1, <1>2
    <3>3. ~ Overlaps(f, Regions[k])
      BY <1>2 DEF Reserved
    <3> QED
      BY <1>1, <3>1, <3>2, <3>3, PagesAreOverlaps
  <2> QED
    BY <2>1, <2>2 DEF GivesBack
<1>9. InUseForAReason'
  BY ServingKeepsRest DEF PmmInv, InUseForAReason, GivesBack
<1> QED
  BY <1>5, <1>6, <1>7, <1>8, <1>9, ServingKeepsRest DEF PmmInv

LEMMA UnchangedKeeps ==
    ASSUME PmmInv, UNCHANGED <<e820, step, total_pages, max_ram_page, bitmap, free_pages, held>>,
           answer' \in {NoFrame, answer}, last_alloc_index' = last_alloc_index
    PROVE  PmmInv'
<1>1. Regions' = Regions /\ (\A p : Reserved(p)' = Reserved(p))
  BY RegionsStay
<1>2. TypeOK' /\ MemoryMeasured' /\ CountMatchesBitmap'
  BY <1>1 DEF PmmInv, TypeOK, MemoryMeasured, CountMatchesBitmap, LowPages
<1>3. NoReservedFrameIsHeld' /\ InUseForAReason'
  BY <1>1 DEF PmmInv, NoReservedFrameIsHeld, InUseForAReason
<1>4. RegionsLocked'
  BY <1>1 DEF PmmInv, RegionsLocked, PagesOf
<1>5. HeldOnceReady' /\ InitiallyEmpty'
  BY <1>1 DEF PmmInv, HeldOnceReady, InitiallyEmpty, Ready
<1> QED
  BY <1>2, <1>3, <1>4, <1>5 DEF PmmInv

LEMMA NextKeepsPmm == PmmInv /\ [Next]_vars => PmmInv'
<1> SUFFICES ASSUME PmmInv, [Next]_vars PROVE PmmInv'
  OBVIOUS
<1>1. CASE PmmInit
  BY <1>1, PmmInitKeeps
<1>2. CASE LockRegion
  BY <1>2, LockRegionKeeps
<1>3. CASE AllocPage
  <2>1. CASE \E i \in Nat : Serving /\ Gets(i)
    BY <2>1, GetsKeeps
  <2>2. CASE Serving /\ GetsNone
    BY <2>2, UnchangedKeeps DEF Serving, GetsNone
  <2> QED
    BY <1>3, <2>1, <2>2, AllocPageEffect
<1>4. ASSUME NEW paddr \in 0..(BitmapPages * PageSize - 1), FreePage(paddr) PROVE PmmInv'
  <2>1. paddr \in Nat
    BY SizeAssumption
  <2>2. CASE \E f \in held : Serving /\ GivesBack(f)
    BY <2>2, GivesBackKeeps
  <2>3. CASE Serving /\ IsIgnored
    BY <2>3, UnchangedKeeps DEF Serving, IsIgnored
  <2> QED
    BY <1>4, <2>1, <2>2, <2>3, FreePageEffect
<1>5. CASE Halted \/ UNCHANGED vars
  BY <1>5, UnchangedKeeps DEF Halted, vars
<1> QED
  BY <1>1, <1>2, <1>3, <1>4, <1>5 DEF Next

(* pmm_init and every sequence of calls keep the bitmap, the count and the *)
(* callers' frames together.                                               *)
THEOREM PmmInvariant == Spec => []PmmInv
  BY InitPmm, NextKeepsPmm, PTL DEF Spec

(* The count of free pages and the page numbers stay within the memory:    *)
(* the count of free pages, an unsigned number, never goes below zero.     *)
THEOREM PmmTypeCorrectness == Spec => []TypeOK
<1>1. PmmInv => TypeOK
  BY DEF PmmInv
<1> QED
  BY <1>1, PmmInvariant, PTL

(* However the regions of the firmware overlap, and whatever is freed      *)
(* twice or freed without being held, pmm_free_pages is the number of      *)
(* clear bits.                                                             *)
THEOREM PmmCountIsRight == Spec => []CountMatchesBitmap
<1>1. PmmInv => CountMatchesBitmap
  BY DEF PmmInv
<1> QED
  BY <1>1, PmmInvariant, PTL

(* For every E820 map: no frame that a caller holds shares a byte with a   *)
(* reserved entry, the kernel or the low memory.                           *)
THEOREM PmmNeverHandsOutReserved == Spec => []NoReservedFrameIsHeld
<1>1. PmmInv => NoReservedFrameIsHeld
  BY DEF PmmInv
<1> QED
  BY <1>1, PmmInvariant, PTL

----------------------------------------------------------------------------
(* The manager implements a pool of frames. *)

(* The search, from wherever the last one ended, finds a frame when a      *)
(* frame of RAM is free.                                                   *)
LEMMA SearchFinds ==
    ASSUME PmmInv, Allocatable # {}
    PROVE  \E i \in 0..(max_ram_page - 1) : IsNextFit(i)
<1> DEFINE start == last_alloc_index % max_ram_page
           D     == {Distance(i) : i \in Allocatable}
<1>1. /\ LowPages \in Nat /\ max_ram_page \in Nat
      /\ last_alloc_index \in Nat
  BY SizeAssumption DEF LowPages, PmmInv, TypeOK
<1>2. \A i \in Allocatable : i \in 0..(max_ram_page - 1)
  BY <1>1 DEF Allocatable
<1>3. max_ram_page # 0
  BY <1>1, <1>2
<1>4. start \in 0..(max_ram_page - 1)
  BY <1>1, <1>3
<1>5. D \in SUBSET Nat /\ D # {}
  <2>1. \A i \in Allocatable : Distance(i) = IF i >= start THEN i - start ELSE i + max_ram_page - start
    BY DEF Distance
  <2> HIDE DEF start
  <2>2. \A i \in Allocatable : Distance(i) \in Nat
    BY <1>1, <1>2, <1>4, <2>1
  <2> QED
    BY <2>2
<1>6. PICK d \in D : \A x \in D : d <= x
  <2> HIDE DEF D
  <2> QED
    BY <1>5, LeastOfNaturals
<1>7. PICK i \in Allocatable : d = Distance(i)
  OBVIOUS
<1>8. \A j \in Allocatable : Distance(i) <= Distance(j)
  BY <1>6, <1>7
<1> QED
  BY <1>2, <1>7, <1>8 DEF IsNextFit

LEMMA InitRefinesPool == Init => Promise!Init
  BY DEF Init, Promise!Init

LEMMA StepRefinesPool == PmmInv /\ [Next]_vars => [Promise!Next]_(Promise!poolVars)
<1> SUFFICES ASSUME PmmInv, [Next]_vars PROVE Promise!Next \/ UNCHANGED <<Pool, held, answer>>
  BY DEF Promise!poolVars
<1>1. CASE PmmInit \/ LockRegion \/ Halted \/ UNCHANGED vars
  <2>1. UNCHANGED <<e820, held, answer>>
    BY <1>1 DEF PmmInit, LockRegion, Halted, vars
  <2> QED
    BY <2>1, RegionsStay
<1>2. ASSUME Serving, NEW i \in Nat, Gets(i) PROVE Promise!Next
  <2>1. ~ Reserved(i) /\ i \notin held
    BY <1>2, ClearFrameIsFree DEF Gets, Serving
  <2>2. i \in Pool /\ Pool' = Pool
    BY <1>2, <2>1, ServingKeepsRest, RegionsStay DEF Pool, Gets, Serving, PmmInv, MemoryMeasured, NotStarted
  <2>3. Promise!Alloc(i)
    BY <1>2, <2>1, <2>2 DEF Promise!Alloc, Gets
  <2> QED
    BY <2>2, <2>3 DEF Promise!Next
<1>3. ASSUME Serving, GetsNone PROVE Promise!Next
  <2>1. /\ LowPages \in Nat /\ total_pages \in Nat /\ max_ram_page \in 0..total_pages
        /\ bitmap \in SUBSET (0..(total_pages - 1))
        /\ step > NotStarted
    BY <1>3, ServingKeepsRest, SizeAssumption DEF LowPages, PmmInv, TypeOK
  <2>2. Pool \subseteq LowPages..(max_ram_page - 1)
    BY <2>1 DEF Pool, PmmInv, MemoryMeasured, NotStarted
  <2>3. \A p \in LowPages..(max_ram_page - 1) : p \in bitmap
    <3>1. CASE free_pages = 0
      <4>1. bitmap = 0..(total_pages - 1)
        BY <2>1, <3>1, ClearBits DEF PmmInv, CountMatchesBitmap
      <4> QED
        BY <2>1, <4>1
    <3>2. CASE max_ram_page = 0
      BY <2>1, <3>2
    <3>3. CASE ~ \E i \in 0..(max_ram_page - 1) : IsNextFit(i)
      BY <3>3, SearchFinds DEF Allocatable
    <3> QED
      BY <1>3, <3>1, <3>2, <3>3 DEF GetsNone, FindsNothing
  <2>4. Pool \subseteq held
    BY <2>1, <2>2, <2>3 DEF Pool, PmmInv, InUseForAReason
  <2>5. Promise!Exhausted
    BY <1>3, <2>4, RegionsStay DEF Promise!Exhausted, GetsNone, Serving
  <2> QED
    BY <2>5 DEF Promise!Next
<1>4. ASSUME Serving, NEW f \in held, GivesBack(f) PROVE Promise!Next
  <2>1. Promise!Free(f)
    BY <1>4, RegionsStay DEF Promise!Free, GivesBack, Serving
  <2> QED
    BY <2>1 DEF Promise!Next
<1>5. ASSUME Serving, IsIgnored PROVE UNCHANGED <<Pool, held, answer>>
  BY <1>5, RegionsStay DEF IsIgnored, Serving
<1>6. CASE AllocPage
  BY <1>2, <1>3, <1>6, AllocPageEffect
<1>7. ASSUME NEW paddr \in 0..(BitmapPages * PageSize - 1), FreePage(paddr)
      PROVE  Promise!Next \/ UNCHANGED <<Pool, held, answer>>
  <2>1. paddr \in Nat
    BY SizeAssumption
  <2> QED
    BY <1>4, <1>5, <1>7, <2>1, FreePageEffect
<1> QED
  BY <1>1, <1>6, <1>7 DEF Next

(* pmm.c keeps the promise of pmm.h: each frame of the pool goes to one    *)
(* caller at a time, and "no frame" means that every frame of the pool is  *)
(* held.                                                                   *)
THEOREM PmmImplementsFramePool == Spec => ImplementsFramePool
<1> SUFFICES Spec => Promise!Spec
  BY DEF ImplementsFramePool
<1> QED
  BY InitRefinesPool, StepRefinesPool, PmmInvariant, PTL DEF Spec, Promise!Spec

----------------------------------------------------------------------------
(* The dumps.  The pass of pmm_dump_regions and the concatenation of the   *)
(* lines are recursive functions, which exist because no page (no line) is *)
(* the first up to which there is none; what they hold is shown in the     *)
(* same way, by the first page (line) at which it would not be so.         *)

Wanted(used) == {q \in Nat : (q \in bitmap) = used}

StartOfScan == [start |-> 0, in_run |-> FALSE, out |-> << >>]

ScanStep(f, p, used) ==
    IF p = 0 THEN StartOfScan ELSE Scan(f[p - 1], p - 1, (p - 1 \in bitmap) = used)

ScansTo(f, limit, used) == f = [p \in 0..limit |-> ScanStep(f, p, used)]

LEMMA SomethingScans ==
    ASSUME NEW limit \in Nat, NEW used \in BOOLEAN
    PROVE  \E f : ScansTo(f, limit, used)
<1> DEFINE Bad == {n \in Nat : ~ \E f : ScansTo(f, n, used)}
<1>1. 0 \notin Bad
  <2> DEFINE f == [p \in 0..0 |-> StartOfScan]
  <2>1. f = [p \in 0..0 |-> ScanStep(f, p, used)]
    BY DEF ScanStep
  <2> QED
    BY <2>1 DEF ScansTo
<1>2. ASSUME NEW n \in Nat, n \notin Bad PROVE n + 1 \notin Bad
  <2>1. PICK f : ScansTo(f, n, used)
    BY <1>2
  <2> DEFINE g == [p \in 0..(n + 1) |->
                      IF p = n + 1 THEN ScanStep(f, p, used) ELSE f[p]]
  <2>2. /\ \A p \in 0..(n + 1) : g[p] = IF p = n + 1 THEN ScanStep(f, p, used) ELSE f[p]
        /\ g = [p \in 0..(n + 1) |-> g[p]]
    OBVIOUS
  <2> HIDE DEF g
  <2>3. \A p \in 0..(n + 1) : p = 0 \/ g[p - 1] = f[p - 1]
    BY <2>2
  <2>4. \A p \in 0..(n + 1) : ScanStep(g, p, used) = ScanStep(f, p, used)
    BY <2>3, Zenon DEF ScanStep
  <2>5. \A p \in 0..(n + 1) : g[p] = ScanStep(f, p, used)
    <3>1. \A p \in 0..n : f[p] = ScanStep(f, p, used)
      BY <2>1 DEF ScansTo
    <3>2. \A p \in 0..(n + 1) : p = n + 1 \/ p \in 0..n
      OBVIOUS
    <3> QED
      BY <2>2, <3>1, <3>2
  <2>6. g = [p \in 0..(n + 1) |-> ScanStep(g, p, used)]
    BY <2>2, <2>4, <2>5
  <2> QED
    BY <2>6 DEF ScansTo
<1>3. Bad = {}
  <2> SUFFICES ASSUME Bad # {} PROVE FALSE
    OBVIOUS
  <2>1. Bad \in SUBSET Nat
    OBVIOUS
  <2> HIDE DEF Bad
  <2>2. PICK m \in Bad : \A x \in Bad : m <= x
    BY <2>1, LeastOfNaturals
  <2>3. m \in Nat /\ m # 0 /\ m - 1 \in Nat /\ m - 1 \notin Bad
    BY <1>1, <2>1, <2>2
  <2> QED
    BY <1>2, <2>2, <2>3
<1> QED
  BY <1>3

(* What the pass knows when it comes to page p *)
Runs == Seq([from : Nat, to : Nat])

OpenPages(s, p) == IF s.in_run THEN s.start..(p - 1) ELSE {}
NextRunFrom(s, p) == IF s.in_run THEN s.start ELSE p

ScanInv(s, p, used) ==
    /\ s \in [start : Nat, in_run : BOOLEAN, out : Runs]
    /\ s.in_run => s.start < p
    /\ PagesIn(s.out) \cup OpenPages(s, p) = Wanted(used) \cap (0..(p - 1))
    /\ AreMaximal(s.out)
    /\ \A k \in 1..Len(s.out) : s.out[k].to + 1 < NextRunFrom(s, p)

LEMMA RunsHaveEnds ==
    ASSUME NEW runs \in Runs, NEW k \in 1..Len(runs)
    PROVE  runs[k].from \in Nat /\ runs[k].to \in Nat
<1> DEFINE R == [from : Nat, to : Nat]
<1>1. runs \in Seq(R)
  BY DEF Runs
<1> HIDE DEF R
<1>2. runs[k] \in R
  BY <1>1, ElementOfSeq
<1> QED
  BY <1>2 DEF R

LEMMA RunIsAppended ==
    ASSUME NEW runs \in Runs, NEW from \in Nat, NEW to \in Nat, AreMaximal(runs),
           \A k \in 1..Len(runs) : runs[k].to + 1 < from
    PROVE  LET longer == Append(runs, Run(from, to))
           IN  /\ longer \in Runs /\ AreMaximal(longer)
               /\ PagesIn(longer) = PagesIn(runs) \cup (from..to)
               /\ \A k \in 1..Len(longer) : longer[k].to <= to \/ longer[k].to + 1 < from
<1> DEFINE longer == Append(runs, Run(from, to))
           n == Len(runs)
<1>1. /\ longer \in Runs /\ n \in Nat /\ Len(longer) = n + 1
      /\ \A k \in 1..n : longer[k] = runs[k]
      /\ longer[n + 1] = Run(from, to)
  BY DEF Runs, Run
<1>2. 1..(n + 1) = (1..n) \cup {n + 1}
  BY <1>1
<1>3. Run(from, to).from = from /\ Run(from, to).to = to
  BY DEF Run
<1> HIDE DEF longer
<1>4. AreMaximal(longer)
  <2> SUFFICES ASSUME NEW k \in 1..n PROVE longer[k].to + 1 < longer[k + 1].from
    BY <1>1 DEF AreMaximal
  <2>1. CASE k = n
    BY <1>1, <1>3, <2>1
  <2>2. CASE k # n
    <3>1. k \in 1..(n - 1) /\ k + 1 \in 1..n
      BY <1>1, <2>2
    <3> QED
      BY <1>1, <3>1 DEF AreMaximal
  <2> QED
    BY <2>1, <2>2
<1>5. PagesIn(longer) = PagesIn(runs) \cup (from..to)
  <2>1. \A x : x \in PagesIn(longer) <=> \E k \in 1..(n + 1) : x \in longer[k].from..longer[k].to
    BY <1>1 DEF PagesIn
  <2>2. \A x : x \in PagesIn(runs) <=> \E k \in 1..n : x \in runs[k].from..runs[k].to
    BY DEF PagesIn
  <2>3. \A x : x \in PagesIn(longer) <=> x \in PagesIn(runs) \/ x \in from..to
    <3> TAKE x
    <3>1. ASSUME NEW k \in 1..(n + 1), x \in longer[k].from..longer[k].to
          PROVE  x \in PagesIn(runs) \/ x \in from..to
      BY <1>1, <1>2, <1>3, <2>2, <3>1
    <3>2. ASSUME x \in PagesIn(runs) PROVE x \in PagesIn(longer)
      BY <1>1, <1>2, <2>1, <2>2, <3>2
    <3>3. ASSUME x \in from..to PROVE x \in PagesIn(longer)
      BY <1>1, <1>2, <1>3, <2>1, <3>3
    <3> QED
      BY <2>1, <3>1, <3>2, <3>3
  <2> QED
    BY <2>3
<1>6. \A k \in 1..Len(longer) : longer[k].to <= to \/ longer[k].to + 1 < from
  BY <1>1, <1>2, <1>3
<1> QED
  BY <1>1, <1>4, <1>5, <1>6 DEF longer

LEMMA RunIsClosed ==
    ASSUME NEW p \in Nat, NEW s, NEW used \in BOOLEAN, ScanInv(s, p, used), s.in_run
    PROVE  LET longer == Append(s.out, Run(s.start, p - 1))
           IN  /\ longer \in Runs /\ AreMaximal(longer)
               /\ PagesIn(longer) = Wanted(used) \cap (0..(p - 1))
               /\ \A k \in 1..Len(longer) : longer[k].to + 1 < p + 1
<1>1. /\ s.out \in Runs /\ s.start \in Nat /\ s.start < p /\ p - 1 \in Nat
      /\ AreMaximal(s.out)
      /\ \A k \in 1..Len(s.out) : s.out[k].to + 1 < s.start
      /\ PagesIn(s.out) \cup (s.start..(p - 1)) = Wanted(used) \cap (0..(p - 1))
  BY DEF ScanInv, OpenPages, NextRunFrom
<1> DEFINE longer == Append(s.out, Run(s.start, p - 1))
<1>2. /\ longer \in Runs /\ AreMaximal(longer)
      /\ PagesIn(longer) = PagesIn(s.out) \cup (s.start..(p - 1))
      /\ \A k \in 1..Len(longer) : longer[k].to <= p - 1 \/ longer[k].to + 1 < s.start
  BY <1>1, RunIsAppended
<1> HIDE DEF longer
<1>3. \A k \in 1..Len(longer) : longer[k].to \in Nat
  BY <1>2, RunsHaveEnds
<1>4. \A k \in 1..Len(longer) : longer[k].to + 1 < p + 1
  BY <1>1, <1>2, <1>3
<1> QED
  BY <1>1, <1>2, <1>4 DEF longer

LEMMA ScanKeeps ==
    ASSUME NEW p \in Nat, NEW s, NEW used \in BOOLEAN, ScanInv(s, p, used)
    PROVE  ScanInv(Scan(s, p, (p \in bitmap) = used), p + 1, used)
<1> DEFINE W == Wanted(used)
           w == (p \in bitmap) = used
<1>1. w <=> p \in W
  BY DEF Wanted
<1>2. /\ s \in [start : Nat, in_run : BOOLEAN, out : Runs]
      /\ s.in_run => s.start < p
      /\ PagesIn(s.out) \cup OpenPages(s, p) = W \cap (0..(p - 1))
      /\ AreMaximal(s.out)
      /\ \A k \in 1..Len(s.out) : s.out[k].to \in Nat /\ s.out[k].to + 1 < NextRunFrom(s, p)
  <2>1. s.out \in Runs
    BY DEF ScanInv
  <2> QED
    BY <2>1, RunsHaveEnds DEF ScanInv
<1>3. W \cap (0..((p + 1) - 1)) = IF w THEN (W \cap (0..(p - 1))) \cup {p} ELSE W \cap (0..(p - 1))
  <2>1. 0..((p + 1) - 1) = (0..(p - 1)) \cup {p}
    OBVIOUS
  <2> QED
    BY <1>1, <2>1
<1> HIDE DEF W, w
<1>4. CASE w /\ ~ s.in_run
  <2> DEFINE t == [s EXCEPT !.start = p, !.in_run = TRUE]
  <2>1. Scan(s, p, w) = t
    BY <1>4 DEF Scan
  <2>2. /\ t \in [start : Nat, in_run : BOOLEAN, out : Runs]
        /\ t.start = p /\ t.in_run /\ t.out = s.out
    BY <1>2
  <2> HIDE DEF t
  <2>3. OpenPages(t, p + 1) = {p} /\ OpenPages(s, p) = {}
    BY <1>4, <2>2 DEF OpenPages
  <2>4. NextRunFrom(t, p + 1) = p /\ NextRunFrom(s, p) = p
    BY <1>4, <2>2 DEF NextRunFrom
  <2>5. ScanInv(t, p + 1, used)
    BY <1>2, <1>3, <1>4, <2>2, <2>3, <2>4 DEF ScanInv, W
  <2> QED
    BY <2>1, <2>5 DEF w
<1>5. CASE ~ w /\ s.in_run
  <2> DEFINE longer == Append(s.out, Run(s.start, p - 1))
             t == [s EXCEPT !.in_run = FALSE, !.out = longer]
  <2>1. Scan(s, p, w) = t
    BY <1>5 DEF Scan
  <2>2. /\ longer \in Runs /\ AreMaximal(longer)
        /\ PagesIn(longer) = Wanted(used) \cap (0..(p - 1))
        /\ \A k \in 1..Len(longer) : longer[k].to + 1 < p + 1
    BY <1>5, RunIsClosed
  <2> HIDE DEF longer
  <2>3. /\ t \in [start : Nat, in_run : BOOLEAN, out : Runs]
        /\ ~ t.in_run /\ t.out = longer
    BY <1>2, <2>2
  <2> HIDE DEF t
  <2>4. OpenPages(t, p + 1) = {} /\ NextRunFrom(t, p + 1) = p + 1
    BY <2>3 DEF OpenPages, NextRunFrom
  <2>5. ScanInv(t, p + 1, used)
    BY <1>3, <1>5, <2>2, <2>3, <2>4 DEF ScanInv, W
  <2> QED
    BY <2>1, <2>5 DEF w
<1>6. CASE w /\ s.in_run
  <2>1. Scan(s, p, w) = s
    BY <1>6 DEF Scan
  <2>2. OpenPages(s, p + 1) = OpenPages(s, p) \cup {p}
    BY <1>2, <1>6 DEF OpenPages
  <2>3. NextRunFrom(s, p + 1) = NextRunFrom(s, p)
    BY <1>6 DEF NextRunFrom
  <2>4. PagesIn(s.out) \cup OpenPages(s, p + 1) = W \cap (0..((p + 1) - 1))
    BY <1>2, <1>3, <1>6, <2>2
  <2>5. ScanInv(s, p + 1, used)
    BY <1>2, <2>3, <2>4 DEF ScanInv, W
  <2> QED
    BY <2>1, <2>5 DEF w
<1>7. CASE ~ w /\ ~ s.in_run
  <2>1. Scan(s, p, w) = s
    BY <1>7 DEF Scan
  <2>2. /\ OpenPages(s, p + 1) = {} /\ OpenPages(s, p) = {}
        /\ NextRunFrom(s, p + 1) = p + 1 /\ NextRunFrom(s, p) = p
    BY <1>7 DEF OpenPages, NextRunFrom
  <2>3. PagesIn(s.out) \cup OpenPages(s, p + 1) = W \cap (0..((p + 1) - 1))
    BY <1>2, <1>3, <1>7, <2>2
  <2>4. ScanInv(s, p + 1, used)
    BY <1>2, <1>7, <2>2, <2>3 DEF ScanInv, W
  <2> QED
    BY <2>1, <2>4 DEF w
<1>8. w \in BOOLEAN /\ s.in_run \in BOOLEAN
  BY <1>2 DEF w
<1> QED
  BY <1>4, <1>5, <1>6, <1>7, <1>8

LEMMA ScanHolds ==
    ASSUME NEW limit \in Nat, NEW used \in BOOLEAN, NEW f, ScansTo(f, limit, used)
    PROVE  ScanInv(f[limit], limit, used)
<1> DEFINE Bad == {n \in 0..limit : ~ ScanInv(f[n], n, used)}
<1>1. \A p \in 0..limit : f[p] = ScanStep(f, p, used)
  BY DEF ScansTo
<1>2. ScanInv(f[0], 0, used)
  <2>1. f[0] = StartOfScan
    BY <1>1 DEF ScanStep
  <2>2. /\ StartOfScan \in [start : Nat, in_run : BOOLEAN, out : Runs]
        /\ ~ StartOfScan.in_run /\ StartOfScan.out = << >>
    BY DEF StartOfScan, Runs
  <2>3. PagesIn(<< >>) = {} /\ AreMaximal(<< >>)
    BY DEF PagesIn, AreMaximal
  <2> QED
    BY <2>1, <2>2, <2>3 DEF ScanInv, OpenPages
<1>3. ASSUME NEW n \in 1..limit, ScanInv(f[n - 1], n - 1, used) PROVE ScanInv(f[n], n, used)
  <2>1. n - 1 \in Nat /\ (n - 1) + 1 = n /\ n # 0 /\ n \in 0..limit
    OBVIOUS
  <2>2. f[n] = Scan(f[n - 1], n - 1, (n - 1 \in bitmap) = used)
    BY <1>1, <2>1, Zenon DEF ScanStep
  <2>3. ScanInv(Scan(f[n - 1], n - 1, (n - 1 \in bitmap) = used), (n - 1) + 1, used)
    BY <1>3, <2>1, ScanKeeps
  <2> QED
    BY <2>1, <2>2, <2>3
<1>4. Bad = {}
  <2> SUFFICES ASSUME Bad # {} PROVE FALSE
    OBVIOUS
  <2>1. Bad \in SUBSET Nat /\ 0 \notin Bad /\ \A n \in Bad : n \in 0..limit
    BY <1>2
  <2>2. \A n \in 1..limit : n - 1 \notin Bad => n \notin Bad
    BY <1>3
  <2> HIDE DEF Bad
  <2>3. PICK m \in Bad : \A x \in Bad : m <= x
    BY <2>1, LeastOfNaturals
  <2>4. m \in 1..limit /\ m - 1 \notin Bad
    BY <2>1, <2>3
  <2> QED
    BY <2>2, <2>3, <2>4
<1> QED
  BY <1>4

LEMMA RunsAreRight ==
    ASSUME NEW used \in BOOLEAN, total_pages \in Nat, max_ram_page \in Nat
    PROVE  LET limit == IF used THEN total_pages ELSE max_ram_page
           IN  /\ PagesIn(PmmDumpRegions(used)) = Wanted(used) \cap (0..(limit - 1))
               /\ AreMaximal(PmmDumpRegions(used))
<1> DEFINE limit == IF used THEN total_pages ELSE max_ram_page
           f == CHOOSE f : ScansTo(f, limit, used)
<1>1. limit \in Nat
  OBVIOUS
<1>2. PmmDumpRegions(used) = CloseOpenRun(f[limit], limit)
  BY Zenon DEF PmmDumpRegions, ScansTo, ScanStep, StartOfScan
<1> HIDE DEF limit
<1>3. ScansTo(f, limit, used)
  BY <1>1, SomethingScans
<1> HIDE DEF f
<1>4. ScanInv(f[limit], limit, used)
  BY <1>1, <1>3, ScanHolds
<1>5. CASE f[limit].in_run
  <2>1. PmmDumpRegions(used) = Append(f[limit].out, Run(f[limit].start, limit - 1))
    BY <1>2, <1>5 DEF CloseOpenRun
  <2> QED
    BY <1>1, <1>4, <1>5, <2>1, RunIsClosed DEF limit
<1>6. CASE ~ f[limit].in_run
  <2>1. PmmDumpRegions(used) = f[limit].out /\ OpenPages(f[limit], limit) = {}
    BY <1>2, <1>6 DEF CloseOpenRun, OpenPages
  <2> QED
    BY <1>4, <2>1 DEF ScanInv, limit
<1> QED
  BY <1>5, <1>6

(* The lines of pmm_dump one after another: a mark for each page *)
Shown(n) == [i \in 1..n |-> i - 1 \in bitmap]

LineEnd(k) == IF k * LineWidth < total_pages THEN k * LineWidth ELSE total_pages

LineStep(f, lines, k) == IF k = 1 THEN lines[k] ELSE f[k - 1] \o lines[k]

LEMMA LinesMeet ==
    ASSUME total_pages \in Nat,
           NEW k \in 1..((total_pages + LineWidth - 1) \div LineWidth)
    PROVE  /\ (k - 1) * LineWidth \in Nat /\ (k - 1) * LineWidth < total_pages
           /\ k * LineWidth = (k - 1) * LineWidth + LineWidth
<1> DEFINE L == LineWidth
           a == total_pages + L - 1
           q == a \div L
<1>1. L \in Nat \ {0} /\ a \in Nat /\ k \in Nat \ {0} /\ k - 1 \in Nat
  BY LineAssumption
<1>2. q \in Nat /\ q * L <= a
  BY <1>1, DivisionBounds
<1>3. k * L <= q * L
  BY <1>1, <1>2, MultiplesAscend
<1>4. k * L = (k - 1) * L + L /\ (k - 1) * L \in Nat
  <2>1. \A x \in Nat : (x + 1) * L = x * L + L /\ x * L \in Nat
    BY <1>1
  <2> QED
    BY <1>1, <2>1
<1> QED
  BY <1>1, <1>2, <1>3, <1>4

LEMMA LineContinues ==
    ASSUME total_pages \in Nat,
           NEW k \in 1..((total_pages + LineWidth - 1) \div LineWidth)
    PROVE  LET line == DumpBitmapLine((k - 1) * LineWidth, k * LineWidth)
           IN  /\ k = 1 => line = Shown(LineEnd(k))
               /\ Shown(LineEnd(k - 1)) \o line = Shown(LineEnd(k))
<1> DEFINE a == (k - 1) * LineWidth
           b == k * LineWidth
           e == LineEnd(k)
           line == DumpBitmapLine(a, b)
<1>1. a \in Nat /\ a < total_pages /\ b \in Nat /\ a <= b /\ (k = 1 => a = 0)
  BY LinesMeet, LineAssumption
<1>2. e = (IF b < total_pages THEN b ELSE total_pages) /\ LineEnd(k - 1) = a
  BY <1>1 DEF LineEnd
<1>3. line = [i \in 1..(IF b < total_pages THEN b - a ELSE total_pages - a)
                 |-> a + i - 1 \in bitmap]
  BY DEF DumpBitmapLine
<1> HIDE DEF a, b, e
<1>4. e \in Nat /\ a <= e /\ line = [i \in 1..(e - a) |-> a + i - 1 \in bitmap]
  BY <1>1, <1>2, <1>3
<1> HIDE DEF line
<1>5. ASSUME k = 1 PROVE line = Shown(e)
  <2>1. a = 0 /\ e - a = e /\ \A i \in 1..e : a + i - 1 = i - 1
    BY <1>1, <1>4, <1>5
  <2> QED
    BY <1>4, <2>1 DEF Shown
<1>6. Shown(a) \o line = Shown(e)
  <2> DEFINE left == Shown(a)
             both == left \o line
  <2>1. left \in Seq(BOOLEAN) /\ Len(left) = a /\ \A i \in 1..a : left[i] = (i - 1 \in bitmap)
    BY <1>1 DEF Shown
  <2>2. line \in Seq(BOOLEAN) /\ Len(line) = e - a
        /\ \A i \in 1..(e - a) : line[i] = (a + i - 1 \in bitmap)
    BY <1>1, <1>4
  <2> HIDE DEF left
  <2>3. /\ both \in Seq(BOOLEAN) /\ Len(both) = Len(left) + Len(line)
        /\ \A i \in 1..(Len(left) + Len(line)) :
               both[i] = IF i <= Len(left) THEN left[i] ELSE line[i - Len(left)]
    BY <2>1, <2>2, ConcatProperties
  <2> HIDE DEF both
  <2>4. /\ Len(left) + Len(line) = e
        /\ \A i \in 1..e : /\ i <= a => i \in 1..a
                           /\ ~ (i <= a) => i - a \in 1..(e - a) /\ a + (i - a) - 1 = i - 1
    BY <1>1, <1>4, <2>1, <2>2
  <2>5. \A i \in 1..e : both[i] = (i - 1 \in bitmap)
    BY <2>1, <2>2, <2>3, <2>4
  <2>6. both = [i \in 1..e |-> both[i]]
    BY <2>3, <2>4
  <2>7. both = Shown(e)
    BY <2>5, <2>6 DEF Shown
  <2> QED
    BY <2>7 DEF both, left
<1> QED
  BY <1>2, <1>5, <1>6 DEF a, b, e, line

LEMMA LinesShowTheBitmap ==
    ASSUME total_pages \in Nat
    PROVE  FlattenSeq(PmmDumpLines) = Shown(total_pages)
<1> DEFINE L == LineWidth
           K == (total_pages + L - 1) \div L
           lines == PmmDumpLines
           Solves(f) == f = [k \in 1..Len(lines) |-> LineStep(f, lines, k)]
           f == CHOOSE f : Solves(f)
<1>1. /\ L \in Nat \ {0} /\ total_pages + L - 1 \in Nat
      /\ K \in Nat /\ total_pages + L - 1 < K * L + L
  <2>1. L \in Nat \ {0} /\ total_pages + L - 1 \in Nat
    BY LineAssumption
  <2> QED
    BY <2>1, DivisionBounds
<1>2. /\ Len(lines) = K /\ (K = 0 => lines = << >>)
      /\ \A k \in 1..K : lines[k] = DumpBitmapLine((k - 1) * L, k * L)
  <2>1. lines = [k \in 1..K |-> DumpBitmapLine((k - 1) * L, k * L)]
    BY DEF PmmDumpLines
  <2> HIDE DEF lines, K
  <2> QED
    BY <1>1, <2>1
<1>3. FlattenSeq(lines) = IF Len(lines) = 0 THEN lines ELSE f[Len(lines)]
  BY Zenon DEF FlattenSeq, LineStep
<1>4. /\ K = 0 => total_pages = 0
      /\ K # 0 => LineEnd(K) = total_pages
  <2>1. total_pages <= K * L
    <3> DEFINE x == K * L
    <3>1. x \in Int
      BY <1>1
    <3> HIDE DEF x, K
    <3>2. total_pages <= x
      BY <1>1, <3>1 DEF x
    <3> QED
      BY <3>2 DEF x
  <2> DEFINE x == K * L
  <2>2. x \in Int /\ (K = 0 => x = 0)
    BY <1>1
  <2> HIDE DEF x, K
  <2> QED
    BY <2>1, <2>2 DEF LineEnd, x
<1>5. ASSUME NEW k \in 1..K
      PROVE  /\ k = 1 => lines[k] = Shown(LineEnd(k))
             /\ Shown(LineEnd(k - 1)) \o lines[k] = Shown(LineEnd(k))
  <2>1. lines[k] = DumpBitmapLine((k - 1) * L, k * L)
    BY <1>2
  <2> HIDE DEF lines
  <2> QED
    BY <2>1, LineContinues
<1> HIDE DEF lines, K
<1>6. Solves(f)
  <2> DEFINE g == [k \in 1..K |-> Shown(LineEnd(k))]
  <2>1. \A k \in 1..K : g[k] = LineStep(g, lines, k)
    <3> SUFFICES ASSUME NEW k \in 1..K PROVE g[k] = LineStep(g, lines, k)
      OBVIOUS
    <3>1. k # 1 => k - 1 \in 1..K
      BY <1>1
    <3> QED
      BY <1>5, <3>1 DEF LineStep
  <2>2. g = [k \in 1..K |-> LineStep(g, lines, k)]
    <3>1. g = [k \in 1..K |-> g[k]]
      OBVIOUS
    <3> HIDE DEF g
    <3> QED
      BY <2>1, <3>1
  <2>3. Solves(g)
    BY <1>2, <2>2
  <2> HIDE DEF Solves, g
  <2> QED
    BY <2>3
<1>7. \A k \in 1..K : f[k] = LineStep(f, lines, k)
  <2> HIDE DEF f
  <2> QED
    BY <1>2, <1>6
<1> HIDE DEF f
<1>8. \A k \in 1..K : f[k] = Shown(LineEnd(k))
  <2> DEFINE Bad == {k \in 1..K : f[k] # Shown(LineEnd(k))}
  <2>1. ASSUME NEW k \in 1..K, k = 1 \/ k - 1 \notin Bad PROVE k \notin Bad
    <3>1. k = 1 \/ k - 1 \in 1..K
      BY <1>1
    <3> QED
      BY <1>5, <1>7, <2>1, <3>1 DEF LineStep
  <2>2. Bad \in SUBSET Nat /\ \A k \in Bad : k \in 1..K
    BY <1>1
  <2>3. Bad = {}
    <3> SUFFICES ASSUME Bad # {} PROVE FALSE
      OBVIOUS
    <3> HIDE DEF Bad
    <3>1. PICK m \in Bad : \A x \in Bad : m <= x
      BY <2>2, LeastOfNaturals
    <3>2. m \in 1..K /\ m - 1 \notin Bad
      BY <2>2, <3>1
    <3> QED
      BY <2>1, <3>1, <3>2
  <2> QED
    BY <2>3
<1>9. CASE K = 0
  <2>1. total_pages = 0 /\ FlattenSeq(lines) = << >>
    BY <1>2, <1>3, <1>4, <1>9
  <2> QED
    BY <2>1 DEF Shown, lines
<1>10. CASE K # 0
  <2>1. FlattenSeq(lines) = f[K] /\ K \in 1..K
    BY <1>1, <1>2, <1>3, <1>10
  <2> QED
    BY <1>4, <1>8, <1>10, <2>1 DEF lines
<1> QED
  BY <1>9, <1>10

LEMMA MarksAreCounted ==
    ASSUME TypeOK, CountMatchesBitmap, Ready
    PROVE  UsedPages = Cardinality({p \in 1..total_pages : Shown(total_pages)[p]})
<1> DEFINE T == total_pages
           All == 0..(T - 1)
           Marks == {p \in 1..T : Shown(T)[p]}
           f == [p \in bitmap |-> p + 1]
<1>1. T \in Nat /\ bitmap \in SUBSET All /\ All \subseteq Int
  BY DEF TypeOK
<1>2. free_pages = Cardinality(All \ bitmap)
  <2>1. step > NotStarted
    <3>1. e820 \in Seq(Entries)
      BY MapAssumption DEF TypeOK, Entries
    <3> DEFINE n == Len(e820)
    <3>2. n \in Nat
      BY <3>1
    <3>3. Len(Regions) = n + 2
      BY <3>1 DEF Regions
    <3> QED
      BY <3>2, <3>3 DEF Ready, NotStarted
  <2> QED
    BY <2>1 DEF CountMatchesBitmap
<1>3. IsFiniteSet(All) /\ IsFiniteSet(bitmap) /\ IsFiniteSet(All \ bitmap)
  <2>1. IsFiniteSet(All)
    BY <1>1, FS_Interval
  <2> QED
    BY <1>1, <2>1, FS_Subset, FS_Difference
<1>4. Cardinality(All) - Cardinality(All \ bitmap) = Cardinality(bitmap)
  <2>1. (All \ bitmap) \cap bitmap = {} /\ (All \ bitmap) \cup bitmap = All
    BY <1>1
  <2>2. Cardinality({}) = 0
    BY FS_EmptySet
  <2>3. /\ Cardinality(All) \in Nat /\ Cardinality(All \ bitmap) \in Nat
        /\ Cardinality(bitmap) \in Nat
    BY <1>3, FS_CardinalityType
  <2> HIDE DEF All
  <2>4. Cardinality((All \ bitmap) \cup bitmap)
          = Cardinality(All \ bitmap) + Cardinality(bitmap)
            - Cardinality((All \ bitmap) \cap bitmap)
    BY <1>3, FS_Union
  <2>5. Cardinality(All) = Cardinality(All \ bitmap) + Cardinality(bitmap) - 0
    BY <2>1, <2>2, <2>4
  <2> QED
    BY <2>3, <2>5
<1>5. Marks = {p \in 1..T : p - 1 \in bitmap}
  BY DEF Shown
<1> HIDE DEF Marks
<1>6. f \in [bitmap -> Marks]
  BY <1>1, <1>5
<1>7. \A p, q \in bitmap : f[p] = f[q] => p = q
  BY <1>1
<1>8. \A m \in Marks : \E p \in bitmap : f[p] = m
  <2> SUFFICES ASSUME NEW m \in Marks PROVE \E p \in bitmap : f[p] = m
    OBVIOUS
  <2>1. m - 1 \in bitmap /\ (m - 1) + 1 = m
    BY <1>5
  <2> QED
    BY <2>1
<1> HIDE DEF f
<1>9. ExistsBijection(bitmap, Marks)
  BY <1>6, <1>7, <1>8 DEF ExistsBijection, Bijection, Injection, IsInjective, Surjection
<1>10. Cardinality(Marks) = Cardinality(bitmap)
  BY <1>3, <1>9, FS_Bijection
<1> QED
  BY <1>2, <1>4, <1>10 DEF UsedPages, Marks

(* Whatever the bitmap and the width of a line: each page in use, and each *)
(* free page of RAM, is in exactly one printed run, runs that touch are    *)
(* one, and the lines have a mark for each page and as many '#' as the     *)
(* count of used pages says.                                               *)
THEOREM PmmDumpsAreRight == Spec => []DumpsShowTheBitmap
<1>1. ASSUME PmmInv, Ready PROVE DumpsShowTheBitmap
  <2>1. /\ TypeOK /\ CountMatchesBitmap
        /\ total_pages \in Nat /\ max_ram_page \in Nat
        /\ bitmap \subseteq 0..(total_pages - 1)
    BY <1>1 DEF PmmInv, TypeOK
  <2>2. /\ PagesIn(PmmDumpRegions(TRUE)) = Wanted(TRUE) \cap (0..(total_pages - 1))
        /\ AreMaximal(PmmDumpRegions(TRUE))
    BY <2>1, RunsAreRight
  <2>3. /\ PagesIn(PmmDumpRegions(FALSE)) = Wanted(FALSE) \cap (0..(max_ram_page - 1))
        /\ AreMaximal(PmmDumpRegions(FALSE))
    BY <2>1, RunsAreRight
  <2>4. Wanted(TRUE) \cap (0..(total_pages - 1)) = bitmap
    <3>1. \A q : q \in Wanted(TRUE) <=> q \in Nat /\ q \in bitmap
      BY Zenon DEF Wanted
    <3>2. \A q \in bitmap : q \in Nat /\ q \in 0..(total_pages - 1)
      BY <2>1
    <3> QED
      BY <3>1, <3>2
  <2>5. Wanted(FALSE) \cap (0..(max_ram_page - 1)) = (0..(max_ram_page - 1)) \ bitmap
    BY <2>1 DEF Wanted
  <2>6. FlattenSeq(PmmDumpLines) = Shown(total_pages)
    BY <2>1, LinesShowTheBitmap
  <2>7. Len(Shown(total_pages)) = total_pages /\ DOMAIN Shown(total_pages) = 1..total_pages
    BY <2>1 DEF Shown
  <2>8. UsedPages = Cardinality({p \in 1..total_pages : Shown(total_pages)[p]})
    BY <1>1, <2>1, MarksAreCounted
  <2> QED
    BY <2>2, <2>3, <2>4, <2>5, <2>6, <2>7, <2>8, Zenon DEF DumpsShowTheBitmap
<1>2. PmmInv => DumpsShowTheBitmap
  BY <1>1 DEF DumpsShowTheBitmap
<1> QED
  BY <1>2, PmmInvariant, PTL
=============================================================================
