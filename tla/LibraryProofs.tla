--------------------------- MODULE LibraryProofs ---------------------------
(***************************************************************************)
(* What string.c, math.c and rand.c compute, for every memory, every pair  *)
(* of addresses and every seed, and what the conversions of vga.c write,   *)
(* for every number and every size of the buffer.  The loops are recursive functions: that   *)
(* one exists and what it holds at each step follows by induction, in the  *)
(* form of a set of numbers that has 0 and, with a number, the next.       *)
(***************************************************************************)
EXTENDS Library, FiniteSetTheorems, SequenceTheorems, WellFoundedInduction, TLAPS

----------------------------------------------------------------------------
(* Induction *)

LEMMA GreatestOfFinite ==
    ASSUME NEW S \in SUBSET Nat, S # {}, IsFiniteSet(S)
    PROVE  \E m \in S : \A x \in S : x <= m
<1> DEFINE From(n) == {x \in S : n <= x}
           Tails   == {From(n) : n \in S}
<1>1. Tails \in SUBSET FiniteSubsetsOf(Nat) /\ Tails # {}
  <2>1. \A n \in S : From(n) \in SUBSET S /\ From(n) \in SUBSET Nat
    OBVIOUS
  <2>2. \A n \in S : IsFiniteSet(From(n))
    BY <2>1, FS_Subset
  <2> QED
    BY <2>1, <2>2 DEF FiniteSubsetsOf
<1>2. PICK s \in Tails : \A t \in Tails : <<t, s>> \notin StrictSubsetOrdering(Nat)
  BY <1>1, FS_StrictSubsetOrderingWellFounded, WFMin
<1>3. PICK m \in S : s = From(m)
  OBVIOUS
<1>4. ASSUME NEW x \in S, m < x PROVE FALSE
  <2>1. m \in From(m) /\ m \notin From(x)
    BY <1>4
  <2>2. From(x) \subseteq From(m)
    <3> SUFFICES ASSUME NEW y \in S, x <= y PROVE m <= y
      OBVIOUS
    <3>1. m \in Nat /\ x \in Nat /\ y \in Nat
      OBVIOUS
    <3> QED
      BY <3>1, <1>4
  <2>3. From(x) \in SUBSET Nat /\ From(m) \in SUBSET Nat
    OBVIOUS
  <2>4. <<From(x), From(m)>> \in StrictSubsetOrdering(Nat)
    BY <2>1, <2>2, <2>3 DEF StrictSubsetOrdering
  <2> QED
    BY <2>4, <1>2, <1>3
<1> QED
  BY <1>4

LEMMA LeastOfNaturals ==
    ASSUME NEW S \in SUBSET Nat, S # {}
    PROVE  \E m \in S : \A x \in S : m <= x
<1> DEFINE L == {n \in Nat : \A x \in S : n <= x}
<1>1. PICK s \in S : TRUE
  OBVIOUS
<1>2. L \in SUBSET Nat /\ 0 \in L /\ \A n \in L : n <= s
  OBVIOUS
<1>3. IsFiniteSet(L)
  BY <1>1, <1>2, FS_BoundedSetOfNaturals
<1>4. PICK m \in L : \A n \in L : n <= m
  BY <1>2, <1>3, GreatestOfFinite
<1>5. m + 1 \notin L
  BY <1>4
<1> QED
  BY <1>4, <1>5

LEMMA Inductive ==
    ASSUME NEW S, 0 \in S, \A n \in Nat : n \in S => n + 1 \in S
    PROVE  \A n \in Nat : n \in S
<1> DEFINE Bad == {n \in Nat : n \notin S}
<1>1. Bad \in SUBSET Nat /\ 0 \notin Bad
  OBVIOUS
<1>2. ASSUME Bad # {} PROVE FALSE
  <2>1. PICK m \in Bad : \A x \in Bad : m <= x
    BY <1>1, <1>2, LeastOfNaturals
  <2>2. m - 1 \in Nat /\ m - 1 \notin Bad /\ (m - 1) + 1 = m
    BY <1>1, <2>1
  <2> QED
    BY <2>1, <2>2
<1> QED
  BY <1>2

----------------------------------------------------------------------------
(* Copying *)

CopyStep(f, mem, dest, src, offset, n) ==
    IF n = 0 THEN mem
    ELSE [f[n - 1] EXCEPT ![dest + offset[n]] = f[n - 1][src + offset[n]]]

CopiesBy(f, mem, dest, src, offset, len) ==
    f = [n \in 0..len |-> CopyStep(f, mem, dest, src, offset, n)]

LEMMA SomethingCopies ==
    ASSUME NEW mem, NEW dest, NEW src, NEW offset, NEW len \in Nat
    PROVE  \E f : CopiesBy(f, mem, dest, src, offset, len)
<1> DEFINE Does(f, n) == CopiesBy(f, mem, dest, src, offset, n)
           Step(f, n) == CopyStep(f, mem, dest, src, offset, n)
           S == {n \in Nat : \E f : Does(f, n)}
<1>1. 0 \in S
  <2> DEFINE f == [n \in 0..0 |-> mem]
  <2>1. f = [n \in 0..0 |-> Step(f, n)]
    BY DEF CopyStep
  <2> QED
    BY <2>1 DEF CopiesBy
<1>2. ASSUME NEW n \in Nat, n \in S PROVE n + 1 \in S
  <2>1. PICK f : Does(f, n)
    BY <1>2
  <2> DEFINE g == [p \in 0..(n + 1) |-> IF p = n + 1 THEN Step(f, p) ELSE f[p]]
  <2>2. /\ \A p \in 0..(n + 1) : g[p] = IF p = n + 1 THEN Step(f, p) ELSE f[p]
        /\ g = [p \in 0..(n + 1) |-> g[p]]
    OBVIOUS
  <2> HIDE DEF g
  <2>3. \A p \in 0..(n + 1) : p = 0 \/ g[p - 1] = f[p - 1]
    BY <2>2
  <2>4. \A p \in 0..(n + 1) : Step(g, p) = Step(f, p)
    BY <2>3, Zenon DEF CopyStep
  <2>5. \A p \in 0..(n + 1) : g[p] = Step(f, p)
    <3> HIDE DEF Step
    <3>1. \A p \in 0..n : f[p] = Step(f, p)
      BY <2>1 DEF CopiesBy, Step
    <3>2. \A p \in 0..(n + 1) : p = n + 1 \/ p \in 0..n
      OBVIOUS
    <3> QED
      BY <2>2, <3>1, <3>2
  <2>6. Does(g, n + 1)
    <3> HIDE DEF Step
    <3>1. g = [p \in 0..(n + 1) |-> Step(g, p)]
      BY <2>2, <2>4, <2>5
    <3> QED
      BY <3>1 DEF CopiesBy, Step
  <2> QED
    BY <2>6
<1> HIDE DEF S
<1>3. len \in S
  BY <1>1, <1>2, Inductive
<1> QED
  BY <1>3 DEF S

(* The bytes at offsets from lo up to hi are those of the source.          *)
Copied(mem, dest, src, lo, hi) ==
    [a \in DOMAIN mem |-> IF a \in (dest + lo)..(dest + hi - 1)
                          THEN mem[src + (a - dest)] ELSE mem[a]]

IsMemory(mem) == DOMAIN mem \subseteq Int /\ mem = [a \in DOMAIN mem |-> mem[a]]

Holds(mem, at, x)    == at + x \in DOMAIN mem
HoldsAll(mem, at, n) == \A x \in 0..(n - 1) : Holds(mem, at, x)

(* The offset next to a range, and the range with it; a byte of the source *)
(* that was not overwritten.                                               *)
Extends(lo, hi, x, low, high) == \/ x = hi /\ low = lo /\ high = hi + 1
                                 \/ x + 1 = lo /\ low = x /\ high = hi

Untouched(dest, src, lo, hi, x) == src + x < dest + lo \/ dest + hi - 1 < src + x

LEMMA OneMoreByte ==
    ASSUME NEW mem, IsMemory(mem), NEW dest \in Nat, NEW src \in Nat,
           NEW lo \in Nat, NEW hi \in Nat, lo <= hi,
           NEW x \in Nat, Holds(mem, dest, x), Holds(mem, src, x),
           Untouched(dest, src, lo, hi, x),
           NEW low \in Nat, NEW high \in Nat, Extends(lo, hi, x, low, high)
    PROVE  LET before == Copied(mem, dest, src, lo, hi)
           IN  [before EXCEPT ![dest + x] = before[src + x]] = Copied(mem, dest, src, low, high)
<1> DEFINE D == DOMAIN mem
           before == Copied(mem, dest, src, lo, hi)
           after  == Copied(mem, dest, src, low, high)
           there  == [before EXCEPT ![dest + x] = before[src + x]]
<1>1. D \subseteq Int /\ dest + x \in D /\ src + x \in D
  BY DEF IsMemory, Holds
<1>2. /\ before = [a \in D |-> before[a]] /\ after = [a \in D |-> after[a]]
      /\ \A a \in D :
             /\ before[a] = IF a \in (dest + lo)..(dest + hi - 1) THEN mem[src + (a - dest)] ELSE mem[a]
             /\ after[a] = IF a \in (dest + low)..(dest + high - 1) THEN mem[src + (a - dest)] ELSE mem[a]
  BY DEF Copied
<1> HIDE DEF before, after, D
<1>3. before[src + x] = mem[src + x]
  BY <1>1, <1>2 DEF Untouched
<1>4. \A a \in D : there[a] = IF a = dest + x THEN mem[src + x] ELSE before[a]
  BY <1>2, <1>3
<1>5. there = [a \in D |-> there[a]]
  BY <1>2
<1> HIDE DEF there
<1>6. ASSUME NEW a \in D PROVE there[a] = after[a]
  <2>1. a \in Int
    BY <1>1
  <2>2. CASE a = dest + x
    <3>1. a \in (dest + low)..(dest + high - 1) /\ src + (a - dest) = src + x
      BY <2>1, <2>2 DEF Extends
    <3> QED
      BY <1>2, <1>4, <2>2, <3>1
  <2>3. CASE a # dest + x
    <3>1. a \in (dest + low)..(dest + high - 1) <=> a \in (dest + lo)..(dest + hi - 1)
      BY <2>1, <2>3 DEF Extends
    <3> QED
      BY <1>2, <1>4, <2>3, <3>1
  <2> QED
    BY <2>2, <2>3
<1>7. there = after
  BY <1>2, <1>5, <1>6
<1> QED
  BY <1>7 DEF before, after, there

LEMMA ByteAbove ==
    ASSUME NEW mem, IsMemory(mem), NEW dest \in Nat, NEW src \in Nat,
           NEW lo \in Nat, NEW hi \in Nat, lo <= hi, NEW high, high = hi + 1,
           Holds(mem, dest, hi), Holds(mem, src, hi), Untouched(dest, src, lo, hi, hi)
    PROVE  LET before == Copied(mem, dest, src, lo, hi)
           IN  [before EXCEPT ![dest + hi] = before[src + hi]] = Copied(mem, dest, src, lo, high)
<1>1. high \in Nat /\ Extends(lo, hi, hi, lo, high)
  BY DEF Extends
<1> QED
  BY <1>1, OneMoreByte

LEMMA NoByteYet ==
    ASSUME NEW mem, IsMemory(mem), NEW dest \in Nat, NEW src \in Nat, NEW n \in Nat
    PROVE  Copied(mem, dest, src, n, n) = mem
<1>1. \A a \in DOMAIN mem : a \notin (dest + n)..(dest + n - 1)
  BY DEF IsMemory
<1>2. Copied(mem, dest, src, n, n) = [a \in DOMAIN mem |-> mem[a]]
  BY <1>1 DEF Copied
<1> QED
  BY <1>2 DEF IsMemory

LEMMA CopyUpwards ==
    ASSUME NEW mem, IsMemory(mem), NEW dest \in Nat, NEW src \in Nat, NEW len \in Nat,
           HoldsAll(mem, dest, len), HoldsAll(mem, src, len),
           dest <= src \/ dest >= src + len
    PROVE  CopyInOrder(mem, dest, src, Upwards(len), len) = Copied(mem, dest, src, 0, len)
<1> DEFINE up == Upwards(len)
           f == CHOOSE f : CopiesBy(f, mem, dest, src, up, len)
<1>1. CopyInOrder(mem, dest, src, up, len) = f[len]
  BY Zenon DEF CopyInOrder, CopiesBy, CopyStep
<1>2. \A n \in 1..len : up[n] = n - 1
  BY DEF Upwards
<1> HIDE DEF up
<1>3. CopiesBy(f, mem, dest, src, up, len)
  BY SomethingCopies
<1> HIDE DEF f
<1>4. \A n \in 0..len : f[n] = CopyStep(f, mem, dest, src, up, n)
  BY <1>3 DEF CopiesBy
<1> DEFINE S == {n \in Nat : n <= len => f[n] = Copied(mem, dest, src, 0, n)}
<1>5. 0 \in S
  <2>1. 0 \in 0..len /\ 0 \in Nat
    OBVIOUS
  <2>2. f[0] = mem
    BY <1>4, <2>1, Zenon DEF CopyStep
  <2> QED
    BY <2>1, <2>2, NoByteYet
<1>6. ASSUME NEW n \in Nat, n \in S PROVE n + 1 \in S
  <2> SUFFICES ASSUME n + 1 <= len PROVE f[n + 1] = Copied(mem, dest, src, 0, n + 1)
    OBVIOUS
  <2>1. n + 1 \in 0..len /\ n + 1 # 0 /\ (n + 1) - 1 = n /\ up[n + 1] = n /\ n \in 0..(len - 1)
    BY <1>2
  <2> DEFINE before == Copied(mem, dest, src, 0, n)
  <2>2. f[n] = before
    BY <1>6
  <2>3. f[n + 1] = [f[n] EXCEPT ![dest + n] = f[n][src + n]]
    <3>1. f[n + 1] = CopyStep(f, mem, dest, src, up, n + 1)
      BY <1>4, <2>1
    <3> QED
      BY <2>1, <3>1, Zenon DEF CopyStep
  <2>4. Holds(mem, dest, n) /\ Holds(mem, src, n)
    BY <2>1 DEF HoldsAll
  <2>5. ASSUME NEW lo \in Nat, lo = 0
        PROVE  [Copied(mem, dest, src, lo, n) EXCEPT
                  ![dest + n] = Copied(mem, dest, src, lo, n)[src + n]]
                 = Copied(mem, dest, src, lo, n + 1)
    <3>1. Untouched(dest, src, lo, n, n) /\ lo <= n
      BY <2>5 DEF Untouched
    <3> QED
      BY <2>4, <3>1, ByteAbove
  <2>6. [before EXCEPT ![dest + n] = before[src + n]] = Copied(mem, dest, src, 0, n + 1)
    BY <2>5
  <2> QED
    BY <2>2, <2>3, <2>6, Zenon
<1> HIDE DEF S
<1>7. len \in S
  BY <1>5, <1>6, Inductive
<1> QED
  BY <1>1, <1>7 DEF S, up

LEMMA CopyDownwards ==
    ASSUME NEW mem, IsMemory(mem), NEW dest \in Nat, NEW src \in Nat, NEW len \in Nat,
           HoldsAll(mem, dest, len), HoldsAll(mem, src, len), src <= dest
    PROVE  CopyInOrder(mem, dest, src, Downwards(len), len) = Copied(mem, dest, src, 0, len)
<1> DEFINE down == Downwards(len)
           f == CHOOSE f : CopiesBy(f, mem, dest, src, down, len)
<1>1. CopyInOrder(mem, dest, src, down, len) = f[len]
  BY Zenon DEF CopyInOrder, CopiesBy, CopyStep
<1>2. \A n \in 1..len : down[n] = len - n
  BY DEF Downwards
<1> HIDE DEF down
<1>3. CopiesBy(f, mem, dest, src, down, len)
  BY SomethingCopies
<1> HIDE DEF f
<1>4. \A n \in 0..len : f[n] = CopyStep(f, mem, dest, src, down, n)
  BY <1>3 DEF CopiesBy
<1> DEFINE S == {n \in Nat : n <= len => f[n] = Copied(mem, dest, src, len - n, len)}
<1>5. 0 \in S
  <2>1. 0 \in 0..len /\ 0 \in Nat /\ len - 0 = len
    OBVIOUS
  <2>2. f[0] = mem
    BY <1>4, <2>1, Zenon DEF CopyStep
  <2> QED
    BY <2>1, <2>2, NoByteYet
<1>6. ASSUME NEW n \in Nat, n \in S PROVE n + 1 \in S
  <2> SUFFICES ASSUME n + 1 <= len PROVE f[n + 1] = Copied(mem, dest, src, len - (n + 1), len)
    OBVIOUS
  <2> DEFINE x == len - (n + 1)
  <2>1. /\ n + 1 \in 0..len /\ n + 1 # 0 /\ (n + 1) - 1 = n /\ down[n + 1] = x
        /\ x \in Nat /\ len - n \in Nat /\ x + 1 = len - n /\ len - n <= len
        /\ x \in 0..(len - 1)
    BY <1>2
  <2>2. f[n] = Copied(mem, dest, src, len - n, len)
    BY <1>6
  <2> HIDE DEF x
  <2>3. f[n + 1] = [f[n] EXCEPT ![dest + x] = f[n][src + x]]
    <3>1. f[n + 1] = CopyStep(f, mem, dest, src, down, n + 1)
      BY <1>4, <2>1
    <3> QED
      BY <2>1, <3>1, Zenon DEF CopyStep
  <2>4. Untouched(dest, src, len - n, len, x) /\ Extends(len - n, len, x, x, len)
    BY <2>1 DEF Untouched, Extends
  <2>5. Holds(mem, dest, x) /\ Holds(mem, src, x)
    BY <2>1 DEF HoldsAll
  <2> DEFINE before == Copied(mem, dest, src, len - n, len)
  <2>6. [before EXCEPT ![dest + x] = before[src + x]] = Copied(mem, dest, src, x, len)
    BY <2>1, <2>4, <2>5, OneMoreByte
  <2>7. f[n + 1] = Copied(mem, dest, src, x, len)
    BY <2>2, <2>3, <2>6, Zenon
  <2> QED
    BY <2>7 DEF x
<1> HIDE DEF S
<1>7. len \in S
  BY <1>5, <1>6, Inductive
<1>8. Copied(mem, dest, src, len - len, len) = Copied(mem, dest, src, 0, len)
  BY DEF Copied
<1> QED
  BY <1>1, <1>7, <1>8 DEF S, down

LEMMA MemoryIsMoved ==
    ASSUME NEW mem, IsMemory(mem), NEW dest \in Nat, NEW src \in Nat, NEW len \in Nat,
           HoldsAll(mem, dest, len), HoldsAll(mem, src, len)
    PROVE  Memmove(mem, dest, src, len) = Copied(mem, dest, src, 0, len)
<1>1. CASE dest = src
  <2>1. Memmove(mem, dest, src, len) = mem /\ \A a \in DOMAIN mem : src + (a - dest) = a
    BY <1>1 DEF Memmove, IsMemory
  <2>2. Copied(mem, dest, src, 0, len) = [a \in DOMAIN mem |-> mem[a]]
    BY <2>1 DEF Copied
  <2> QED
    BY <2>1, <2>2 DEF IsMemory
<1>2. CASE dest < src
  <2>1. Memmove(mem, dest, src, len) = CopyInOrder(mem, dest, src, Upwards(len), len)
    BY <1>2 DEF Memmove, Direction
  <2>2. dest <= src
    BY <1>2
  <2>3. CopyInOrder(mem, dest, src, Upwards(len), len) = Copied(mem, dest, src, 0, len)
    BY <2>2, CopyUpwards
  <2> QED
    BY <2>1, <2>3
<1>3. CASE dest > src
  <2>1. Memmove(mem, dest, src, len) = CopyInOrder(mem, dest, src, Downwards(len), len)
    BY <1>3 DEF Memmove, Direction
  <2>2. src <= dest
    BY <1>3
  <2>3. CopyInOrder(mem, dest, src, Downwards(len), len) = Copied(mem, dest, src, 0, len)
    BY <2>2, CopyDownwards
  <2> QED
    BY <2>1, <2>3
<1> QED
  BY <1>1, <1>2, <1>3

----------------------------------------------------------------------------
(* Strings *)

LEMMA MinIsLeast ==
    ASSUME NEW S \in SUBSET Nat, S # {}
    PROVE  Min(S) \in S /\ \A x \in S : Min(S) <= x
<1>1. \E m \in S : \A x \in S : m <= x
  BY LeastOfNaturals
<1> QED
  BY <1>1 DEF Min

LEMMA MemoryFacts ==
    ASSUME NEW mem \in Memories
    PROVE  /\ IsMemory(mem) /\ DOMAIN mem \in SUBSET Nat
           /\ \A a \in DOMAIN mem : mem[a] \in 0..255
           /\ \E last \in Nat : DOMAIN mem = 0..last /\ mem[last] = 0
<1>1. PICK last \in DOMAIN mem : last \in Nat /\ mem \in [0..last -> 0..255] /\ mem[last] = 0
  BY MemoryAssumption
<1> QED
  BY <1>1 DEF IsMemory

LEMMA TerminatorIsFirst ==
    ASSUME NEW mem \in Memories, NEW s \in DOMAIN mem
    PROVE  /\ Strlen(mem, s) \in Nat /\ s + Strlen(mem, s) \in DOMAIN mem
           /\ mem[s + Strlen(mem, s)] = 0
           /\ \A n \in 0..(Strlen(mem, s) - 1) : s + n \in DOMAIN mem /\ mem[s + n] # 0
<1> DEFINE S == {a \in DOMAIN mem : a >= s /\ mem[a] = 0}
           t == Min(S)
<1>1. PICK last \in Nat : DOMAIN mem = 0..last /\ mem[last] = 0
  BY MemoryFacts
<1>2. S \in SUBSET Nat /\ last \in S /\ s \in Nat
  BY <1>1
<1>3. t \in S /\ \A a \in S : t <= a
  <2> HIDE DEF S
  <2> QED
    BY <1>2, MinIsLeast
<1> HIDE DEF t
<1>4. t \in DOMAIN mem /\ t \in Nat /\ t >= s /\ mem[t] = 0
  BY <1>2, <1>3
<1>5. \A a \in DOMAIN mem : a >= s /\ a < t => mem[a] # 0
  BY <1>1, <1>3, <1>4
<1>6. Strlen(mem, s) = t - s
  BY DEF Strlen, Terminator, t
<1>7. Strlen(mem, s) \in Nat /\ s + Strlen(mem, s) = t
  BY <1>2, <1>4, <1>6
<1>8. ASSUME NEW n \in 0..(Strlen(mem, s) - 1) PROVE s + n \in DOMAIN mem /\ mem[s + n] # 0
  <2>1. s + n >= s /\ s + n < t /\ s + n \in 0..last
    BY <1>1, <1>2, <1>4, <1>7
  <2> QED
    BY <1>1, <1>5, <2>1
<1> QED
  BY <1>4, <1>7, <1>8

(* A string, or the first bytes of it, goes to a place below.              *)
LEMMA BytesGoDown ==
    ASSUME NEW mem \in Memories, NEW d \in DOMAIN mem, NEW s \in DOMAIN mem, NEW len \in Nat,
           d <= s, len <= Strlen(mem, s) + 1
    PROVE  Memcpy(mem, d, s, len) = Copied(mem, d, s, 0, len)
<1>1. PICK last \in Nat : DOMAIN mem = 0..last /\ mem[last] = 0
  BY MemoryFacts
<1>2. /\ Strlen(mem, s) \in Nat /\ s + Strlen(mem, s) \in 0..last
      /\ d \in Nat /\ s \in Nat
  BY <1>1, TerminatorIsFirst
<1>3. HoldsAll(mem, s, len) /\ HoldsAll(mem, d, len)
  BY <1>1, <1>2 DEF HoldsAll, Holds
<1> QED
  BY <1>2, <1>3, MemoryFacts, CopyUpwards DEF Memcpy

LEMMA StringIsCopied ==
    ASSUME NEW mem \in Memories, NEW d \in DOMAIN mem, NEW s \in DOMAIN mem,
           d + Strlen(mem, s) < s
    PROVE  Strcpy(mem, d, s) = Copied(mem, d, s, 0, Strlen(mem, s) + 1)
<1>1. /\ Strlen(mem, s) + 1 \in Nat /\ Strlen(mem, s) + 1 <= Strlen(mem, s) + 1
      /\ d <= s
  BY TerminatorIsFirst, MemoryFacts
<1> QED
  BY <1>1, BytesGoDown DEF Strcpy

LEMMA StringIsCopiedUpTo ==
    ASSUME NEW mem \in Memories, NEW d \in DOMAIN mem, NEW s \in DOMAIN mem,
           d + Strlen(mem, s) < s, NEW n \in 0..(s - d)
    PROVE  Strncpy(mem, d, s, n)
             = [a \in DOMAIN mem |->
                   IF a \notin d..(d + n - 1) THEN mem[a]
                   ELSE IF a - d < Strlen(mem, s) THEN mem[s + (a - d)] ELSE 0]
<1> DEFINE L == Strlen(mem, s)
           c == Min({n, L})
           part == Copied(mem, d, s, 0, c)
<1>1. L \in Nat /\ n \in Nat /\ d \in Nat /\ s \in Nat /\ d <= s /\ DOMAIN mem \subseteq Nat
  BY TerminatorIsFirst, MemoryFacts
<1> HIDE DEF L
<1>2. c \in Nat /\ c <= n /\ c <= L /\ (c = n \/ c = L)
  <2>1. {n, L} \in SUBSET Nat /\ {n, L} # {}
    BY <1>1
  <2> QED
    BY <1>1, <2>1, MinIsLeast
<1> HIDE DEF c
<1>3. Memcpy(mem, d, s, c) = part
  <2>1. c <= Strlen(mem, s) + 1
    BY <1>1, <1>2 DEF L
  <2> QED
    BY <1>1, <1>2, <2>1, BytesGoDown
<1>4. Strncpy(mem, d, s, n) = Memset(part, d + c, 0, n - c)
  BY <1>3 DEF Strncpy, ZeroBytes, L, c
<1>5. /\ DOMAIN part = DOMAIN mem
      /\ \A a \in DOMAIN mem :
             part[a] = IF a \in (d + 0)..(d + c - 1) THEN mem[s + (a - d)] ELSE mem[a]
  BY DEF Copied
<1> HIDE DEF part
<1>6. ASSUME NEW a \in DOMAIN mem
      PROVE  (IF a \in (d + c)..(d + c + (n - c) - 1) THEN 0 ELSE part[a])
                = IF a \notin d..(d + n - 1) THEN mem[a]
                  ELSE IF a - d < L THEN mem[s + (a - d)] ELSE 0
  <2>1. a \in Nat
    BY <1>1
  <2>2. CASE a \in (d + c)..(d + c + (n - c) - 1)
    <3>1. a \in d..(d + n - 1) /\ c < n /\ ~ (a - d < c)
      BY <1>1, <1>2, <2>1, <2>2
    <3>2. c = L
      BY <1>2, <3>1
    <3> QED
      BY <2>2, <3>1, <3>2
  <2>3. CASE a \notin (d + c)..(d + c + (n - c) - 1)
    <3>1. a \in (d + 0)..(d + c - 1) <=> a \in d..(d + n - 1)
      BY <1>1, <1>2, <2>1, <2>3
    <3>2. a \in (d + 0)..(d + c - 1) => a - d < L
      BY <1>1, <1>2, <2>1
    <3> QED
      BY <1>5, <2>3, <3>1, <3>2
  <2> QED
    BY <2>2, <2>3
<1>7. 0 % 256 = 0
  OBVIOUS
<1>8. Memset(part, d + c, 0, n - c)
        = [a \in DOMAIN mem |-> IF a \in (d + c)..(d + c + (n - c) - 1) THEN 0 ELSE part[a]]
  BY <1>5, <1>7 DEF Memset
<1> QED
  BY <1>4, <1>6, <1>8 DEF L

----------------------------------------------------------------------------
(* Comparing *)

Differs(mem, s1, s2, n) == mem[s1 + n] = 0 \/ mem[s1 + n] # mem[s2 + n]

CompareStep(f, mem, s1, s2, n) == IF Differs(mem, s1, s2, n) THEN n ELSE f[n + 1]

ComparesBy(f, mem, s1, s2) ==
    f = [n \in 0..Strlen(mem, s1) |-> CompareStep(f, mem, s1, s2, n)]

(* Where the loop stops when it comes to offset n *)
DiffersFrom(mem, s1, s2, n) == {m \in n..Strlen(mem, s1) : Differs(mem, s1, s2, m)}

LEMMA StopsSomewhere ==
    ASSUME NEW mem \in Memories, NEW s1 \in DOMAIN mem, NEW s2 \in DOMAIN mem,
           NEW n \in 0..Strlen(mem, s1)
    PROVE  /\ Min(DiffersFrom(mem, s1, s2, n)) \in n..Strlen(mem, s1)
           /\ Differs(mem, s1, s2, Min(DiffersFrom(mem, s1, s2, n)))
           /\ \A m \in n..Strlen(mem, s1) :
                  Differs(mem, s1, s2, m) => Min(DiffersFrom(mem, s1, s2, n)) <= m
<1> DEFINE L == Strlen(mem, s1)
           S == DiffersFrom(mem, s1, s2, n)
<1>1. L \in Nat /\ mem[s1 + L] = 0
  BY TerminatorIsFirst
<1>2. Differs(mem, s1, s2, L)
  BY <1>1 DEF Differs
<1>3. S \in SUBSET Nat /\ L \in S
  BY <1>1, <1>2 DEF DiffersFrom
<1>4. Min(S) \in S /\ \A m \in S : Min(S) <= m
  <2> HIDE DEF S
  <2> QED
    BY <1>3, MinIsLeast
<1> QED
  BY <1>4 DEF DiffersFrom

LEMMA SomethingCompares ==
    ASSUME NEW mem \in Memories, NEW s1 \in DOMAIN mem, NEW s2 \in DOMAIN mem
    PROVE  \E f : ComparesBy(f, mem, s1, s2)
<1> DEFINE L == Strlen(mem, s1)
           stop(n) == Min(DiffersFrom(mem, s1, s2, n))
           g == [n \in 0..L |-> stop(n)]
<1>1. L \in Nat
  BY TerminatorIsFirst
<1>2. ASSUME NEW n \in 0..L PROVE g[n] = CompareStep(g, mem, s1, s2, n)
  <2>1. /\ stop(n) \in n..L /\ Differs(mem, s1, s2, stop(n))
        /\ \A m \in n..L : Differs(mem, s1, s2, m) => stop(n) <= m
    BY StopsSomewhere
  <2>2. CASE Differs(mem, s1, s2, n)
    <3>1. stop(n) = n
      BY <1>1, <2>1, <2>2
    <3> QED
      BY <2>2, <3>1 DEF CompareStep
  <2>3. CASE ~ Differs(mem, s1, s2, n)
    <3>1. n # stop(n)
      BY <2>1, <2>3
    <3>2. n + 1 \in 0..L
      BY <1>1, <2>1, <3>1
    <3>3. DiffersFrom(mem, s1, s2, n) = DiffersFrom(mem, s1, s2, n + 1)
      <4>1. \A m \in n..L : m = n \/ m \in (n + 1)..L
        OBVIOUS
      <4>2. \A m \in (n + 1)..L : m \in n..L
        OBVIOUS
      <4> HIDE DEF L
      <4> QED
        BY <2>3, <4>1, <4>2 DEF DiffersFrom, L
    <3> QED
      BY <2>3, <3>2, <3>3 DEF CompareStep
  <2> QED
    BY <2>2, <2>3
<1>3. g = [n \in 0..L |-> g[n]]
  OBVIOUS
<1> HIDE DEF g
<1>4. g = [n \in 0..L |-> CompareStep(g, mem, s1, s2, n)]
  BY <1>2, <1>3
<1> QED
  BY <1>4 DEF ComparesBy

(* Two strings agree up to the offset where strcmp stops.                  *)
LEMMA StopsAtFirst ==
    ASSUME NEW mem \in Memories, NEW s1 \in DOMAIN mem, NEW s2 \in DOMAIN mem
    PROVE  \E m \in 0..Strlen(mem, s1) :
               /\ Differs(mem, s1, s2, m)
               /\ \A k \in 0..(m - 1) : ~ Differs(mem, s1, s2, k)
               /\ Strcmp(mem, s1, s2) = mem[s1 + m] - mem[s2 + m]
<1> DEFINE L == Strlen(mem, s1)
           m == Min(DiffersFrom(mem, s1, s2, 0))
           f == CHOOSE f : ComparesBy(f, mem, s1, s2)
<1>1. L \in Nat
  BY TerminatorIsFirst
<1>2. Strcmp(mem, s1, s2) = mem[s1 + f[0]] - mem[s2 + f[0]]
  BY Zenon DEF Strcmp, UnsignedChar, ComparesBy, CompareStep, Differs
<1>3. ComparesBy(f, mem, s1, s2)
  BY SomethingCompares
<1> HIDE DEF f
<1>4. \A n \in 0..L : f[n] = CompareStep(f, mem, s1, s2, n)
  BY <1>3 DEF ComparesBy
<1>5. /\ m \in 0..L /\ Differs(mem, s1, s2, m)
      /\ \A k \in 0..L : Differs(mem, s1, s2, k) => m <= k
  <2>1. 0 \in 0..L
    BY <1>1
  <2> QED
    BY <2>1, StopsSomewhere
<1> HIDE DEF m, L
<1>6. \A k \in 0..(m - 1) : ~ Differs(mem, s1, s2, k)
  BY <1>1, <1>5
<1> DEFINE S == {n \in Nat : n <= m => f[m - n] = m}
<1>7. 0 \in S
  <2>1. f[m] = m
    BY <1>4, <1>5, Zenon DEF CompareStep
  <2>2. m - 0 = m
    BY <1>1, <1>5
  <2> QED
    BY <2>1, <2>2
<1>8. ASSUME NEW n \in Nat, n \in S PROVE n + 1 \in S
  <2> SUFFICES ASSUME n + 1 <= m PROVE f[m - (n + 1)] = m
    OBVIOUS
  <2> DEFINE k == m - (n + 1)
  <2>1. k \in 0..(m - 1) /\ k \in 0..L /\ k + 1 = m - n
    BY <1>1, <1>5
  <2>2. f[m - n] = m
    BY <1>1, <1>5, <1>8
  <2> HIDE DEF k
  <2>3. f[k] = f[k + 1]
    BY <1>4, <1>6, <2>1, Zenon DEF CompareStep
  <2> QED
    BY <2>1, <2>2, <2>3 DEF k
<1> HIDE DEF S
<1>9. m \in S /\ m - m = 0
  <2>1. m \in Nat
    BY <1>1, <1>5
  <2> QED
    BY <1>7, <1>8, <2>1, Inductive
<1>10. f[0] = m
  BY <1>1, <1>5, <1>9 DEF S
<1> QED
  BY <1>2, <1>5, <1>6, <1>10 DEF L

(* The order of the dictionary *)
Before(p, q) == \/ \E n \in 1..MathMin(Len(p), Len(q)) :
                       p[n] < q[n] /\ \A k \in 1..(n - 1) : p[k] = q[k]
                \/ Len(p) < Len(q) /\ p = SubSeq(q, 1, Len(p))

LEMMA NotBeforeItself == ASSUME NEW p \in Seq(Int) PROVE ~ Before(p, p)
<1>1. \A n \in 1..MathMin(Len(p), Len(p)) : p[n] \in Int
  BY DEF MathMin
<1> QED
  BY <1>1 DEF Before

LEMMA DictionaryOrder ==
    ASSUME NEW p \in Seq(Int), NEW q \in Seq(Int), NEW m \in Nat,
           m <= Len(p), m < Len(q), \A k \in 1..m : p[k] = q[k],
           m = Len(p) \/ p[m + 1] < q[m + 1]
    PROVE  Before(p, q) /\ ~ Before(q, p)
<1>1. /\ Len(p) \in Nat /\ Len(q) \in Nat
      /\ MathMin(Len(p), Len(q)) = IF Len(p) < Len(q) THEN Len(p) ELSE Len(q)
      /\ MathMin(Len(q), Len(p)) = IF Len(q) < Len(p) THEN Len(q) ELSE Len(p)
      /\ \A k \in 1..Len(p) : p[k] \in Int
      /\ \A k \in 1..Len(q) : q[k] \in Int
  BY DEF MathMin
<1>2. Before(p, q)
  <2>1. CASE m = Len(p)
    <3>1. p = SubSeq(q, 1, Len(p))
      BY <1>1, <2>1
    <3> QED
      BY <2>1, <3>1 DEF Before
  <2>2. CASE m # Len(p)
    <3>1. m + 1 \in 1..MathMin(Len(p), Len(q)) /\ (m + 1) - 1 = m
      BY <1>1, <2>2
    <3> QED
      BY <2>2, <3>1 DEF Before
  <2> QED
    BY <2>1, <2>2
<1>3. ASSUME NEW n \in 1..MathMin(Len(q), Len(p)), q[n] < p[n],
             \A k \in 1..(n - 1) : q[k] = p[k]
      PROVE  FALSE
  <2>1. n \in 1..Len(p) /\ n \in 1..Len(q)
    BY <1>1
  <2>2. p[n] \in Int /\ q[n] \in Int /\ n \notin 1..m
    BY <1>1, <1>3, <2>1
  <2>3. m + 1 \in 1..Len(p) /\ m + 1 \in 1..Len(q) /\ m # Len(p)
    BY <1>1, <2>1, <2>2
  <2>4. p[m + 1] < q[m + 1] /\ p[m + 1] \in Int /\ q[m + 1] \in Int
    BY <1>1, <2>3
  <2>5. m + 1 = n \/ m + 1 \in 1..(n - 1)
    BY <2>1, <2>2
  <2> QED
    BY <1>3, <2>2, <2>4, <2>5
<1>4. ASSUME Len(q) < Len(p), q = SubSeq(p, 1, Len(q)) PROVE FALSE
  <2>1. m + 1 \in 1..Len(q) /\ m + 1 \in 1..Len(p) /\ m # Len(p)
    BY <1>1, <1>4
  <2>2. q[m + 1] = p[m + 1]
    <3>1. \A k \in 1..Len(q) : SubSeq(p, 1, Len(q))[k] = p[k]
      BY <1>1, <1>4
    <3> QED
      BY <1>4, <2>1, <3>1
  <2>3. p[m + 1] < q[m + 1] /\ p[m + 1] \in Int
    BY <1>1, <2>1
  <2> QED
    BY <2>2, <2>3
<1> QED
  BY <1>2, <1>3, <1>4 DEF Before

LEMMA TextFacts ==
    ASSUME NEW mem \in Memories, NEW s \in DOMAIN mem
    PROVE  /\ Text(mem, s) \in Seq(Int) /\ Len(Text(mem, s)) = Strlen(mem, s)
           /\ \A k \in 1..Strlen(mem, s) : Text(mem, s)[k] = mem[s + k - 1]
<1>1. Strlen(mem, s) \in Nat
  BY TerminatorIsFirst
<1>2. \A k \in 1..Strlen(mem, s) : mem[s + k - 1] \in Int
  <2> SUFFICES ASSUME NEW k \in 1..Strlen(mem, s) PROVE mem[s + k - 1] \in Int
    OBVIOUS
  <2>1. s \in Nat /\ k - 1 \in 0..(Strlen(mem, s) - 1) /\ s + (k - 1) = s + k - 1
    BY <1>1, MemoryFacts
  <2>2. s + (k - 1) \in DOMAIN mem
    BY <2>1, TerminatorIsFirst
  <2>3. mem[s + (k - 1)] \in 0..255
    BY <2>2, MemoryFacts
  <2> QED
    BY <2>1, <2>3
<1> QED
  BY <1>1, <1>2 DEF Text

LEMMA StringsAreOrdered ==
    ASSUME NEW mem \in Memories, NEW s1 \in DOMAIN mem, NEW s2 \in DOMAIN mem
    PROVE  /\ Strcmp(mem, s1, s2) < 0 <=> Before(Text(mem, s1), Text(mem, s2))
           /\ Strcmp(mem, s1, s2) > 0 <=> Before(Text(mem, s2), Text(mem, s1))
<1> DEFINE L1 == Strlen(mem, s1)
           L2 == Strlen(mem, s2)
           p == Text(mem, s1)
           q == Text(mem, s2)
<1>1. PICK m \in 0..L1 :
               /\ Differs(mem, s1, s2, m)
               /\ \A k \in 0..(m - 1) : ~ Differs(mem, s1, s2, k)
               /\ Strcmp(mem, s1, s2) = mem[s1 + m] - mem[s2 + m]
  BY StopsAtFirst
<1>2. /\ L1 \in Nat /\ mem[s1 + L1] = 0 /\ \A n \in 0..(L1 - 1) : mem[s1 + n] # 0
      /\ L2 \in Nat /\ mem[s2 + L2] = 0 /\ \A n \in 0..(L2 - 1) : mem[s2 + n] # 0
  BY TerminatorIsFirst
<1>3. s1 \in Nat /\ s2 \in Nat
  BY MemoryFacts
<1>4. /\ p \in Seq(Int) /\ Len(p) = L1 /\ \A k \in 1..L1 : p[k] = mem[s1 + k - 1]
      /\ q \in Seq(Int) /\ Len(q) = L2 /\ \A k \in 1..L2 : q[k] = mem[s2 + k - 1]
  BY TextFacts
<1> DEFINE x == mem[s1 + m]
           y == mem[s2 + m]
<1> HIDE DEF L1, L2, p, q
<1>5. m \in Nat /\ m <= L1 /\ m <= L2
  <2>1. ASSUME L2 < m PROVE FALSE
    <3>1. L2 \in 0..(m - 1)
      BY <1>2, <2>1
    <3>2. mem[s1 + L2] # 0 /\ mem[s1 + L2] = mem[s2 + L2]
      BY <1>1, <3>1 DEF Differs
    <3> QED
      BY <1>2, <3>2
  <2> QED
    BY <1>1, <1>2, <2>1
<1>6. x \in 0..255 /\ y \in 0..255
  <2>1. PICK last \in Nat : DOMAIN mem = 0..last /\ mem[last] = 0
    BY MemoryFacts
  <2>2. s1 + L1 \in DOMAIN mem /\ s2 + L2 \in DOMAIN mem
    BY TerminatorIsFirst DEF L1, L2
  <2>3. s1 + m \in DOMAIN mem /\ s2 + m \in DOMAIN mem
    BY <1>2, <1>3, <1>5, <2>1, <2>2
  <2> QED
    BY <2>3, MemoryFacts
<1>7. (x = 0 <=> m = L1) /\ (y = 0 <=> m = L2)
  BY <1>2, <1>5
<1>8. x = 0 \/ x # y
  BY <1>1 DEF Differs
<1>9. \A k \in 1..m : p[k] = q[k]
  <2> SUFFICES ASSUME NEW k \in 1..m PROVE p[k] = q[k]
    OBVIOUS
  <2>1. k - 1 \in 0..(m - 1) /\ k \in 1..L1 /\ k \in 1..L2
    BY <1>2, <1>5
  <2>2. s1 + (k - 1) = s1 + k - 1 /\ s2 + (k - 1) = s2 + k - 1
    BY <1>3, <1>5
  <2>3. mem[s1 + (k - 1)] = mem[s2 + (k - 1)]
    BY <1>1, <2>1 DEF Differs
  <2> QED
    BY <1>4, <2>1, <2>2, <2>3
<1>10. /\ m < L1 => p[m + 1] = x
       /\ m < L2 => q[m + 1] = y
  <2>1. s1 + (m + 1) - 1 = s1 + m /\ s2 + (m + 1) - 1 = s2 + m
    BY <1>3, <1>5
  <2>2. (m < L1 => m + 1 \in 1..L1) /\ (m < L2 => m + 1 \in 1..L2)
    BY <1>2, <1>5
  <2> QED
    BY <1>4, <2>1, <2>2
<1>11. Strcmp(mem, s1, s2) = x - y
  BY <1>1
<1> HIDE DEF x, y
<1>12. CASE x = y
  <2>1. m = L1 /\ m = L2
    BY <1>7, <1>8, <1>12
  <2>2. p = q
    BY <1>4, <1>9, <2>1
  <2>3. ~ Before(p, q) /\ ~ Before(q, p)
    BY <1>4, <2>2, NotBeforeItself
  <2> QED
    BY <1>6, <1>11, <1>12, <2>3 DEF p, q
<1>13. CASE x < y
  <2>1. m <= Len(p) /\ m < Len(q) /\ (m = Len(p) \/ p[m + 1] < q[m + 1])
    <3>1. y # 0 /\ (x = 0 \/ m # L1)
      BY <1>6, <1>7, <1>13
    <3>2. m < L2 /\ (m = L1 \/ m < L1)
      BY <1>2, <1>5, <1>7, <3>1
    <3> QED
      BY <1>4, <1>5, <1>10, <1>13, <3>2
  <2>2. Before(p, q) /\ ~ Before(q, p)
    BY <1>4, <1>5, <1>9, <2>1, DictionaryOrder
  <2> QED
    BY <1>6, <1>11, <1>13, <2>2 DEF p, q
<1>14. CASE y < x
  <2>1. m <= Len(q) /\ m < Len(p) /\ (m = Len(q) \/ q[m + 1] < p[m + 1])
    <3>1. x # 0 /\ (y = 0 \/ m # L2)
      BY <1>6, <1>7, <1>14
    <3>2. m < L1 /\ (m = L2 \/ m < L2)
      BY <1>2, <1>5, <1>7, <3>1
    <3> QED
      BY <1>4, <1>5, <1>10, <1>14, <3>2
  <2>2. \A k \in 1..m : q[k] = p[k]
    BY <1>9
  <2>3. Before(q, p) /\ ~ Before(p, q)
    BY <1>4, <1>5, <2>1, <2>2, DictionaryOrder
  <2> QED
    BY <1>6, <1>11, <1>14, <2>3 DEF p, q
<1> QED
  BY <1>6, <1>12, <1>13, <1>14

----------------------------------------------------------------------------
(* Dividing and drawing *)

LEMMA DivisionIsRight ==
    ASSUME NEW x \in Int, NEW n \in 1..4
    PROVE  /\ MathDiv(x, n) * n + MathMod(x, n) = x /\ MathMod(x, n) \in 0..(n - 1)
           /\ MathMax(x + 9, n) >= n /\ MathMin(x + 9, n) <= n
           /\ MathMax(x + 9, n) + MathMin(x + 9, n) = x + 9 + n
<1>1. CASE n = 1
  BY <1>1 DEF MathDiv, MathMod, MathMax, MathMin, DivDown, Quotient, Remainder
<1>2. CASE n = 2
  BY <1>2 DEF MathDiv, MathMod, MathMax, MathMin, DivDown, Quotient, Remainder
<1>3. CASE n = 3
  BY <1>3 DEF MathDiv, MathMod, MathMax, MathMin, DivDown, Quotient, Remainder
<1>4. CASE n = 4
  BY <1>4 DEF MathDiv, MathMod, MathMax, MathMin, DivDown, Quotient, Remainder
<1> QED
  BY <1>1, <1>2, <1>3, <1>4

DrawStep(f, seed, tick, k) == IF k = 0 THEN seed ELSE NextSeed(f[k - 1], tick)

LEMMA DrawnInTurn ==
    ASSUME NEW seed, NEW tick, NEW n \in Nat
    PROVE  /\ Draw(seed, tick, 0) = seed
           /\ Draw(seed, tick, n + 1) = NextSeed(Draw(seed, tick, n), tick)
<1> DEFINE Does(f, m) == f = [k \in 0..m |-> DrawStep(f, seed, tick, k)]
           S == {m \in Nat : \E f : Does(f, m)}
           drawn(m) == CHOOSE f : Does(f, m)
<1>1. 0 \in S
  <2> DEFINE f == [k \in 0..0 |-> seed]
  <2>1. Does(f, 0)
    BY DEF DrawStep
  <2> QED
    BY <2>1
<1>2. ASSUME NEW m \in Nat, m \in S PROVE m + 1 \in S
  <2>1. PICK f : Does(f, m)
    BY <1>2
  <2> DEFINE g == [k \in 0..(m + 1) |-> IF k = m + 1 THEN DrawStep(f, seed, tick, k) ELSE f[k]]
  <2>2. /\ \A k \in 0..(m + 1) : g[k] = IF k = m + 1 THEN DrawStep(f, seed, tick, k) ELSE f[k]
        /\ g = [k \in 0..(m + 1) |-> g[k]]
    OBVIOUS
  <2> HIDE DEF g
  <2>3. \A k \in 0..(m + 1) : k = 0 \/ g[k - 1] = f[k - 1]
    BY <2>2
  <2>4. \A k \in 0..(m + 1) : DrawStep(g, seed, tick, k) = DrawStep(f, seed, tick, k)
    BY <2>3, Zenon DEF DrawStep
  <2>5. \A k \in 0..(m + 1) : g[k] = DrawStep(f, seed, tick, k)
    <3>1. \A k \in 0..m : f[k] = DrawStep(f, seed, tick, k)
      BY <2>1
    <3>2. \A k \in 0..(m + 1) : k = m + 1 \/ k \in 0..m
      OBVIOUS
    <3> QED
      BY <2>2, <3>1, <3>2
  <2>6. Does(g, m + 1)
    BY <2>2, <2>4, <2>5
  <2> QED
    BY <2>6
<1>3. \A m \in Nat : m \in S
  <2> HIDE DEF S
  <2> QED
    BY <1>1, <1>2, Inductive
<1>4. \A m \in Nat : Does(drawn(m), m)
  <2> HIDE DEF Does
  <2> QED
    BY <1>3
<1>5. \A m \in Nat : Draw(seed, tick, m) = drawn(m)[m]
  BY Zenon DEF Draw, DrawStep
<1> HIDE DEF drawn
<1>6. \A m \in Nat : \A k \in 0..m : drawn(m)[k] = DrawStep(drawn(m), seed, tick, k)
  BY <1>4
<1> DEFINE T == {k \in Nat : \A m \in Nat : k <= m => drawn(m)[k] = drawn(k)[k]}
<1>7. 0 \in T
  <2>1. \A m \in Nat : 0 \in 0..m
    OBVIOUS
  <2>2. \A m \in Nat : drawn(m)[0] = seed
    BY <1>6, <2>1, Zenon DEF DrawStep
  <2> QED
    BY <2>2
<1>8. ASSUME NEW k \in Nat, k \in T PROVE k + 1 \in T
  <2>1. ASSUME NEW m \in Nat, k + 1 <= m PROVE drawn(m)[k + 1] = NextSeed(drawn(k)[k], tick)
    <3>1. k + 1 \in 0..m /\ k + 1 # 0 /\ (k + 1) - 1 = k /\ k <= m
      BY <2>1
    <3>2. drawn(m)[k + 1] = NextSeed(drawn(m)[k], tick)
      BY <1>6, <3>1, Zenon DEF DrawStep
    <3> QED
      BY <1>8, <3>1, <3>2
  <2>2. k + 1 \in Nat /\ k + 1 <= k + 1
    OBVIOUS
  <2> QED
    BY <2>1, <2>2
<1> HIDE DEF T
<1>9. n \in T
  BY <1>7, <1>8, Inductive
<1>10. /\ n + 1 \in Nat /\ n + 1 \in 0..(n + 1) /\ n + 1 # 0 /\ (n + 1) - 1 = n /\ n <= n + 1
       /\ 0 \in 0..0 /\ 0 \in Nat
  OBVIOUS
<1>11. drawn(n + 1)[n + 1] = NextSeed(drawn(n + 1)[n], tick)
  BY <1>6, <1>10, Zenon DEF DrawStep
<1>12. drawn(n + 1)[n] = drawn(n)[n]
  BY <1>9, <1>10 DEF T
<1>13. drawn(0)[0] = seed
  BY <1>6, <1>10, Zenon DEF DrawStep
<1> QED
  BY <1>5, <1>10, <1>11, <1>12, <1>13

(* The multiplier has so many factors of two that a seed is lost in three  *)
(* draws: the first leaves of it a multiple of 4096, the second a multiple *)
(* of 2^19, and the third, which looks at the rest by 2^19, nothing.       *)
IsDraw(r) == r \in Nat /\ r <= 2147483647

AfterOne(r) == /\ r # 0 /\ r % 64 = 0
               /\ \E a \in 0..127 : r % 524288 = 4096 * a + 4032
AfterTwo(r) == \E v \in 0..4095 : r = v * 524288 + 270272

LEMMA FirstDraw ==
    ASSUME NEW s \in Nat, NEW t \in Nat
    PROVE  IsDraw(NextSeed(s, t)) /\ AfterOne(NextSeed(s, t))
<1> DEFINE r == IF s = 0 THEN t ELSE s
           u == ((r % 64) * 8192 + 524288 - (r % 524288)) % 524288
           d == NextSeed(s, t)
           w == d % 524288
<1>1. r \in Nat
  OBVIOUS
<1>2. d = Sum31(4096 * u, 8128)
  BY SMT DEF NextSeed, TimesA, RandA, RandC, TwoTo19
<1> HIDE DEF r
<1>3. u \in Nat /\ u < 524288
  BY <1>1, SMT
<1> HIDE DEF u
<1>4. d = IF 4096 * u > 2147475519 THEN 4096 * u - 2147475520 ELSE 4096 * u + 8128
  BY <1>2, <1>3, SMT DEF Sum31
<1> HIDE DEF d
<1>5. d \in Nat /\ d <= 2147483647 /\ d # 0 /\ d % 64 = 0
  BY <1>3, <1>4, SMT
<1>6. d % 4096 = 4032
  BY <1>3, <1>4, SMT
<1>7. w \in Nat /\ w < 524288 /\ w % 4096 = 4032
  BY <1>5, <1>6, SMT
<1> HIDE DEF w
<1>8. w \div 4096 \in 0..127 /\ w = 4096 * (w \div 4096) + 4032
  BY <1>7, SMT
<1> QED
  BY <1>5, <1>8, SMT DEF IsDraw, AfterOne, d, w

LEMMA SecondDraw ==
    ASSUME NEW s, IsDraw(s), AfterOne(s), NEW t
    PROVE  AfterTwo(NextSeed(s, t))
<1>1. PICK a \in 0..127 : s % 524288 = 4096 * a + 4032
  BY SMT DEF AfterOne
<1>2. s \in Nat /\ s # 0 /\ s % 64 = 0
  BY SMT DEF AfterOne, IsDraw
<1> DEFINE x == ((s % 64) * 8192 + 524288 - (s % 524288)) % 524288
           d == NextSeed(s, t)
<1>3. d = Sum31(4096 * x, 8128)
  BY <1>2, SMT DEF NextSeed, TimesA, RandA, RandC, TwoTo19
<1>4. x = 4096 * (127 - a) + 64
  BY <1>1, <1>2, SMT
<1> HIDE DEF x, d
<1>5. d = 4096 * x + 8128
  BY <1>3, <1>4, SMT DEF Sum31
<1>6. d = (32 * (127 - a)) * 524288 + 270272 /\ 32 * (127 - a) \in 0..4095
  BY <1>4, <1>5, SMT
<1> QED
  BY <1>6, SMT DEF AfterTwo, d

LEMMA TwiceDrawnIsDraw ==
    ASSUME NEW s, AfterTwo(s)
    PROVE  IsDraw(s)
<1>1. PICK v \in 0..4095 : s = v * 524288 + 270272
  BY SMT DEF AfterTwo
<1>2. v \in Nat /\ v <= 4095
  BY SMT
<1> QED
  BY <1>1, <1>2, SMT DEF IsDraw

Settled == 1040457664

LEMMA ThirdDraw ==
    ASSUME NEW s, AfterTwo(s), NEW t
    PROVE  NextSeed(s, t) = Settled
<1> DEFINE x == ((s % 64) * 8192 + 524288 - (s % 524288)) % 524288
<1>1. s \in Nat /\ s # 0 /\ s % 64 = 0 /\ s % 524288 = 270272
  BY SMT DEF AfterTwo
<1>2. NextSeed(s, t) = Sum31(4096 * x, 8128)
  BY <1>1, SMT DEF NextSeed, TimesA, RandA, RandC, TwoTo19
<1>3. x = 254016
  BY <1>1, SMT
<1> HIDE DEF x
<1>4. Sum31(4096 * x, 8128) = Settled
  BY <1>3, SMT DEF Sum31, Settled
<1> QED
  BY <1>2, <1>4

LEMMA RangeOfDraw ==
    ASSUME NEW r, IsDraw(r)
    PROVE  RandRange(r, 1, 1000) \in 1..999
<1> DEFINE q == r \div 65536
           p == ((r % 65536) * 999) \div 65536
<1>1. q \in Nat /\ q <= 32767 /\ r % 65536 \in Nat /\ r % 65536 <= 65535
  BY SMT DEF IsDraw
<1>2. p \in Nat /\ p <= 998
  BY <1>1, SMT
<1>3. RandRange(r, 1, 1000) = (q * 999 + p) \div 32768 + 1
  <2>1. 1000 - 1 = 999
    BY SMT
  <2> QED
    BY <2>1, SMT DEF RandRange, Scaled
<1> HIDE DEF q, p
<1>4. q * 999 + p \in Nat /\ q * 999 + p < 999 * 32768
  BY <1>1, <1>2, SMT
<1> QED
  BY <1>3, <1>4, SMT

LEMMA DrawsAreSettled ==
    ASSUME NEW seed \in Nat, NEW tick \in Nat
    PROVE  /\ \A n \in 1..5 : RandRange(Draw(seed, tick, n), 1, 1000) \in 1..999
           /\ \A n \in 3..5 : Draw(seed, tick, n) = Settled
           /\ RandRange(Settled, 1, 1000) = 485
<1> DEFINE d(n) == Draw(seed, tick, n)
<1>1. /\ d(0) = seed /\ d(0 + 1) = NextSeed(d(0), tick) /\ d(1 + 1) = NextSeed(d(1), tick)
      /\ d(2 + 1) = NextSeed(d(2), tick) /\ d(3 + 1) = NextSeed(d(3), tick)
      /\ d(4 + 1) = NextSeed(d(4), tick)
  <2>1. 0 \in Nat /\ 1 \in Nat /\ 2 \in Nat /\ 3 \in Nat /\ 4 \in Nat
    OBVIOUS
  <2> QED
    BY <2>1, DrawnInTurn
<1>2. 0 + 1 = 1 /\ 1 + 1 = 2 /\ 2 + 1 = 3 /\ 3 + 1 = 4 /\ 4 + 1 = 5
  OBVIOUS
<1> HIDE DEF d
<1>3. /\ d(1) = NextSeed(seed, tick) /\ d(2) = NextSeed(d(1), tick) /\ d(3) = NextSeed(d(2), tick)
      /\ d(4) = NextSeed(d(3), tick) /\ d(5) = NextSeed(d(4), tick)
  BY <1>1, <1>2
<1>4. IsDraw(d(1)) /\ AfterOne(d(1))
  BY <1>3, FirstDraw, Zenon
<1>5. AfterTwo(d(2))
  BY <1>3, <1>4, SecondDraw, Zenon
<1>6. d(3) = Settled
  BY <1>3, <1>5, ThirdDraw, Zenon
<1>7. AfterTwo(Settled)
  <2>1. Settled = 1984 * 524288 + 270272 /\ 1984 \in 0..4095
    BY SMT DEF Settled
  <2> QED
    BY <2>1, SMT DEF AfterTwo
<1>8. NextSeed(Settled, tick) = Settled
  BY <1>7, ThirdDraw, Zenon
<1>9. d(4) = Settled /\ d(5) = Settled
  BY <1>3, <1>6, <1>8, Zenon
<1>10. IsDraw(d(2)) /\ IsDraw(Settled)
  BY <1>5, <1>7, TwiceDrawnIsDraw, Zenon
<1>11. RandRange(Settled, 1, 1000) = 485
  BY SMT DEF Settled, RandRange, Scaled
<1>12. \A n \in 1..5 : n = 1 \/ n = 2 \/ n = 3 \/ n = 4 \/ n = 5
  OBVIOUS
<1>13. \A n \in 1..5 : IsDraw(d(n))
  BY <1>4, <1>6, <1>9, <1>10, <1>12, Zenon
<1>14. \A n \in 3..5 : d(n) = Settled
  <2>1. \A n \in 3..5 : n = 3 \/ n = 4 \/ n = 5
    OBVIOUS
  <2> QED
    BY <1>6, <1>9, <2>1, Zenon
<1>15. \A n \in 1..5 : RandRange(d(n), 1, 1000) \in 1..999
  BY <1>13, RangeOfDraw, SMT
<1> QED
  BY <1>11, <1>14, <1>15, SMT DEF d

----------------------------------------------------------------------------
(* The helpers.  A call stands for itself: whether its answer is right     *)
(* depends on no call before it.                                           *)

Right(c, o) ==
    /\ c.fn \in {"memmove", "memcpy", "memset"} =>
           \A a \in DOMAIN o :
               o[a] = IF a \notin c.d..(c.d + c.len - 1) THEN c.mem[a]
                      ELSE IF c.fn = "memset" THEN c.val % 256
                      ELSE c.mem[c.s + (a - c.d)]
    /\ c.fn \in {"strcpy", "strncpy"} =>
           LET text == Text(c.mem, c.s)
               n    == IF c.fn = "strcpy" THEN Len(text) + 1 ELSE c.len
           IN  \A a \in DOMAIN o :
                   o[a] = IF a \notin c.d..(c.d + n - 1) THEN c.mem[a]
                          ELSE IF a - c.d < Len(text) THEN text[a - c.d + 1] ELSE 0
    /\ c.fn = "strcmp" =>
           /\ o < 0 <=> Before(Text(c.mem, c.a), Text(c.mem, c.b))
           /\ o > 0 <=> Before(Text(c.mem, c.b), Text(c.mem, c.a))
    /\ c.fn = "divmod" =>
           /\ o[1] * c.n + o[2] = c.x /\ o[2] \in 0..(c.n - 1)
           /\ o[3] >= c.n /\ o[4] <= c.n /\ o[3] + o[4] = c.x + 9 + c.n
    /\ c.fn = "rand" =>
           /\ \A n \in 1..5 : RandRange(o[n], 1, 1000) \in 1..999
           /\ o[4] = o[3] /\ o[5] = o[3] /\ RandRange(o[3], 1, 1000) = 485

LEMMA RightIsRight == HelpersAreRight <=> Right(call, out)
<1>1. CopiesMoveTheirSource /\ StringsAreCopied /\ DivisionRoundsDown /\ DrawsSettle
        /\ StringsCompare <=> Right(call, out)
  BY Zenon DEF CopiesMoveTheirSource, StringsAreCopied, StringsCompare, DivisionRoundsDown,
               DrawsSettle, Right, Before
<1> QED
  BY <1>1 DEF HelpersAreRight

LEMMA OtherCalls ==
    ASSUME NEW c, NEW o,
           c.fn \in {"none", "utoa", "itoa", "ulltoa", "human_size", "printf"}
    PROVE  Right(c, o)
  BY DEF Right

LEMMA CopyIsRight ==
    ASSUME Copy
    PROVE  Right(call', out')
<1> DEFINE Called(mem, d, s, len) ==
        /\ {d + len - 1, s + len - 1} \subseteq DOMAIN mem \cup {-1}
        /\ \/ Answer([fn |-> "memmove", mem |-> mem, d |-> d, s |-> s, len |-> len],
                     Memmove(mem, d, s, len))
           \/ /\ d >= s + len \/ d <= s
              /\ Answer([fn |-> "memcpy", mem |-> mem, d |-> d, s |-> s, len |-> len],
                        Memcpy(mem, d, s, len))
           \/ Answer([fn |-> "memset", mem |-> mem, d |-> d, val |-> s + 254, len |-> len],
                     Memset(mem, d, s + 254, len))
<1>0. PICK mem \in Memories :
          \E d, s \in DOMAIN mem, len \in 0..Cardinality(DOMAIN mem) : Called(mem, d, s, len)
  BY Zenon DEF Copy
<1>1. PICK d, s \in DOMAIN mem, len \in 0..Cardinality(DOMAIN mem) : Called(mem, d, s, len)
  BY <1>0
<1>2. PICK last \in Nat : DOMAIN mem = 0..last /\ mem[last] = 0
  BY MemoryFacts
<1>3. d \in Nat /\ s \in Nat /\ d <= last /\ s <= last /\ IsMemory(mem)
  BY <1>2, MemoryFacts
<1>4. len \in Nat
  <2>1. IsFiniteSet(DOMAIN mem)
    BY <1>2, FS_Interval
  <2>2. Cardinality(DOMAIN mem) \in Nat
    BY <2>1, FS_CardinalityType
  <2> QED
    BY <2>2
<1>5. HoldsAll(mem, d, len) /\ HoldsAll(mem, s, len)
  <2>1. len = 0 \/ (d + len - 1 <= last /\ s + len - 1 <= last)
    BY <1>1, <1>2, <1>3, <1>4
  <2> QED
    BY <1>2, <1>3, <1>4, <2>1 DEF HoldsAll, Holds
<1> DEFINE moved == Copied(mem, d, s, 0, len)
<1>6. /\ DOMAIN moved = DOMAIN mem
      /\ \A a \in DOMAIN mem : moved[a] = IF a \notin d..(d + len - 1) THEN mem[a]
                                          ELSE mem[s + (a - d)]
  <2>1. (d + 0)..(d + len - 1) = d..(d + len - 1)
    BY <1>3, <1>4
  <2> QED
    BY <2>1 DEF Copied
<1> HIDE DEF moved
<1>7. CASE Answer([fn |-> "memmove", mem |-> mem, d |-> d, s |-> s, len |-> len],
                  Memmove(mem, d, s, len))
  <2>1. Memmove(mem, d, s, len) = moved
    BY <1>3, <1>4, <1>5, MemoryIsMoved DEF moved
  <2>2. out' = moved /\ call' = [fn |-> "memmove", mem |-> mem, d |-> d, s |-> s, len |-> len]
    BY <1>7, <2>1, Zenon DEF Answer
  <2> QED
    BY <1>6, <2>2 DEF Right
<1>8. CASE /\ d >= s + len \/ d <= s
           /\ Answer([fn |-> "memcpy", mem |-> mem, d |-> d, s |-> s, len |-> len],
                     Memcpy(mem, d, s, len))
  <2>1. Memcpy(mem, d, s, len) = moved
    BY <1>3, <1>4, <1>5, <1>8, CopyUpwards DEF moved, Memcpy
  <2>2. out' = moved /\ call' = [fn |-> "memcpy", mem |-> mem, d |-> d, s |-> s, len |-> len]
    BY <1>8, <2>1, Zenon DEF Answer
  <2> QED
    BY <1>6, <2>2 DEF Right
<1>9. CASE Answer([fn |-> "memset", mem |-> mem, d |-> d, val |-> s + 254, len |-> len],
                  Memset(mem, d, s + 254, len))
  <2>1. /\ out' = Memset(mem, d, s + 254, len)
        /\ call' = [fn |-> "memset", mem |-> mem, d |-> d, val |-> s + 254, len |-> len]
    BY <1>9, Zenon DEF Answer
  <2>2. out' = [a \in DOMAIN mem |-> IF a \in d..(d + len - 1) THEN (s + 254) % 256 ELSE mem[a]]
    BY <2>1 DEF Memset
  <2> QED
    BY <2>1, <2>2 DEF Right
<1> QED
  BY <1>1, <1>7, <1>8, <1>9

LEMMA StringCopyIsRight ==
    ASSUME CopyString
    PROVE  Right(call', out')
<1> DEFINE Called(mem, d, s) ==
        /\ d + Strlen(mem, s) < s
        /\ \/ Answer([fn |-> "strcpy", mem |-> mem, d |-> d, s |-> s],
                     Strcpy(mem, d, s))
           \/ \E n \in 0..(s - d) :
                  Answer([fn |-> "strncpy", mem |-> mem, d |-> d, s |-> s, len |-> n],
                         Strncpy(mem, d, s, n))
<1>0. PICK mem \in Memories : \E d, s \in DOMAIN mem : Called(mem, d, s)
  BY Zenon DEF CopyString
<1>1. PICK d, s \in DOMAIN mem : Called(mem, d, s)
  BY <1>0
<1> DEFINE L == Strlen(mem, s)
           text == Text(mem, s)
<1>2. d \in Nat /\ s \in Nat /\ DOMAIN mem \in SUBSET Nat /\ L \in Nat
  BY MemoryFacts, TerminatorIsFirst
<1>3. Len(text) = L /\ \A k \in 1..L : text[k] = mem[s + k - 1]
  BY TextFacts
<1> HIDE DEF L, text
<1>4. \A a \in DOMAIN mem : a >= d /\ a - d < L => text[a - d + 1] = mem[s + (a - d)]
  <2> SUFFICES ASSUME NEW a \in DOMAIN mem, a >= d, a - d < L
               PROVE  text[a - d + 1] = mem[s + (a - d)]
    OBVIOUS
  <2>1. a - d + 1 \in 1..L /\ s + (a - d + 1) - 1 = s + (a - d)
    BY <1>2
  <2> QED
    BY <1>3, <2>1
<1>5. CASE Answer([fn |-> "strcpy", mem |-> mem, d |-> d, s |-> s], Strcpy(mem, d, s))
  <2>1. /\ out' = Copied(mem, d, s, 0, L + 1)
        /\ call' = [fn |-> "strcpy", mem |-> mem, d |-> d, s |-> s]
    BY <1>1, <1>5, StringIsCopied DEF Answer, L
  <2>2. /\ DOMAIN out' = DOMAIN mem
        /\ \A a \in DOMAIN mem : out'[a] = IF a \in (d + 0)..(d + (L + 1) - 1)
                                           THEN mem[s + (a - d)] ELSE mem[a]
    BY <2>1 DEF Copied
  <2>3. ASSUME NEW a \in DOMAIN mem
        PROVE  out'[a] = IF a \notin d..(d + (L + 1) - 1) THEN mem[a]
                         ELSE IF a - d < L THEN text[a - d + 1] ELSE 0
    <3>1. a \in Nat
      BY <1>2
    <3>2. CASE a \in d..(d + (L + 1) - 1) /\ ~ (a - d < L)
      <4>1. s + (a - d) = s + L /\ a \in (d + 0)..(d + (L + 1) - 1)
        BY <1>2, <3>1, <3>2
      <4>2. mem[s + L] = 0
        BY TerminatorIsFirst DEF L
      <4> QED
        BY <2>2, <3>2, <4>1, <4>2
    <3>3. CASE a \in d..(d + (L + 1) - 1) /\ a - d < L
      BY <1>2, <1>4, <2>2, <3>1, <3>3
    <3>4. CASE a \notin d..(d + (L + 1) - 1)
      BY <1>2, <2>2, <3>1, <3>4
    <3> QED
      BY <3>2, <3>3, <3>4
  <2> QED
    BY <1>3, <2>1, <2>2, <2>3 DEF Right, text
<1>6. ASSUME NEW n \in 0..(s - d),
             Answer([fn |-> "strncpy", mem |-> mem, d |-> d, s |-> s, len |-> n],
                    Strncpy(mem, d, s, n))
      PROVE  Right(call', out')
  <2>1. /\ out' = Strncpy(mem, d, s, n)
        /\ call' = [fn |-> "strncpy", mem |-> mem, d |-> d, s |-> s, len |-> n]
    BY <1>6, Zenon DEF Answer
  <2>2. out' = [a \in DOMAIN mem |->
                   IF a \notin d..(d + n - 1) THEN mem[a]
                   ELSE IF a - d < L THEN mem[s + (a - d)] ELSE 0]
    BY <1>1, <2>1, StringIsCopiedUpTo DEF L
  <2>3. ASSUME NEW a \in DOMAIN mem
        PROVE  out'[a] = IF a \notin d..(d + n - 1) THEN mem[a]
                         ELSE IF a - d < L THEN text[a - d + 1] ELSE 0
    <3>1. a \in d..(d + n - 1) => a >= d
      BY <1>2
    <3> QED
      BY <1>4, <2>2, <3>1
  <2> QED
    BY <1>3, <2>1, <2>2, <2>3 DEF Right, text
<1> QED
  BY <1>1, <1>5, <1>6

LEMMA EveryAnswerIsRight == Next => Right(call', out')
<1> SUFFICES ASSUME Next PROVE Right(call', out')
  OBVIOUS
<1>1. CASE Return
  <2>1. call'.fn = "none"
    BY <1>1 DEF Return, Nothing
  <2> QED
    BY <2>1, OtherCalls
<1>2. CASE Convert
  <2>1. call'.fn \in {"utoa", "itoa", "ulltoa"}
    BY <1>2 DEF Convert, Answer
  <2> QED
    BY <2>1, OtherCalls
<1>3. CASE ConvertSize
  <2>1. call'.fn = "human_size"
    BY <1>3 DEF ConvertSize, Answer
  <2> QED
    BY <2>1, OtherCalls
<1>4. CASE CallPrintf \/ CallPrintfUnfinished \/ VgaTestPrintf
  <2>1. \E all, end : PrintfOf(all, end)
    BY <1>4, Zenon DEF CallPrintf, CallPrintfUnfinished, VgaTestPrintf
  <2>2. \E all : call' = [fn |-> "printf", all |-> all]
    BY <2>1, Zenon DEF PrintfOf, Answer
  <2>3. call'.fn = "printf"
    BY <2>2
  <2> QED
    BY <2>3, OtherCalls
<1>5. CASE CompareStrings
  <2> DEFINE Called(mem, a, b) ==
          Answer([fn |-> "strcmp", mem |-> mem, a |-> a, b |-> b], Strcmp(mem, a, b))
  <2>0. PICK mem \in Memories : \E a, b \in DOMAIN mem : Called(mem, a, b)
    BY <1>5, Zenon DEF CompareStrings
  <2>1. PICK a, b \in DOMAIN mem : Called(mem, a, b)
    BY <2>0
  <2>2. /\ out' = Strcmp(mem, a, b)
        /\ call' = [fn |-> "strcmp", mem |-> mem, a |-> a, b |-> b]
    BY <2>1, Zenon DEF Answer
  <2>3. /\ out' < 0 <=> Before(Text(mem, a), Text(mem, b))
        /\ out' > 0 <=> Before(Text(mem, b), Text(mem, a))
    BY <2>2, StringsAreOrdered
  <2> QED
    BY <2>2, <2>3 DEF Right
<1>6. CASE Divide
  <2>1. PICK x \in -9..9, n \in 1..4 :
          Answer([fn |-> "divmod", x |-> x, n |-> n],
                 << MathDiv(x, n), MathMod(x, n), MathMax(x + 9, n), MathMin(x + 9, n) >>)
    BY <1>6 DEF Divide
  <2>2. /\ out' = << MathDiv(x, n), MathMod(x, n), MathMax(x + 9, n), MathMin(x + 9, n) >>
        /\ call' = [fn |-> "divmod", x |-> x, n |-> n]
    BY <2>1 DEF Answer
  <2>3. x \in Int
    OBVIOUS
  <2>4. /\ out'[1] * n + out'[2] = x /\ out'[2] \in 0..(n - 1)
        /\ out'[3] >= n /\ out'[4] <= n /\ out'[3] + out'[4] = x + 9 + n
    BY <2>2, <2>3, DivisionIsRight
  <2> QED
    BY <2>2, <2>4 DEF Right
<1>7. CASE DrawNumbers
  <2>1. PICK seed \in Seeds, tick \in Ticks :
          Answer([fn |-> "rand", seed |-> seed, tick |-> tick],
                 [n \in 1..5 |-> Draw(seed, tick, n)])
    BY <1>7 DEF DrawNumbers
  <2>2. /\ out' = [n \in 1..5 |-> Draw(seed, tick, n)]
        /\ call' = [fn |-> "rand", seed |-> seed, tick |-> tick]
    BY <2>1 DEF Answer
  <2>3. seed \in Nat /\ tick \in Nat
    BY SeedAssumption
  <2>4. /\ \A n \in 1..5 : RandRange(Draw(seed, tick, n), 1, 1000) \in 1..999
        /\ \A n \in 3..5 : Draw(seed, tick, n) = Settled
        /\ RandRange(Settled, 1, 1000) = 485
    BY <2>3, DrawsAreSettled
  <2>5. /\ \A n \in 1..5 : out'[n] = Draw(seed, tick, n)
        /\ 3 \in 1..5 /\ 4 \in 1..5 /\ 5 \in 1..5 /\ 3 \in 3..5 /\ 4 \in 3..5 /\ 5 \in 3..5
    BY <2>2
  <2>6. out'[3] = Settled /\ out'[4] = Settled /\ out'[5] = Settled
    BY <2>4, <2>5
  <2> QED
    BY <2>2, <2>4, <2>5, <2>6 DEF Right
<1> QED
  BY <1>1, <1>2, <1>3, <1>4, <1>5, <1>6, <1>7, CopyIsRight, StringCopyIsRight DEF Next

(* For every memory, every two places in it and every length: memmove and  *)
(* memcpy move the source as it was, the string functions copy and compare *)
(* whole strings, div and mod round down; and from every seed rand has     *)
(* settled on one number at its third call.                                *)
THEOREM HelpersStayRight == Spec => []HelpersAreRight
<1>1. Init => HelpersAreRight
  <2> SUFFICES ASSUME Init PROVE Right(call, out)
    BY RightIsRight
  <2>1. call.fn = "none"
    BY DEF Init, Nothing
  <2> QED
    BY <2>1, OtherCalls
<1>2. HelpersAreRight /\ [Next]_vars => HelpersAreRight'
  <2>1. HelpersAreRight' <=> Right(call', out')
    <3>1. CopiesMoveTheirSource' /\ StringsAreCopied' /\ DivisionRoundsDown' /\ DrawsSettle'
            /\ StringsCompare' <=> Right(call', out')
      BY Zenon DEF CopiesMoveTheirSource, StringsAreCopied, StringsCompare,
                   DivisionRoundsDown, DrawsSettle, Right, Before
    <3> QED
      BY <3>1 DEF HelpersAreRight
  <2>2. ASSUME HelpersAreRight, UNCHANGED vars PROVE HelpersAreRight'
    <3>1. call' = call /\ out' = out /\ Right(call, out)
      BY <2>2, RightIsRight DEF vars
    <3> QED
      BY <2>1, <3>1
  <2> QED
    BY <2>1, <2>2, EveryAnswerIsRight
<1> QED
  BY <1>1, <1>2, PTL DEF Spec

----------------------------------------------------------------------------
(* Powers *)

PowerStep(f, b, k) == IF k = 0 THEN 1 ELSE b * f[k - 1]
PowersBy(f, b, n)  == f = [k \in 0..n |-> PowerStep(f, b, k)]

LEMMA SomePowers ==
    ASSUME NEW b, NEW n \in Nat
    PROVE  \E f : PowersBy(f, b, n)
<1> DEFINE S == {m \in Nat : \E f : PowersBy(f, b, m)}
<1>1. 0 \in S
  <2> DEFINE f == [k \in 0..0 |-> 1]
  <2>1. f = [k \in 0..0 |-> PowerStep(f, b, k)]
    BY DEF PowerStep
  <2> QED
    BY <2>1 DEF PowersBy
<1>2. ASSUME NEW m \in Nat, m \in S PROVE m + 1 \in S
  <2>1. PICK f : PowersBy(f, b, m)
    BY <1>2
  <2> DEFINE g == [k \in 0..(m + 1) |-> IF k = m + 1 THEN PowerStep(f, b, k) ELSE f[k]]
  <2>2. /\ \A k \in 0..(m + 1) : g[k] = IF k = m + 1 THEN PowerStep(f, b, k) ELSE f[k]
        /\ g = [k \in 0..(m + 1) |-> g[k]]
    OBVIOUS
  <2> HIDE DEF g
  <2>3. \A k \in 0..(m + 1) : k = 0 \/ g[k - 1] = f[k - 1]
    BY <2>2
  <2>4. \A k \in 0..(m + 1) : PowerStep(g, b, k) = PowerStep(f, b, k)
    BY <2>3, Zenon DEF PowerStep
  <2>5. \A k \in 0..(m + 1) : g[k] = PowerStep(f, b, k)
    <3>1. \A k \in 0..m : f[k] = PowerStep(f, b, k)
      BY <2>1 DEF PowersBy
    <3>2. \A k \in 0..(m + 1) : k = m + 1 \/ k \in 0..m
      OBVIOUS
    <3> QED
      BY <2>2, <3>1, <3>2
  <2>6. g = [k \in 0..(m + 1) |-> PowerStep(g, b, k)]
    BY <2>2, <2>4, <2>5
  <2> QED
    BY <2>6 DEF PowersBy
<1> HIDE DEF S
<1>3. n \in S
  BY <1>1, <1>2, Inductive
<1> QED
  BY <1>3 DEF S

LEMMA PowersAgree ==
    ASSUME NEW b, NEW m \in Nat, NEW n \in Nat, m <= n,
           NEW f, PowersBy(f, b, m), NEW g, PowersBy(g, b, n)
    PROVE  \A k \in 0..m : f[k] = g[k]
<1> DEFINE S == {k \in Nat : k <= m => f[k] = g[k]}
<1>1. /\ \A k \in 0..m : f[k] = PowerStep(f, b, k)
      /\ \A k \in 0..n : g[k] = PowerStep(g, b, k)
  BY DEF PowersBy
<1>2. 0 \in S
  <2>1. f[0] = PowerStep(f, b, 0) /\ g[0] = PowerStep(g, b, 0)
    BY <1>1
  <2> QED
    BY <2>1 DEF PowerStep
<1>3. ASSUME NEW k \in Nat, k \in S PROVE k + 1 \in S
  <2> SUFFICES ASSUME k + 1 <= m PROVE f[k + 1] = g[k + 1]
    OBVIOUS
  <2>1. f[k] = g[k] /\ k + 1 \in 0..m /\ k + 1 \in 0..n /\ (k + 1) - 1 = k /\ k + 1 # 0
    BY <1>3
  <2>2. f[k + 1] = PowerStep(f, b, k + 1) /\ g[k + 1] = PowerStep(g, b, k + 1)
    BY <1>1, <2>1
  <2> QED
    BY <2>1, <2>2, Zenon DEF PowerStep
<1> HIDE DEF S
<1>4. \A k \in Nat : k \in S
  BY <1>2, <1>3, Inductive
<1> QED
  BY <1>4 DEF S

LEMMA PowerIs ==
    ASSUME NEW b, NEW n \in Nat
    PROVE  \E f : PowersBy(f, b, n) /\ Power(b, n) = f[n]
<1> DEFINE f == CHOOSE f : PowersBy(f, b, n)
<1>1. PowersBy(f, b, n)
  BY SomePowers
<1>2. Power(b, n) = f[n]
  BY Zenon DEF Power, PowersBy, PowerStep
<1> QED
  BY <1>1, <1>2

LEMMA PowerSteps ==
    ASSUME NEW b
    PROVE  Power(b, 0) = 1 /\ \A n \in Nat : Power(b, n + 1) = b * Power(b, n)
<1>1. Power(b, 0) = 1
  <2>1. PICK f : PowersBy(f, b, 0) /\ Power(b, 0) = f[0]
    BY PowerIs
  <2> QED
    BY <2>1 DEF PowersBy, PowerStep
<1>2. ASSUME NEW n \in Nat PROVE Power(b, n + 1) = b * Power(b, n)
  <2>1. PICK f : PowersBy(f, b, n) /\ Power(b, n) = f[n]
    BY PowerIs
  <2>2. PICK g : PowersBy(g, b, n + 1) /\ Power(b, n + 1) = g[n + 1]
    BY PowerIs
  <2>3. f[n] = g[n]
    BY <2>1, <2>2, PowersAgree
  <2>4. g[n + 1] = PowerStep(g, b, n + 1)
    BY <2>2 DEF PowersBy
  <2>5. n + 1 # 0 /\ (n + 1) - 1 = n
    OBVIOUS
  <2> QED
    BY <2>1, <2>2, <2>3, <2>4, <2>5, Zenon DEF PowerStep
<1> QED
  BY <1>1, <1>2

LEMMA PowerGrows ==
    ASSUME NEW b \in Nat, b >= 2
    PROVE  \A n \in Nat : Power(b, n) \in Nat /\ Power(b, n) > n
<1> DEFINE S == {n \in Nat : Power(b, n) \in Nat /\ Power(b, n) > n}
<1>1. 0 \in S
  BY PowerSteps
<1>2. ASSUME NEW n \in Nat, n \in S PROVE n + 1 \in S
  <2> DEFINE p == Power(b, n)
  <2>1. p \in Nat /\ p > n /\ Power(b, n + 1) = b * p
    BY <1>2, PowerSteps
  <2> HIDE DEF p
  <2>2. b * p >= p + p /\ b * p \in Nat
    BY <2>1
  <2> QED
    BY <2>1, <2>2
<1> HIDE DEF S
<1>3. \A n \in Nat : n \in S
  BY <1>1, <1>2, Inductive
<1> QED
  BY <1>3 DEF S

LEMMA PowerRises ==
    ASSUME NEW b \in Nat, b >= 2, NEW m \in Nat, NEW n \in Nat, m <= n
    PROVE  Power(b, m) <= Power(b, n)
<1> DEFINE S == {d \in Nat : Power(b, m) <= Power(b, m + d)}
<1>1. 0 \in S
  <2>1. Power(b, m) \in Nat /\ m + 0 = m
    BY PowerGrows
  <2> QED
    BY <2>1
<1>2. ASSUME NEW d \in Nat, d \in S PROVE d + 1 \in S
  <2> DEFINE p == Power(b, m + d)
  <2>0. m + d \in Nat /\ m + (d + 1) = (m + d) + 1 /\ Power(b, m) <= p
    BY <1>2
  <2>1. p \in Nat /\ Power(b, m) \in Nat /\ Power(b, (m + d) + 1) = b * p
    BY <2>0, PowerSteps, PowerGrows
  <2> HIDE DEF p
  <2>2. b * p >= p + p /\ b * p \in Nat
    BY <2>1
  <2>3. Power(b, m) <= Power(b, m + (d + 1))
    BY <2>0, <2>1, <2>2
  <2> QED
    BY <2>3
<1> HIDE DEF S
<1>3. n - m \in S /\ m + (n - m) = n
  <2>1. n - m \in Nat
    OBVIOUS
  <2> QED
    BY <1>1, <1>2, <2>1, Inductive
<1> QED
  BY <1>3 DEF S

----------------------------------------------------------------------------
(* Quotients *)

LEMMA QuotientIs ==
    ASSUME NEW a \in Nat, NEW b \in Nat \ {0}, NEW q \in Nat, b * q <= a, a < b * q + b
    PROVE  a \div b = q /\ a % b = a - b * q
<1>1. /\ a \div b \in Nat /\ a % b \in Nat /\ a % b < b
      /\ a = b * (a \div b) + (a % b)
  OBVIOUS
<1> DEFINE p == a \div b
           r == a % b
<1>2. p \in Nat /\ r \in Nat /\ r < b /\ a = b * p + r
  BY <1>1
<1> HIDE DEF p, r
<1>3. ASSUME p > q PROVE FALSE
  <2>1. b * p >= b * (q + 1)
    BY <1>2, <1>3
  <2>2. b * (q + 1) = b * q + b
    OBVIOUS
  <2> QED
    BY <1>2, <2>1, <2>2
<1>4. ASSUME p < q PROVE FALSE
  <2>1. b * q >= b * (p + 1)
    BY <1>2, <1>4
  <2>2. b * (p + 1) = b * p + b
    BY <1>2
  <2> QED
    BY <1>2, <2>1, <2>2
<1>5. p = q
  BY <1>2, <1>3, <1>4
<1>6. r = a - b * q
  BY <1>2, <1>5
<1> QED
  BY <1>5, <1>6 DEF p, r

LEMMA QuotientFacts ==
    ASSUME NEW a \in Nat, NEW b \in Nat \ {0}
    PROVE  /\ a \div b \in Nat /\ a % b \in Nat /\ a % b < b
           /\ a = b * (a \div b) + (a % b)
OBVIOUS

(* A quotient reaches c exactly when the dividend reaches b * c. *)
LEMMA QuotientReaches ==
    ASSUME NEW a \in Nat, NEW b \in Nat \ {0}, NEW c \in Nat
    PROVE  c <= a \div b <=> b * c <= a
<1> DEFINE p == a \div b
           r == a % b
<1>1. p \in Nat /\ r \in Nat /\ r < b /\ a = b * p + r
  BY QuotientFacts
<1> HIDE DEF p, r
<1>2. ASSUME c <= p PROVE b * c <= a
  <2>1. b * c <= b * p
    BY <1>1, <1>2
  <2> QED
    BY <1>1, <2>1
<1>3. ASSUME p < c PROVE a < b * c
  <2>1. b * c >= b * (p + 1)
    BY <1>1, <1>3
  <2>2. b * (p + 1) = b * p + b
    BY <1>1
  <2> QED
    BY <1>1, <2>1, <2>2
<1>4. b * c \in Nat
  OBVIOUS
<1>5. c <= p <=> b * c <= a
  BY <1>1, <1>2, <1>3, <1>4
<1> QED
  BY <1>5 DEF p

LEMMA QuotientOfQuotient ==
    ASSUME NEW a \in Nat, NEW b \in Nat \ {0}, NEW c \in Nat \ {0}
    PROVE  (a \div b) \div c = a \div (b * c) /\ b * c \in Nat \ {0}
<1> DEFINE p == a \div b
           r == a % b
           q == p \div c
           t == p % c
<1>1. p \in Nat /\ r \in Nat /\ r < b /\ a = b * p + r
  BY QuotientFacts
<1> HIDE DEF p, r
<1>2. q \in Nat /\ t \in Nat /\ t < c /\ p = c * q + t
  BY <1>1, QuotientFacts
<1> HIDE DEF q, t
<1>3. b * c \in Nat \ {0}
  <2>1. b >= 1 /\ c >= 1 /\ b * c >= c * 1
    OBVIOUS
  <2> QED
    BY <2>1
<1>4. b * p = (b * c) * q + b * t
  BY <1>1, <1>2
<1>5. b * t \in Nat /\ b * t + r < b * c
  <2>1. b * t <= b * (c - 1)
    BY <1>2
  <2>2. b * (c - 1) = b * c - b
    OBVIOUS
  <2>3. b * t \in Nat
    BY <1>2
  <2> QED
    BY <1>1, <2>1, <2>2, <2>3
<1>6. (b * c) * q \in Nat /\ (b * c) * q <= a /\ a < (b * c) * q + b * c
  <2>1. (b * c) * q \in Nat
    BY <1>2, <1>3
  <2> QED
    BY <1>1, <1>3, <1>4, <1>5, <2>1
<1>7. a \div (b * c) = q
  BY <1>2, <1>3, <1>6, QuotientIs
<1> QED
  BY <1>3, <1>7 DEF p, q

----------------------------------------------------------------------------
(* Numerals *)

IsLength(v, b, n) ==
    n \in Nat \ {0} /\ Power(b, n) > v /\ (n = 1 \/ Power(b, n - 1) <= v)

(* The length of a numeral exists, and is one more than its quotient's.    *)
LEMMA LengthIs ==
    ASSUME NEW v \in Nat, NEW b \in Nat, b >= 2
    PROVE  IsLength(v, b, Length(v, b))
<1> DEFINE S == {n \in Nat : n # 0 /\ Power(b, n) > v}
<1>1. v + 1 \in S
  <2>1. Power(b, v + 1) \in Nat /\ Power(b, v + 1) > v + 1
    BY PowerGrows
  <2> QED
    BY <2>1
<1>2. PICK m \in S : \A x \in S : m <= x
  BY <1>1, LeastOfNaturals
<1>3. m \in 1..(v + 1) /\ Power(b, m) > v
  BY <1>1, <1>2
<1>4. m = 1 \/ Power(b, m - 1) <= v
  <2> SUFFICES ASSUME m # 1 PROVE Power(b, m - 1) <= v
    OBVIOUS
  <2>1. m - 1 \in Nat /\ m - 1 # 0 /\ m - 1 \notin S
    BY <1>2, <1>3
  <2>2. Power(b, m - 1) \in Nat
    BY <2>1, PowerGrows
  <2> QED
    BY <2>1, <2>2
<1>5. /\ Length(v, b) \in 1..(v + 1) /\ Power(b, Length(v, b)) > v
      /\ Length(v, b) = 1 \/ Power(b, Length(v, b) - 1) <= v
  BY <1>3, <1>4, Zenon DEF Length
<1> QED
  BY <1>5 DEF IsLength

LEMMA LengthIsOne ==
    ASSUME NEW v \in Nat, NEW b \in Nat, b >= 2, NEW m, IsLength(v, b, m),
           NEW n, IsLength(v, b, n)
    PROVE  m = n
<1>1. m \in Nat \ {0} /\ n \in Nat \ {0}
  BY DEF IsLength
<1>2. ASSUME NEW x, NEW y, IsLength(v, b, x), IsLength(v, b, y), x \in Nat, y \in Nat, x < y
      PROVE  FALSE
  <2>1. y # 1 /\ y - 1 \in Nat /\ x <= y - 1
    BY <1>2 DEF IsLength
  <2>2. Power(b, x) <= Power(b, y - 1)
    BY <1>2, <2>1, PowerRises
  <2>3. Power(b, x) \in Nat /\ Power(b, y - 1) \in Nat
    BY <1>2, <2>1, PowerGrows
  <2>4. Power(b, x) > v /\ Power(b, y - 1) <= v
    BY <1>2, <2>1 DEF IsLength
  <2> QED
    BY <2>2, <2>3, <2>4
<1> QED
  BY <1>1, <1>2

LEMMA LengthGrows ==
    ASSUME NEW v \in Nat, NEW b \in Nat, b >= 2
    PROVE  /\ v < b => Length(v, b) = 1
           /\ v >= b => /\ v \div b \in Nat
                        /\ Length(v, b) = Length(v \div b, b) + 1
<1>0. /\ Power(b, 0) = 1 /\ Power(b, 1) = b
      /\ \A n \in Nat : Power(b, n + 1) = b * Power(b, n) /\ Power(b, n) \in Nat
  <2>1. Power(b, 0) = 1 /\ \A n \in Nat : Power(b, n + 1) = b * Power(b, n)
    BY PowerSteps
  <2>2. Power(b, 0 + 1) = b * Power(b, 0)
    BY <2>1
  <2>3. Power(b, 1) = b
    BY <2>1, <2>2
  <2> QED
    BY <2>1, <2>3, PowerGrows
<1>1. CASE v < b
  <2>1. IsLength(v, b, 1)
    BY <1>0, <1>1 DEF IsLength
  <2> QED
    BY <1>1, <2>1, LengthIs, LengthIsOne
<1>2. CASE v >= b
  <2> DEFINE q == v \div b
             n == Length(q, b)
  <2>1. q \in Nat
    BY QuotientFacts
  <2> HIDE DEF q
  <2>2. IsLength(q, b, n)
    BY <2>1, LengthIs
  <2> HIDE DEF n
  <2>3. n \in Nat \ {0} /\ n - 1 \in Nat /\ (n + 1) - 1 = n /\ (n - 1) + 1 = n
    BY <2>2 DEF IsLength
  <2>4. Power(b, n) > q /\ Power(b, n) \in Nat /\ Power(b, n + 1) = b * Power(b, n)
    BY <1>0, <2>2, <2>3 DEF IsLength
  <2>5. Power(b, n + 1) > v
    <3>1. ~ (Power(b, n) <= v \div b)
      BY <2>1, <2>4 DEF q
    <3>2. ~ (b * Power(b, n) <= v)
      BY <2>4, <3>1, QuotientReaches
    <3>3. b * Power(b, n) \in Nat
      BY <2>4
    <3> QED
      BY <2>4, <3>2, <3>3
  <2>6. Power(b, n) <= v
    <3>1. CASE n = 1
      BY <1>0, <1>2, <3>1
    <3>2. CASE n # 1
      <4>1. Power(b, n - 1) <= v \div b /\ Power(b, n - 1) \in Nat
        BY <1>0, <2>2, <2>3, <3>2 DEF IsLength, q
      <4>2. b * Power(b, n - 1) <= v
        BY <4>1, QuotientReaches
      <4> QED
        BY <1>0, <2>3, <4>2
    <3> QED
      BY <3>1, <3>2
  <2>7. IsLength(v, b, n + 1)
    BY <2>3, <2>5, <2>6 DEF IsLength
  <2>8. Length(v, b) = n + 1
    BY <2>7, LengthIs, LengthIsOne
  <2> QED
    BY <1>2, <2>1, <2>8 DEF n, q
<1> QED
  BY <1>1, <1>2

(* The digit of a number above k others *)
DigitAt(v, b, k) == Digit((v \div Power(b, k)) % b)

LEMMA DigitsMove ==
    ASSUME NEW v \in Nat, NEW b \in Nat, b >= 2
    PROVE  /\ DigitAt(v, b, 0) = Digit(v % b)
           /\ \A k \in Nat : DigitAt(v, b, k + 1) = DigitAt(v \div b, b, k)
<1>1. DigitAt(v, b, 0) = Digit(v % b)
  <2>1. Power(b, 0) = 1 /\ v \div 1 = v
    BY PowerSteps
  <2> QED
    BY <2>1 DEF DigitAt
<1>2. ASSUME NEW k \in Nat PROVE DigitAt(v, b, k + 1) = DigitAt(v \div b, b, k)
  <2>1. Power(b, k) \in Nat \ {0} /\ Power(b, k + 1) = b * Power(b, k)
    BY PowerSteps, PowerGrows
  <2>2. (v \div b) \div Power(b, k) = v \div (b * Power(b, k))
    BY <2>1, QuotientOfQuotient
  <2> QED
    BY <2>1, <2>2 DEF DigitAt
<1> QED
  BY <1>1, <1>2

LEMMA NumeralIs ==
    ASSUME NEW v \in Nat, NEW b \in Nat, b >= 2
    PROVE  /\ Length(v, b) \in Nat \ {0}
           /\ Numeral(v, b) = [n \in 1..Length(v, b) |-> DigitAt(v, b, Length(v, b) - n)]
           /\ Len(Numeral(v, b)) = Length(v, b)
<1>1. Length(v, b) \in Nat \ {0}
  BY LengthIs DEF IsLength
<1>2. Numeral(v, b) = [n \in 1..Length(v, b) |-> DigitAt(v, b, Length(v, b) - n)]
  BY DEF Numeral, DigitAt
<1> DEFINE L == Length(v, b)
           D(n) == DigitAt(v, b, L - n)
<1> HIDE DEF D
<1>3. Len([n \in 1..L |-> D(n)]) = L
  BY <1>1
<1> QED
  BY <1>1, <1>2, <1>3 DEF D

(* Every digit is a character. *)
LEMMA DigitsAreCharacters ==
    ASSUME NEW v \in Nat, NEW b \in Nat, b >= 2, b <= 16, NEW k \in Nat
    PROVE  DigitAt(v, b, k) \in 48..102
<1>1. Power(b, k) \in Nat \ {0}
  BY PowerGrows
<1>2. v \div Power(b, k) \in Nat
  BY <1>1, QuotientFacts
<1> DEFINE d == (v \div Power(b, k)) % b
<1>3. d \in Nat /\ d < b
  BY <1>2, QuotientFacts
<1> HIDE DEF d
<1>4. Digit(d) \in 48..102
  BY <1>3 DEF Digit
<1> QED
  BY <1>4 DEF d, DigitAt

----------------------------------------------------------------------------
(* The digits from the last to the first: after n rounds the loop has the  *)
(* lowest n of them, or all, and the quotient by that power of the base.   *)

Smaller(m, n) == IF m <= n THEN m ELSE n

LowDigits(v, b, r) == [k \in 1..Smaller(r, Length(v, b)) |-> DigitAt(v, b, k - 1)]

LEMMA LowDigitsIs ==
    ASSUME NEW v \in Nat, NEW b \in Nat, b >= 2, NEW r \in Nat
    PROVE  /\ Smaller(r, Length(v, b)) \in Nat
           /\ Len(LowDigits(v, b, r)) = Smaller(r, Length(v, b))
           /\ \A k \in 1..Smaller(r, Length(v, b)) : LowDigits(v, b, r)[k] = DigitAt(v, b, k - 1)
           /\ LowDigits(v, b, r) = [k \in 1..Smaller(r, Length(v, b)) |-> LowDigits(v, b, r)[k]]
<1> DEFINE m == Smaller(r, Length(v, b))
           D(k) == DigitAt(v, b, k - 1)
<1>1. m \in Nat
  BY NumeralIs DEF Smaller
<1> HIDE DEF D, m
<1> DEFINE s == [k \in 1..m |-> D(k)]
<1>2. Len(s) = m /\ (\A k \in 1..m : s[k] = D(k)) /\ s = [k \in 1..m |-> s[k]]
  BY <1>1
<1> QED
  BY <1>1, <1>2 DEF LowDigits, D, m

Low(v, b, n) == [s |-> LowDigits(v, b, n), rest |-> v \div Power(b, n)]

LowStep(f, v, b, n) ==
    IF n = 0 THEN [s |-> << >>, rest |-> v] ELSE NextDigit(f[n - 1], b)
LowBy(f, v, b, room) == f = [n \in 0..room |-> LowStep(f, v, b, n)]

LEMMA LowBegins ==
    ASSUME NEW v \in Nat, NEW b \in Nat, b >= 2
    PROVE  Low(v, b, 0) = [s |-> << >>, rest |-> v]
<1>1. v \div Power(b, 0) = v
  BY PowerSteps
<1>2. Smaller(0, Length(v, b)) = 0
  BY NumeralIs DEF Smaller
<1> DEFINE s == LowDigits(v, b, 0)
<1>3. Len(s) = 0 /\ s = [k \in 1..0 |-> s[k]]
  BY <1>2, LowDigitsIs
<1> HIDE DEF s
<1>4. s = << >>
  BY <1>3
<1> QED
  BY <1>1, <1>4 DEF s, Low

LEMMA LowGoesOn ==
    ASSUME NEW v \in Nat, NEW b \in Nat, b >= 2, NEW n \in Nat
    PROVE  Low(v, b, n + 1) = NextDigit(Low(v, b, n), b)
<1> DEFINE L == Length(v, b)
           m == Smaller(n, L)
           s == LowDigits(v, b, n)
           q == v \div Power(b, n)
           m1 == Smaller(n + 1, L)
           s1 == LowDigits(v, b, n + 1)
           q1 == v \div Power(b, n + 1)
           D(k) == DigitAt(v, b, k)
<1>1. /\ L \in Nat \ {0} /\ Power(b, L) > v /\ (L = 1 \/ Power(b, L - 1) <= v)
  BY LengthIs DEF IsLength
<1>2. /\ Power(b, n) \in Nat \ {0} /\ Power(b, n + 1) \in Nat \ {0}
      /\ Power(b, n + 1) = b * Power(b, n) /\ Power(b, n) * b = b * Power(b, n)
  <2>1. Power(b, n) \in Nat /\ Power(b, n) > n
    BY PowerGrows
  <2>2. n + 1 \in Nat /\ Power(b, n + 1) \in Nat /\ Power(b, n + 1) > n + 1
    BY PowerGrows
  <2>3. Power(b, n + 1) = b * Power(b, n)
    BY PowerSteps
  <2> QED
    BY <2>1, <2>2, <2>3
<1>3. q \in Nat /\ q1 \in Nat /\ q \div b = q1
  <2>1. v \div Power(b, n) \in Nat /\ v \div Power(b, n + 1) \in Nat
    BY <1>2, QuotientFacts
  <2>2. (v \div Power(b, n)) \div b = v \div (Power(b, n) * b)
    BY <1>2, QuotientOfQuotient
  <2> QED
    BY <1>2, <2>1, <2>2
<1>4. /\ m \in Nat /\ Len(s) = m /\ (\A k \in 1..m : s[k] = D(k - 1))
      /\ s = [k \in 1..m |-> s[k]]
  BY LowDigitsIs
<1>5. /\ m1 \in Nat /\ Len(s1) = m1 /\ (\A k \in 1..m1 : s1[k] = D(k - 1))
      /\ s1 = [k \in 1..m1 |-> s1[k]]
  BY LowDigitsIs
<1>6. D(n) = Digit(q % b)
  BY DEF DigitAt
<1>7. m = (IF n <= L THEN n ELSE L) /\ m1 = (IF n + 1 <= L THEN n + 1 ELSE L)
  BY DEF Smaller
<1>8. Low(v, b, n) = [s |-> s, rest |-> q] /\ Low(v, b, n + 1) = [s |-> s1, rest |-> q1]
  BY DEF Low
<1>9. NextDigit(Low(v, b, n), b) = IF s # << >> /\ q = 0 THEN [s |-> s, rest |-> q]
                                   ELSE [s |-> Append(s, Digit(q % b)), rest |-> q \div b]
  <2> HIDE DEF s, q
  <2>1. [s |-> s, rest |-> q].s = s /\ [s |-> s, rest |-> q].rest = q
    OBVIOUS
  <2> QED
    BY <1>8, <2>1, Zenon DEF NextDigit
<1>10. n >= L => q = 0
  <2> SUFFICES ASSUME n >= L PROVE ~ 1 <= v \div Power(b, n)
    BY <1>3
  <2>1. Power(b, L) <= Power(b, n) /\ Power(b, L) \in Nat
    BY <1>1, PowerRises, PowerGrows
  <2>2. ~ Power(b, n) * 1 <= v
    BY <1>1, <1>2, <2>1
  <2> QED
    BY <1>2, <2>2, QuotientReaches
<1>11. n < L /\ n # 0 => q # 0
  <2> SUFFICES ASSUME n < L, n # 0 PROVE 1 <= v \div Power(b, n)
    BY <1>3
  <2>1. L # 1 /\ L - 1 \in Nat /\ n <= L - 1
    BY <1>1
  <2>2. Power(b, n) <= Power(b, L - 1) /\ Power(b, L - 1) \in Nat
    BY <2>1, PowerRises, PowerGrows
  <2>3. Power(b, n) * 1 <= v
    BY <1>1, <1>2, <2>1, <2>2
  <2> QED
    BY <1>2, <2>3, QuotientReaches
<1> HIDE DEF L, m, s, q, m1, s1, q1, D
<1>12. CASE n >= L
  <2>1. m = L /\ m1 = L /\ q = 0 /\ m # 0
    BY <1>1, <1>7, <1>10, <1>12
  <2>2. s # << >>
    BY <1>4, <2>1
  <2>3. s1 = s
    BY <1>4, <1>5, <2>1
  <2>4. q1 = q
    BY <1>3, <2>1
  <2> QED
    BY <1>8, <1>9, <2>1, <2>2, <2>3, <2>4
<1>13. CASE n < L
  <2>1. m = n /\ m1 = n + 1
    BY <1>1, <1>7, <1>13
  <2>2. ~ (s # << >> /\ q = 0)
    <3>1. CASE n = 0
      BY <1>4, <2>1, <3>1
    <3>2. CASE n # 0
      BY <1>11, <1>13, <3>2
    <3> QED
      BY <3>1, <3>2
  <2> DEFINE u == Append(s, D(n))
  <2>3. /\ Len(u) = n + 1 /\ u = [k \in 1..(n + 1) |-> u[k]]
        /\ \A k \in 1..(n + 1) : u[k] = IF k = n + 1 THEN D(n) ELSE s[k]
    <3>1. s \in Seq({s[k] : k \in 1..n})
      BY <1>4, <2>1
    <3> QED
      BY <1>4, <2>1, <3>1
  <2> HIDE DEF u
  <2>4. \A k \in 1..(n + 1) : u[k] = s1[k]
    <3> TAKE k \in 1..(n + 1)
    <3>1. CASE k = n + 1
      <4>1. k - 1 = n /\ s1[k] = D(k - 1)
        BY <1>5, <2>1, <3>1
      <4> QED
        BY <2>3, <3>1, <4>1
    <3>2. CASE k # n + 1
      <4>1. k \in 1..m /\ k \in 1..m1
        BY <2>1, <3>2
      <4>2. s[k] = D(k - 1) /\ s1[k] = D(k - 1)
        BY <1>4, <1>5, <4>1
      <4> QED
        BY <2>3, <3>2, <4>2
    <3> QED
      BY <3>1, <3>2
  <2>5. u = s1
    BY <1>5, <2>1, <2>3, <2>4
  <2> QED
    BY <1>3, <1>6, <1>8, <1>9, <2>2, <2>5 DEF u
<1> QED
  BY <1>1, <1>12, <1>13

LEMMA DigitsBackwardsIs ==
    ASSUME NEW v \in Nat, NEW b \in Nat, b >= 2, NEW room \in Nat
    PROVE  DigitsBackwards(v, b, room) = LowDigits(v, b, room)
<1> DEFINE g == [n \in 0..room |-> Low(v, b, n)]
           f == CHOOSE f : LowBy(f, v, b, room)
<1>1. \A n \in 0..room : Low(v, b, n) = IF n = 0 THEN [s |-> << >>, rest |-> v]
                                        ELSE NextDigit(Low(v, b, n - 1), b)
  <2> TAKE n \in 0..room
  <2>1. CASE n = 0
    BY <2>1, LowBegins
  <2>2. CASE n # 0
    <3>1. n - 1 \in Nat /\ (n - 1) + 1 = n
      BY <2>2
    <3>2. Low(v, b, (n - 1) + 1) = NextDigit(Low(v, b, n - 1), b)
      BY <3>1, LowGoesOn
    <3> QED
      BY <2>2, <3>1, <3>2
  <2> QED
    BY <2>1, <2>2
<1>2. LowBy(g, v, b, room)
  <2>1. \A n \in 0..room : n = 0 \/ g[n - 1] = Low(v, b, n - 1)
    OBVIOUS
  <2>2. \A n \in 0..room : Low(v, b, n) = LowStep(g, v, b, n)
    <3> HIDE DEF g
    <3> QED
      BY <1>1, <2>1, Zenon DEF LowStep
  <2>3. g = [n \in 0..room |-> LowStep(g, v, b, n)]
    <3> DEFINE w == [n \in 0..room |-> LowStep(g, v, b, n)]
    <3>1. \A n \in 0..room : g[n] = w[n]
      BY <2>2
    <3>2. g = [n \in 0..room |-> g[n]] /\ w = [n \in 0..room |-> w[n]]
      OBVIOUS
    <3> HIDE DEF g, w
    <3>3. g = w
      BY <3>1, <3>2
    <3> QED
      BY <3>3 DEF w
  <2> QED
    BY <2>3 DEF LowBy
<1> HIDE DEF g
<1>3. LowBy(f, v, b, room)
  BY <1>2
<1>4. DigitsBackwards(v, b, room) = f[room].s
  BY Zenon DEF DigitsBackwards, LowBy, LowStep
<1> HIDE DEF f
<1> DEFINE S == {n \in Nat : n <= room => f[n] = Low(v, b, n)}
<1>5. \A n \in 0..room : f[n] = LowStep(f, v, b, n)
  BY <1>3 DEF LowBy
<1>6. 0 \in S
  <2>1. f[0] = LowStep(f, v, b, 0)
    BY <1>5
  <2> QED
    BY <2>1, LowBegins DEF LowStep
<1>7. ASSUME NEW n \in Nat, n \in S PROVE n + 1 \in S
  <2> SUFFICES ASSUME n + 1 <= room PROVE f[n + 1] = Low(v, b, n + 1)
    OBVIOUS
  <2>1. f[n] = Low(v, b, n) /\ n + 1 \in 0..room /\ n + 1 # 0 /\ (n + 1) - 1 = n
    BY <1>7
  <2>2. f[n + 1] = LowStep(f, v, b, n + 1)
    BY <1>5, <2>1
  <2>3. Low(v, b, n + 1) = NextDigit(Low(v, b, n), b)
    BY LowGoesOn
  <2> QED
    BY <2>1, <2>2, <2>3, Zenon DEF LowStep
<1> HIDE DEF S
<1>8. room \in S
  BY <1>6, <1>7, Inductive
<1>9. f[room] = Low(v, b, room)
  BY <1>8 DEF S
<1> QED
  BY <1>4, <1>9 DEF Low

(* The last digits, as many as there is room for *)
LastOf(s, room) == IF Len(s) <= room THEN s ELSE SubSeq(s, Len(s) - room + 1, Len(s))

LEMMA NumeralIsText ==
    ASSUME NEW v \in Nat, NEW b \in Nat, b >= 2, b <= 16
    PROVE  Numeral(v, b) \in Seq(48..102)
<1>1. \A n \in 1..Length(v, b) : Length(v, b) - n \in Nat
  BY NumeralIs
<1>2. \A n \in 1..Length(v, b) : DigitAt(v, b, Length(v, b) - n) \in 48..102
  BY <1>1, DigitsAreCharacters
<1>3. /\ Length(v, b) \in Nat
      /\ Numeral(v, b) = [n \in 1..Length(v, b) |-> DigitAt(v, b, Length(v, b) - n)]
  BY NumeralIs
<1> DEFINE L == Length(v, b)
           D(n) == DigitAt(v, b, L - n)
<1> HIDE DEF D, L
<1>4. [n \in 1..L |-> D(n)] \in [1..L -> 48..102] /\ L \in Nat
  BY <1>2, <1>3 DEF D, L
<1>5. [n \in 1..L |-> D(n)] \in Seq(48..102)
  BY <1>4
<1> QED
  BY <1>3, <1>5 DEF D, L

(* The loop of vga_utoa, reversed: the numeral or the end of it.           *)
LEMMA DigitsInOrder ==
    ASSUME NEW v \in Nat, NEW b \in Nat, b >= 2, b <= 16, NEW room \in Nat
    PROVE  /\ InOrder(DigitsBackwards(v, b, room)) = LastOf(Numeral(v, b), room)
           /\ InOrder(DigitsBackwards(v, b, room)) \in Seq(48..102)
           /\ Len(InOrder(DigitsBackwards(v, b, room))) = Smaller(room, Length(v, b))
<1> DEFINE s == LowDigits(v, b, room)
           m == Smaller(room, Length(v, b))
           L == Length(v, b)
           N == Numeral(v, b)
           o == InOrder(s)
<1>1. DigitsBackwards(v, b, room) = s
  BY DigitsBackwardsIs
<1>2. m \in Nat /\ Len(s) = m /\ \A k \in 1..m : s[k] = DigitAt(v, b, k - 1)
  BY LowDigitsIs
<1>3. /\ L \in Nat \ {0} /\ Len(N) = L
      /\ \A n \in 1..L : N[n] = DigitAt(v, b, L - n)
      /\ N = [n \in 1..L |-> N[n]]
  BY NumeralIs
<1>4. N \in Seq(48..102)
  BY NumeralIsText
<1>5. m = IF room <= L THEN room ELSE L
  BY DEF Smaller
<1>6. o = [n \in 1..Len(s) |-> s[(Len(s) - n) + 1]]
  BY DEF InOrder, Reverse
<1> HIDE DEF s, m, L, N, o
<1>7. ASSUME NEW n \in 1..m PROVE o[n] = DigitAt(v, b, m - n)
  <2>1. (m - n) + 1 \in 1..m /\ ((m - n) + 1) - 1 = m - n
    BY <1>2
  <2>2. o[n] = s[(m - n) + 1]
    BY <1>2, <1>6
  <2> QED
    BY <1>2, <2>1, <2>2
<1>8. o = [n \in 1..m |-> o[n]]
  BY <1>2, <1>6
<1>9. \A n \in 1..m : o[n] \in 48..102
  <2>1. \A n \in 1..m : m - n \in Nat
    BY <1>2
  <2> QED
    BY <1>7, <2>1, DigitsAreCharacters
<1>10. o \in Seq(48..102) /\ Len(o) = m
  <2>1. o \in [1..m -> 48..102]
    BY <1>8, <1>9
  <2>2. o \in Seq(48..102)
    BY <1>2, <2>1
  <2> QED
    BY <1>2, <1>8, <2>2
<1>11. o = LastOf(N, room)
  <2>1. CASE L <= room
    <3>1. m = L
      BY <1>3, <1>5, <2>1
    <3>2. \A n \in 1..L : o[n] = N[n]
      BY <1>3, <1>7, <3>1
    <3>3. o = N
      BY <1>3, <1>8, <3>1, <3>2
    <3> QED
      BY <1>3, <2>1, <3>3 DEF LastOf
  <2>2. CASE ~ L <= room
    <3> DEFINE t == SubSeq(N, L - room + 1, L)
    <3>1. m = room
      BY <1>3, <1>5, <2>2
    <3>2. /\ t \in Seq(48..102) /\ Len(t) = m
          /\ \A n \in 1..m : t[n] = N[(L - m + 1) + n - 1]
      <4>1. L - room + 1 \in 1..(L + 1) /\ L \in Int
        BY <1>3, <2>2
      <4>2. L - (L - room + 1) + 1 = m /\ (L - room + 1 <= L <=> m # 0) /\ m = room
        BY <1>3, <3>1
      <4>3. \A i \in (L - room + 1)..L : N[i] \in 48..102
        BY <1>3, <1>4, <4>1
      <4>4. /\ t \in Seq(48..102)
            /\ Len(t) = IF L - room + 1 <= L THEN L - (L - room + 1) + 1 ELSE 0
            /\ \A i \in 1..(L - (L - room + 1) + 1) : t[i] = N[(L - room + 1) + i - 1]
        BY <4>1, <4>3, SubSeqProperties
      <4> HIDE DEF t
      <4> QED
        BY <4>2, <4>4
    <3> HIDE DEF t
    <3>3. ASSUME NEW n \in 1..m PROVE t[n] = o[n]
      <4>1. (L - m + 1) + n - 1 \in 1..L /\ L - ((L - m + 1) + n - 1) = m - n
        BY <1>2, <1>3, <2>2, <3>1
      <4> QED
        BY <1>3, <1>7, <3>2, <4>1
    <3>4. t = o
      BY <1>10, <3>2, <3>3
    <3> QED
      BY <1>3, <2>2, <3>4 DEF LastOf, t
  <2> QED
    BY <2>1, <2>2
<1> QED
  BY <1>1, <1>10, <1>11 DEF o, N, m, L

----------------------------------------------------------------------------
(* The digits from the first to the last *)

Top == LongWord - 1

LEMMA TopIs == Top \in Nat /\ Top >= 1 /\ LongWord = Top + 1
BY FormatAssumption DEF Top

(* The powers of ten from p on, the largest first *)
TensOf(p)  == Length(Top \div p, 10)
TensUp(p)  == [n \in 1..TensOf(p) |-> p * Power(10, TensOf(p) - n)]

TensStep(f, p) == IF p > Top \div 10 THEN << p >> ELSE Append(f[p * 10], p)
TensBy(f)      == f = [p \in 1..LongWord |-> TensStep(f, p)]

LEMMA TensUpIs ==
    ASSUME NEW p \in Nat \ {0}
    PROVE  /\ TensOf(p) \in Nat \ {0} /\ Len(TensUp(p)) = TensOf(p)
           /\ \A n \in 1..TensOf(p) : TensUp(p)[n] = p * Power(10, TensOf(p) - n)
           /\ TensUp(p) = [n \in 1..TensOf(p) |-> TensUp(p)[n]]
<1> DEFINE h == TensOf(p)
           D(n) == p * Power(10, h - n)
           s == [n \in 1..h |-> D(n)]
<1>1. h \in Nat \ {0}
  <2>1. Top \div p \in Nat
    BY TopIs, QuotientFacts
  <2> QED
    BY <2>1, NumeralIs DEF TensOf
<1> HIDE DEF h, D
<1>2. Len(s) = h /\ (\A n \in 1..h : s[n] = D(n)) /\ s = [n \in 1..h |-> s[n]]
  BY <1>1
<1>3. TensUp(p) = s
  BY DEF TensUp, h, D
<1> QED
  BY <1>1, <1>2, <1>3 DEF h, D

LEMMA TensGoOn ==
    ASSUME NEW p \in Nat \ {0}
    PROVE  /\ p > Top \div 10 => TensUp(p) = << p >>
           /\ ~ p > Top \div 10 => /\ p * 10 \in 1..LongWord /\ p < p * 10
                                   /\ TensUp(p) = Append(TensUp(p * 10), p)
<1> DEFINE q == Top \div p
           h == TensOf(p)
           s == TensUp(p)
<1>1. q \in Nat /\ Top \in Nat /\ h = Length(q, 10)
  BY TopIs, QuotientFacts DEF TensOf
<1>2. /\ h \in Nat \ {0} /\ Len(s) = h
      /\ \A n \in 1..h : s[n] = p * Power(10, h - n)
      /\ s = [n \in 1..h |-> s[n]]
  BY TensUpIs
<1>3. Power(10, 0) = 1 /\ \A n \in Nat : Power(10, n + 1) = 10 * Power(10, n) /\ Power(10, n) \in Nat
  BY PowerSteps, PowerGrows
<1>4. (p <= Top \div 10 <=> 10 * p <= Top) /\ (10 <= q <=> p * 10 <= Top)
  BY <1>1, QuotientReaches
<1>5. Top \div 10 \in Nat
  BY <1>1, QuotientFacts
<1>6. CASE p > Top \div 10
  <2>1. q < 10
    BY <1>1, <1>4, <1>5, <1>6
  <2>2. h = 1
    BY <1>1, <2>1, LengthGrows
  <2> HIDE DEF q, h, s
  <2>3. s[1] = p * Power(10, 1 - 1) /\ p * 1 = p
    BY <1>2, <2>2
  <2>4. s = << p >>
    BY <1>2, <1>3, <2>2, <2>3
  <2> QED
    BY <1>6, <2>4 DEF s
<1>7. CASE ~ p > Top \div 10
  <2> DEFINE t == p * 10
             l == TensOf(t)
             u == TensUp(t)
  <2>1. q >= 10 /\ t <= Top /\ t \in Nat \ {0} /\ p < t
    BY <1>1, <1>4, <1>5, <1>7
  <2>2. h = Length(q \div 10, 10) + 1
    BY <1>1, <2>1, LengthGrows
  <2>3. q \div 10 = Top \div t
    <3>1. 10 \in Nat \ {0} /\ Top \in Nat
      BY <1>1
    <3> HIDE DEF t
    <3>2. (Top \div p) \div 10 = Top \div (p * 10)
      BY <3>1, QuotientOfQuotient
    <3> QED
      BY <3>2 DEF t
  <2>4. h = l + 1
    BY <2>2, <2>3 DEF TensOf
  <2>5. /\ l \in Nat \ {0} /\ Len(u) = l
        /\ \A n \in 1..l : u[n] = t * Power(10, l - n)
        /\ u = [n \in 1..l |-> u[n]]
    BY <2>1, TensUpIs
  <2> HIDE DEF q, h, s, l, u
  <2>6. ASSUME NEW n \in 1..l PROVE s[n] = u[n]
    <3>1. l - n \in Nat /\ h - n = (l - n) + 1 /\ n \in 1..h
      BY <2>4, <2>5
    <3> DEFINE w == Power(10, l - n)
    <3>2. w \in Nat /\ Power(10, h - n) = 10 * w
      BY <1>3, <3>1
    <3>3. s[n] = p * Power(10, h - n) /\ u[n] = t * w
      BY <1>2, <2>5, <3>1
    <3> HIDE DEF w
    <3>4. p * (10 * w) = (p * 10) * w
      BY <3>2
    <3> QED
      BY <3>2, <3>3, <3>4
  <2>7. s[h] = p
    <3>1. h \in 1..h /\ h - h = 0 /\ p * 1 = p
      BY <1>2
    <3>2. s[h] = p * Power(10, h - h)
      BY <1>2, <3>1
    <3> QED
      BY <1>3, <3>1, <3>2
  <2> DEFINE v == Append(u, p)
  <2>8. /\ Len(v) = l + 1 /\ v = [n \in 1..(l + 1) |-> v[n]]
        /\ \A n \in 1..(l + 1) : v[n] = IF n = l + 1 THEN p ELSE u[n]
    <3>1. u \in Seq({u[n] : n \in 1..l})
      BY <2>5
    <3> QED
      BY <2>5, <3>1
  <2> HIDE DEF v
  <2>9. \A n \in 1..h : s[n] = v[n]
    <3> TAKE n \in 1..h
    <3>1. CASE n = l + 1
      BY <2>4, <2>7, <2>8, <3>1
    <3>2. CASE n # l + 1
      <4>1. n \in 1..l /\ n \in 1..(l + 1)
        BY <2>4, <2>5, <3>2
      <4> QED
        BY <2>6, <2>8, <3>2, <4>1
    <3> QED
      BY <3>1, <3>2
  <2>10. s = v
    BY <1>2, <2>4, <2>8, <2>9
  <2>11. t \in 1..LongWord /\ p < t
    BY <2>1, TopIs
  <2> QED
    BY <1>7, <2>10, <2>11 DEF s, v, u, t
<1> QED
  BY <1>6, <1>7

(* The array of vga_ulltoa has a power for every digit of the longest      *)
(* number. *)
LEMMA PowersAre ==
    /\ Len(Powers) = Length(Top, 10)
    /\ \A n \in 1..Length(Top, 10) : Powers[n] = Power(10, Length(Top, 10) - n)
<1> DEFINE g == [p \in 1..LongWord |-> TensUp(p)]
           f == CHOOSE f : TensBy(f)
<1>0. Top \in Nat /\ LongWord = Top + 1
  BY TopIs
<1>1. TensBy(g)
  <2>1. \A p \in 1..LongWord : g[p] = TensUp(p)
    OBVIOUS
  <2>2. g = [p \in 1..LongWord |-> g[p]]
    OBVIOUS
  <2> HIDE DEF g
  <2>3. \A p \in 1..LongWord : g[p] = TensStep(g, p)
    <3> TAKE p \in 1..LongWord
    <3>1. p \in Nat \ {0}
      BY <1>0
    <3>2. ~ p > Top \div 10 => g[p * 10] = TensUp(p * 10)
      BY <2>1, <3>1, TensGoOn
    <3>3. g[p] = TensUp(p)
      BY <2>1
    <3> QED
      BY <3>1, <3>2, <3>3, TensGoOn DEF TensStep
  <2> DEFINE w == [p \in 1..LongWord |-> TensStep(g, p)]
  <2>4. w = [p \in 1..LongWord |-> w[p]] /\ \A p \in 1..LongWord : w[p] = TensStep(g, p)
    OBVIOUS
  <2> HIDE DEF w
  <2>5. \A p \in 1..LongWord : w[p] = g[p]
    BY <2>3, <2>4
  <2>6. g = w
    BY <2>2, <2>4, <2>5
  <2> QED
    BY <2>6 DEF TensBy, w
<1> HIDE DEF g
<1>2. TensBy(f)
  BY <1>1
<1>3. Powers = f[1]
  BY Zenon DEF Powers, TensBy, TensStep, Top
<1> HIDE DEF f
<1> DEFINE S == {d \in Nat : \A p \in 1..LongWord : LongWord - p < d => f[p] = TensUp(p)}
<1>4. \A p \in 1..LongWord : f[p] = TensStep(f, p)
  BY <1>2 DEF TensBy
<1>5. 0 \in S
  BY <1>0
<1>6. ASSUME NEW d \in Nat, d \in S PROVE d + 1 \in S
  <2> SUFFICES ASSUME NEW p \in 1..LongWord, LongWord - p < d + 1 PROVE f[p] = TensUp(p)
    OBVIOUS
  <2>1. p \in Nat \ {0}
    BY <1>0
  <2>2. ~ p > Top \div 10 => f[p * 10] = TensUp(p * 10)
    <3> SUFFICES ASSUME ~ p > Top \div 10 PROVE f[p * 10] = TensUp(p * 10)
      OBVIOUS
    <3>1. p * 10 \in 1..LongWord /\ p < p * 10
      BY <2>1, TensGoOn
    <3>2. LongWord - p * 10 < d
      BY <1>0, <2>1, <3>1
    <3> QED
      BY <1>6, <3>1, <3>2
  <2>3. f[p] = TensStep(f, p)
    BY <1>4
  <2> QED
    BY <2>1, <2>2, <2>3, TensGoOn DEF TensStep
<1>7. LongWord \in S
  <2> HIDE DEF S
  <2> QED
    BY <1>0, <1>5, <1>6, Inductive
<1>8. Powers = TensUp(1)
  <2>1. 1 \in 1..LongWord /\ LongWord - 1 < LongWord
    BY <1>0, TopIs
  <2> QED
    BY <1>3, <1>7, <2>1
<1> DEFINE h == TensOf(1)
<1>9. h = Length(Top, 10)
  <2>1. Top \div 1 = Top
    BY <1>0
  <2> QED
    BY <2>1 DEF TensOf
<1>10. /\ h \in Nat \ {0} /\ Len(TensUp(1)) = h
       /\ \A n \in 1..h : TensUp(1)[n] = 1 * Power(10, h - n)
  BY TensUpIs
<1>11. \A n \in 1..h : 1 * Power(10, h - n) = Power(10, h - n)
  <2> TAKE n \in 1..h
  <2>1. h - n \in Nat
    BY <1>10
  <2>2. Power(10, h - n) \in Nat
    BY <2>1, PowerGrows
  <2> QED
    BY <2>2
<1> QED
  BY <1>8, <1>9, <1>10, <1>11

LEMMA PartsOfRemainder ==
    ASSUME NEW a \in Nat, NEW p \in Nat \ {0}, NEW c \in Nat \ {0}
    PROVE  /\ (a % (c * p)) \div p = (a \div p) % c
           /\ (a % (c * p)) % p = a % p
           /\ a % (c * p) \in Nat
<1> DEFINE x == a \div p
           y == a % p
           q == x \div c
           d == x % c
<1>1. x \in Nat /\ y \in Nat /\ y < p /\ a = p * x + y
  BY QuotientFacts
<1> HIDE DEF x, y
<1>2. q \in Nat /\ d \in Nat /\ d < c /\ x = c * q + d
  BY <1>1, QuotientFacts
<1> HIDE DEF q, d
<1> DEFINE w == c * p
           z == p * d + y
<1>3. w \in Nat \ {0}
  <2>1. c >= 1 /\ p >= 1 /\ c * p >= p
    OBVIOUS
  <2> QED
    BY <2>1
<1>4. p * d \in Nat /\ z \in Nat /\ z < w
  <2>1. p * d <= p * (c - 1) /\ p * d \in Nat
    BY <1>2
  <2>2. p * (c - 1) = c * p - p
    OBVIOUS
  <2> QED
    BY <1>1, <2>1, <2>2
<1>5. a = w * q + z /\ w * q \in Nat
  <2>1. p * (c * q + d) = (c * p) * q + p * d
    BY <1>2
  <2>2. w * q \in Nat
    BY <1>2, <1>3
  <2> QED
    BY <1>1, <1>2, <2>1, <2>2
<1> HIDE DEF w
<1>6. a % w = z
  <2>1. w * q <= a /\ a < w * q + w
    BY <1>3, <1>4, <1>5
  <2>2. a % w = a - w * q
    BY <1>2, <1>3, <2>1, QuotientIs
  <2> QED
    BY <1>4, <1>5, <2>2
<1>7. z \div p = d /\ z % p = y
  <2>1. p * d <= z /\ z < p * d + p /\ z - p * d = y
    BY <1>1, <1>4
  <2> HIDE DEF z
  <2>2. z \div p = d /\ z % p = z - p * d
    BY <1>2, <1>4, <2>1, QuotientIs
  <2> QED
    BY <2>1, <2>2
<1> QED
  BY <1>4, <1>6, <1>7 DEF w, x, y, d

(* When t digits have been taken: the first t, and what is below them.     *)
FirstDigits(v, t) == [k \in 1..t |-> DigitAt(v, 10, Length(v, 10) - k)]
Written(v, t)       == [s |-> FirstDigits(v, t), rest |-> v % Power(10, Length(v, 10) - t)]

(* How many have been taken after n powers: none while the powers are      *)
(* longer than v, and no more than there is room for.                      *)
Longest == Length(Top, 10)
Taken(v, room, n) ==
    IF n <= Longest - Length(v, 10) THEN 0
    ELSE Smaller(n - (Longest - Length(v, 10)), room)

LEMMA FirstDigitsIs ==
    ASSUME NEW v \in Nat, NEW t \in Nat
    PROVE  /\ Len(FirstDigits(v, t)) = t
           /\ \A k \in 1..t : FirstDigits(v, t)[k] = DigitAt(v, 10, Length(v, 10) - k)
           /\ FirstDigits(v, t) = [k \in 1..t |-> FirstDigits(v, t)[k]]
<1> DEFINE D(k) == DigitAt(v, 10, Length(v, 10) - k)
           s == [k \in 1..t |-> D(k)]
<1> HIDE DEF D
<1>1. Len(s) = t /\ (\A k \in 1..t : s[k] = D(k)) /\ s = [k \in 1..t |-> s[k]]
  OBVIOUS
<1>2. FirstDigits(v, t) = s
  BY DEF FirstDigits, D
<1> QED
  BY <1>1, <1>2 DEF D

LEMMA LengthIsBounded ==
    ASSUME NEW v \in Nat, v <= Top
    PROVE  /\ Length(v, 10) \in Nat \ {0} /\ Longest \in Nat \ {0}
           /\ Length(v, 10) <= Longest
<1> DEFINE l == Length(v, 10)
<1>1. /\ l \in Nat \ {0} /\ (l = 1 \/ Power(10, l - 1) <= v)
      /\ Longest \in Nat \ {0} /\ Power(10, Longest) > Top
  BY TopIs, LengthIs DEF IsLength, Longest
<1> HIDE DEF l
<1>2. ASSUME l > Longest PROVE FALSE
  <2>1. l # 1 /\ l - 1 \in Nat /\ Longest <= l - 1
    BY <1>1, <1>2
  <2>2. /\ Power(10, Longest) <= Power(10, l - 1)
        /\ Power(10, Longest) \in Nat /\ Power(10, l - 1) \in Nat
    BY <1>1, <2>1, PowerRises, PowerGrows
  <2> QED
    BY <1>1, <2>1, <2>2, TopIs
<1> QED
  BY <1>1, <1>2 DEF l

LEMMA TakeStops ==
    ASSUME NEW v, NEW t, NEW power, NEW size, Len(FirstDigits(v, t)) = size - 1
    PROVE  TakeDigit(Written(v, t), power, size) = Written(v, t)
<1>1. Written(v, t).s = FirstDigits(v, t)
  BY DEF Written
<1> QED
  BY <1>1, Zenon DEF TakeDigit

LEMMA TakePasses ==
    ASSUME NEW v \in Nat, NEW n \in Nat, Length(v, 10) <= n, NEW size
    PROVE  TakeDigit(Written(v, 0), Power(10, n), size) = Written(v, 0)
<1> DEFINE l == Length(v, 10)
           w == v % Power(10, l)
<1>1. l \in Nat \ {0} /\ Power(10, l) > v /\ l - 0 = l
  BY LengthIs DEF IsLength
<1>2. /\ Power(10, l) \in Nat \ {0} /\ Power(10, n) \in Nat \ {0}
      /\ Power(10, l) <= Power(10, n)
  <2>1. Power(10, l) \in Nat /\ Power(10, l) > l /\ Power(10, n) \in Nat /\ Power(10, n) > n
    BY <1>1, PowerGrows
  <2>2. Power(10, l) <= Power(10, n)
    BY <1>1, PowerRises
  <2> QED
    BY <1>1, <2>1, <2>2
<1>3. w \in Nat /\ w < Power(10, n)
  <2>1. w \in Nat /\ w < Power(10, l)
    BY <1>2, QuotientFacts
  <2> QED
    BY <1>2, <2>1
<1>4. w \div Power(10, n) = 0
  <2>1. Power(10, n) * 0 = 0
    BY <1>2
  <2> HIDE DEF w
  <2> QED
    BY <1>2, <1>3, <2>1, QuotientIs
<1>5. FirstDigits(v, 0) = << >>
  <2>1. FirstDigits(v, 0) = [k \in 1..0 |-> FirstDigits(v, 0)[k]]
    BY FirstDigitsIs
  <2> QED
    BY <2>1
<1>6. Written(v, 0).s = << >> /\ Written(v, 0).rest = w
  BY <1>1, <1>5 DEF Written
<1> HIDE DEF w, l
<1> QED
  BY <1>4, <1>6, Zenon DEF TakeDigit

LEMMA TakeGoesOn ==
    ASSUME NEW v \in Nat \ {0}, NEW t \in Nat, t < Length(v, 10), NEW size \in Nat,
           t # size - 1
    PROVE  TakeDigit(Written(v, t), Power(10, Length(v, 10) - (t + 1)), size) = Written(v, t + 1)
<1> DEFINE l == Length(v, 10)
           p == Power(10, l - (t + 1))
           s == FirstDigits(v, t)
           w == v % Power(10, l - t)
           d == w \div p
           u == FirstDigits(v, t + 1)
<1>1. l \in Nat \ {0} /\ Power(10, l) > v /\ (l = 1 \/ Power(10, l - 1) <= v)
  BY LengthIs DEF IsLength
<1>2. p \in Nat \ {0} /\ Power(10, l - t) = 10 * p
  <2>1. l - (t + 1) \in Nat /\ (l - (t + 1)) + 1 = l - t
    BY <1>1
  <2>2. Power(10, l - (t + 1)) \in Nat /\ Power(10, l - (t + 1)) > l - (t + 1)
    BY <2>1, PowerGrows
  <2>3. Power(10, (l - (t + 1)) + 1) = 10 * Power(10, l - (t + 1))
    BY <2>1, PowerSteps
  <2> QED
    BY <2>1, <2>2, <2>3
<1>3. d = (v \div p) % 10 /\ w % p = v % p
  <2>0. v \in Nat /\ 10 \in Nat \ {0} /\ p \in Nat \ {0}
    BY <1>2
  <2>1. Power(10, l - t) = 10 * p
    BY <1>2
  <2> HIDE DEF p
  <2>2. (v % (10 * p)) \div p = (v \div p) % 10 /\ (v % (10 * p)) % p = v % p
    BY <2>0, PartsOfRemainder
  <2> QED
    BY <2>1, <2>2
<1>4. Digit(d) = DigitAt(v, 10, l - (t + 1))
  BY <1>3 DEF DigitAt
<1>5. /\ Len(s) = t /\ (\A k \in 1..t : s[k] = DigitAt(v, 10, l - k))
      /\ s = [k \in 1..t |-> s[k]]
  BY FirstDigitsIs
<1>6. /\ Len(u) = t + 1 /\ (\A k \in 1..(t + 1) : u[k] = DigitAt(v, 10, l - k))
      /\ u = [k \in 1..(t + 1) |-> u[k]]
  <2>1. t + 1 \in Nat
    OBVIOUS
  <2> QED
    BY <2>1, FirstDigitsIs
<1>7. t = 0 => d # 0
  <2> SUFFICES ASSUME t = 0 PROVE d # 0
    OBVIOUS
  <2>1. v < 10 * p /\ p <= v
    <3>1. l - t = l /\ l - (t + 1) = l - 1
      BY <1>1
    <3>2. l = 1 => p = 1
      BY <3>1, PowerSteps
    <3> QED
      BY <1>1, <1>2, <3>1, <3>2
  <2> HIDE DEF p
  <2>2. v \div p \in Nat /\ 1 <= v \div p /\ ~ 10 <= v \div p
    <3>1. p * 1 = p /\ p * 10 = 10 * p
      BY <1>2
    <3> QED
      BY <1>2, <2>1, <3>1, QuotientReaches, QuotientFacts
  <2> DEFINE x == v \div p
  <2> HIDE DEF x
  <2>3. x \in Nat /\ 1 <= x /\ x < 10 => x % 10 # 0
    OBVIOUS
  <2>4. x \in Nat /\ 1 <= x /\ x < 10
    BY <2>2 DEF x
  <2> QED
    BY <1>3, <2>3, <2>4 DEF x
<1>8. Written(v, t) = [s |-> s, rest |-> w] /\ Written(v, t + 1) = [s |-> u, rest |-> v % p]
  BY DEF Written
<1> HIDE DEF l, p, s, w, d, u
<1>9. ~ (Len(s) = size - 1 \/ (s = << >> /\ d = 0))
  <2>1. s = << >> => t = 0
    BY <1>5
  <2> QED
    BY <1>5, <1>7, <2>1
<1>10. Append(s, Digit(d)) = u
  <2> DEFINE x == DigitAt(v, 10, l - (t + 1))
             a == Append(s, x)
  <2> HIDE DEF x
  <2>1. /\ Len(a) = t + 1 /\ a = [k \in 1..(t + 1) |-> a[k]]
        /\ \A k \in 1..(t + 1) : a[k] = IF k = t + 1 THEN x ELSE s[k]
    <3>1. s \in Seq({s[k] : k \in 1..t})
      BY <1>5
    <3> QED
      BY <1>5, <3>1
  <2> HIDE DEF a
  <2>2. \A k \in 1..(t + 1) : a[k] = u[k]
    <3> TAKE k \in 1..(t + 1)
    <3>1. CASE k = t + 1
      BY <1>6, <2>1, <3>1 DEF x
    <3>2. CASE k # t + 1
      <4>1. k \in 1..t
        BY <3>2
      <4> QED
        BY <1>5, <1>6, <2>1, <3>2, <4>1
    <3> QED
      BY <3>1, <3>2
  <2>3. a = u
    BY <1>6, <2>1, <2>2
  <2> QED
    BY <1>4, <2>3 DEF a, x
<1>11. [s |-> s, rest |-> w].s = s /\ [s |-> s, rest |-> w].rest = w
  OBVIOUS
<1>12. d = w \div p
  BY DEF d
<1>13. p = Power(10, Length(v, 10) - (t + 1))
  BY DEF p, l
<1>14. TakeDigit([s |-> s, rest |-> w], p, size) = [s |-> Append(s, Digit(d)), rest |-> w % p]
  BY <1>9, <1>11, <1>12, Zenon DEF TakeDigit
<1> QED
  BY <1>3, <1>8, <1>10, <1>13, <1>14

LEMMA WrittenGoesOn ==
    ASSUME NEW v \in Nat \ {0}, v <= Top, NEW size \in Nat \ {0},
           NEW n \in Nat, n < Longest
    PROVE  Written(v, Taken(v, size - 1, n + 1))
               = TakeDigit(Written(v, Taken(v, size - 1, n)), Powers[n + 1], size)
<1> DEFINE l == Length(v, 10)
           e == Longest - l
           m == size - 1
           t == Taken(v, m, n)
           x == Taken(v, m, n + 1)
<1>1. l \in Nat \ {0} /\ Longest \in Nat \ {0} /\ e \in Nat /\ m \in Nat
  BY LengthIsBounded
<1>2. Powers[n + 1] = Power(10, Longest - (n + 1))
  <2>1. n + 1 \in 1..Longest
    BY <1>1
  <2> QED
    BY <2>1, PowersAre DEF Longest
<1>3. /\ t = IF n <= e THEN 0 ELSE IF n - e <= m THEN n - e ELSE m
      /\ x = IF n + 1 <= e THEN 0 ELSE IF (n + 1) - e <= m THEN (n + 1) - e ELSE m
  BY DEF Taken, Smaller
<1>4. t \in Nat
  BY <1>1, <1>3
<1>5. Len(FirstDigits(v, t)) = t
  BY <1>4, FirstDigitsIs
<1>6. e = Longest - l
  OBVIOUS
<1>7. m = size - 1
  OBVIOUS
<1> HIDE DEF l, e, m, t, x
<1>8. CASE t = m
  <2>1. x = t
    BY <1>1, <1>3, <1>8
  <2>2. TakeDigit(Written(v, t), Powers[n + 1], size) = Written(v, t)
    BY <1>5, <1>7, <1>8, TakeStops
  <2> QED
    BY <1>7, <2>1, <2>2 DEF t, x
<1>9. CASE t # m /\ n + 1 <= e
  <2>1. t = 0 /\ x = 0
    BY <1>1, <1>3, <1>9
  <2>2. Longest - (n + 1) \in Nat /\ l <= Longest - (n + 1)
    BY <1>1, <1>6, <1>9
  <2>3. TakeDigit(Written(v, 0), Power(10, Longest - (n + 1)), size) = Written(v, 0)
    BY <2>2, TakePasses DEF l
  <2> QED
    BY <1>2, <1>7, <2>1, <2>3 DEF t, x
<1>10. CASE t # m /\ ~ n + 1 <= e
  <2>1. t = n - e /\ x = t + 1
    BY <1>1, <1>3, <1>10
  <2>2. t < l /\ l - (t + 1) = Longest - (n + 1)
    BY <1>1, <1>6, <2>1
  <2>3. TakeDigit(Written(v, t), Power(10, l - (t + 1)), size) = Written(v, t + 1)
    BY <1>4, <1>7, <1>10, <2>2, TakeGoesOn DEF l
  <2> QED
    BY <1>2, <1>7, <2>1, <2>2, <2>3 DEF t, x
<1> QED
  BY <1>8, <1>9, <1>10

ForwardStep(f, v, size, n) ==
    IF n = 0 THEN [s |-> << >>, rest |-> v] ELSE TakeDigit(f[n - 1], Powers[n], size)
ForwardBy(f, v, size) == f = [n \in 0..Len(Powers) |-> ForwardStep(f, v, size, n)]

LEMMA WrittenBegins ==
    ASSUME NEW v \in Nat \ {0}, v <= Top, NEW room \in Nat
    PROVE  Written(v, Taken(v, room, 0)) = [s |-> << >>, rest |-> v]
<1> DEFINE l == Length(v, 10)
<1>1. l \in Nat \ {0} /\ Longest \in Nat /\ l <= Longest
  BY LengthIsBounded
<1>2. Taken(v, room, 0) = 0
  BY <1>1 DEF Taken
<1>3. Power(10, l) > v /\ Power(10, l) \in Nat
  BY <1>1, LengthIs, PowerGrows DEF IsLength
<1>4. v % Power(10, l - 0) = v
  <2>1. l - 0 = l
    BY <1>1
  <2> DEFINE p == Power(10, l)
  <2>2. p \in Nat \ {0} /\ v < p
    BY <1>3
  <2> HIDE DEF p
  <2>3. v % p = v
    <3>1. p * 0 = 0
      BY <2>2
    <3>2. 0 \in Nat /\ v \in Nat /\ p * 0 <= v /\ v < p * 0 + p
      BY <2>2, <3>1
    <3>3. v % p = v - p * 0
      BY <2>2, <3>2, QuotientIs
    <3> QED
      BY <3>1, <3>3
  <2> QED
    BY <2>1, <2>3 DEF p
<1>5. FirstDigits(v, 0) = << >>
  <2>1. FirstDigits(v, 0) = [k \in 1..0 |-> FirstDigits(v, 0)[k]]
    BY FirstDigitsIs
  <2> QED
    BY <2>1
<1> QED
  BY <1>2, <1>4, <1>5 DEF Written

(* The decimal loop of vga_ulltoa: the numeral or the beginning of it.     *)
LEMMA ForwardDigitsIs ==
    ASSUME NEW v \in Nat \ {0}, v <= Top, NEW size \in Nat \ {0}
    PROVE  ForwardDigits(v, size) = FirstDigits(v, Smaller(Length(v, 10), size - 1))
<1> DEFINE At(n) == Written(v, Taken(v, size - 1, n))
           g == [n \in 0..Longest |-> At(n)]
           f == CHOOSE f : ForwardBy(f, v, size)
<1>0. Len(Powers) = Longest /\ Longest \in Nat \ {0} /\ size - 1 \in Nat
  BY PowersAre, LengthIsBounded DEF Longest
<1>1. /\ At(0) = [s |-> << >>, rest |-> v]
      /\ \A n \in Nat : n < Longest => At(n + 1) = TakeDigit(At(n), Powers[n + 1], size)
  BY <1>0, WrittenBegins, WrittenGoesOn
<1> HIDE DEF At
<1>2. ForwardBy(g, v, size)
  <2>1. (\A n \in 0..Longest : g[n] = At(n)) /\ g = [n \in 0..Longest |-> g[n]]
    OBVIOUS
  <2> HIDE DEF g
  <2>2. ASSUME NEW n \in 0..Longest PROVE g[n] = ForwardStep(g, v, size, n)
    <3>1. CASE n = 0
      BY <1>1, <2>1, <3>1 DEF ForwardStep
    <3>2. CASE n # 0
      <4>1. n - 1 \in Nat /\ n - 1 < Longest /\ (n - 1) + 1 = n /\ n - 1 \in 0..Longest
        BY <1>0, <3>2
      <4>2. At((n - 1) + 1) = TakeDigit(At(n - 1), Powers[(n - 1) + 1], size)
        BY <1>1, <4>1
      <4>3. g[n] = TakeDigit(g[n - 1], Powers[n], size)
        BY <2>1, <4>1, <4>2
      <4> QED
        BY <3>2, <4>3, Zenon DEF ForwardStep
    <3> QED
      BY <3>1, <3>2
  <2> DEFINE w == [n \in 0..Longest |-> ForwardStep(g, v, size, n)]
  <2>3. (\A n \in 0..Longest : w[n] = ForwardStep(g, v, size, n)) /\ w = [n \in 0..Longest |-> w[n]]
    OBVIOUS
  <2> HIDE DEF w
  <2>4. \A n \in 0..Longest : g[n] = w[n]
    BY <2>2, <2>3
  <2>5. g = w
    BY <2>1, <2>3, <2>4
  <2> QED
    BY <1>0, <2>5 DEF ForwardBy, w
<1> HIDE DEF g
<1>3. ForwardBy(f, v, size)
  BY <1>2
<1>4. ForwardDigits(v, size) = f[Longest].s
  <2>1. ForwardDigits(v, size) = f[Len(Powers)].s
    BY Zenon DEF ForwardDigits, ForwardBy, ForwardStep
  <2> QED
    BY <1>0, <2>1
<1> HIDE DEF f
<1> DEFINE S == {n \in Nat : n <= Longest => f[n] = At(n)}
<1>5. \A n \in 0..Longest : f[n] = ForwardStep(f, v, size, n)
  <2>1. f = [n \in 0..Longest |-> ForwardStep(f, v, size, n)]
    BY <1>0, <1>3 DEF ForwardBy
  <2> QED
    BY <2>1
<1>6. 0 \in S
  <2>1. f[0] = ForwardStep(f, v, size, 0)
    BY <1>0, <1>5
  <2> QED
    BY <1>1, <2>1 DEF ForwardStep
<1>7. ASSUME NEW n \in Nat, n \in S PROVE n + 1 \in S
  <2> SUFFICES ASSUME n + 1 <= Longest PROVE f[n + 1] = At(n + 1)
    OBVIOUS
  <2>1. f[n] = At(n) /\ n + 1 \in 0..Longest /\ n + 1 # 0 /\ (n + 1) - 1 = n /\ n < Longest
    BY <1>0, <1>7
  <2>2. f[n + 1] = ForwardStep(f, v, size, n + 1)
    BY <1>5, <2>1
  <2>3. At(n + 1) = TakeDigit(At(n), Powers[n + 1], size)
    BY <1>1, <2>1
  <2> QED
    BY <2>1, <2>2, <2>3, Zenon DEF ForwardStep
<1>8. Longest \in S
  <2> HIDE DEF S
  <2> QED
    BY <1>0, <1>6, <1>7, Inductive
<1>9. f[Longest] = At(Longest)
  BY <1>0, <1>8
<1>10. Taken(v, size - 1, Longest) = Smaller(Length(v, 10), size - 1)
  <2>1. Length(v, 10) \in Nat \ {0} /\ Length(v, 10) <= Longest
    BY LengthIsBounded
  <2>2. Longest - (Longest - Length(v, 10)) = Length(v, 10)
    BY <1>0, <2>1
  <2> QED
    BY <1>0, <2>1, <2>2 DEF Taken
<1>11. At(Longest).s = FirstDigits(v, Smaller(Length(v, 10), size - 1))
  BY <1>10 DEF At, Written
<1> QED
  BY <1>4, <1>9, <1>11

----------------------------------------------------------------------------
(* The conversions *)

FirstOf(s, room) == IF Len(s) <= room THEN s ELSE SubSeq(s, 1, room)

IsText(s, size) == s \in Seq(0..127) /\ Len(s) <= (IF size = 0 THEN 0 ELSE size - 1)

LEMMA CharactersAreText == \A s : s \in Seq(48..102) => s \in Seq(0..127)
<1>1. \A d \in 48..102 : d \in 0..127
  OBVIOUS
<1> QED
  BY <1>1

LEMMA NothingIsText == \A size \in Nat : IsText(<< >>, size)
<1>1. << >> \in Seq(0..127) /\ Len(<< >>) = 0
  OBVIOUS
<1> QED
  BY <1>1 DEF IsText

LEMMA SingleIsText ==
    ASSUME NEW ch \in 0..127, NEW size \in Nat
    PROVE  IsText(IfRoom(ch, size), size)
<1>1. CASE size > 1
  <2>1. << ch >> \in Seq(0..127) /\ Len(<< ch >>) = 1
    OBVIOUS
  <2> QED
    BY <1>1, <2>1 DEF IsText, IfRoom
<1>2. CASE ~ size > 1
  <2>1. << >> \in Seq(0..127) /\ Len(<< >>) = 0
    OBVIOUS
  <2> QED
    BY <1>2, <2>1 DEF IsText, IfRoom
<1> QED
  BY <1>1, <1>2

LEMMA BackwardsIsText ==
    ASSUME NEW v \in Nat, NEW b \in Nat, b >= 2, b <= 16, NEW size \in Nat \ {0}
    PROVE  IsText(InOrder(DigitsBackwards(v, b, size - 1)), size)
<1> DEFINE s == InOrder(DigitsBackwards(v, b, size - 1))
<1>0. size - 1 \in Nat
  OBVIOUS
<1>1. s \in Seq(48..102) /\ Len(s) = Smaller(size - 1, Length(v, b)) /\ Length(v, b) \in Nat
  BY <1>0, DigitsInOrder, NumeralIs
<1> HIDE DEF s
<1>2. Len(s) <= size - 1
  BY <1>0, <1>1 DEF Smaller
<1>3. s \in Seq(0..127)
  BY <1>1, CharactersAreText
<1>4. IsText(s, size)
  BY <1>2, <1>3 DEF IsText
<1> QED
  BY <1>4 DEF s

(* vga_utoa keeps the last digits, as many as the buffer holds.            *)
LEMMA UtoaIsRight ==
    ASSUME NEW w \in Nat, NEW base \in {8, 10, 16}, NEW size \in Nat
    PROVE  /\ IsText(Utoa(w, base, size), size)
           /\ base # 8 /\ size # 0 => Utoa(w, base, size) = LastOf(Numeral(w, base), size - 1)
<1>1. CASE size = 0
  <2>1. Utoa(w, base, size) = << >>
    BY <1>1 DEF Utoa
  <2> QED
    BY <1>1, <2>1, NothingIsText
<1>2. CASE size # 0 /\ w # 0 /\ base = 8
  <2>1. Utoa(w, base, size) = IfRoom(Question, size)
    BY <1>2 DEF Utoa
  <2> QED
    BY <1>2, <2>1, SingleIsText DEF Question
<1>3. CASE size # 0 /\ ~ (w # 0 /\ base = 8)
  <2>1. Utoa(w, base, size) = InOrder(DigitsBackwards(w, base, size - 1))
    BY <1>3 DEF Utoa
  <2>2. base \in Nat /\ base >= 2 /\ base <= 16 /\ size - 1 \in Nat
    BY <1>3
  <2> QED
    BY <1>3, <2>1, <2>2, BackwardsIsText, DigitsInOrder
<1> QED
  BY <1>1, <1>2, <1>3

LEMMA FirstDigitsAreFirst ==
    ASSUME NEW v \in Nat, NEW room \in Nat
    PROVE  /\ FirstDigits(v, Smaller(Length(v, 10), room)) = FirstOf(Numeral(v, 10), room)
           /\ FirstOf(Numeral(v, 10), room) \in Seq(48..102)
           /\ Len(FirstOf(Numeral(v, 10), room)) <= room
<1> DEFINE l == Length(v, 10)
           N == Numeral(v, 10)
           m == Smaller(l, room)
           s == FirstDigits(v, m)
<1>1. /\ l \in Nat \ {0} /\ Len(N) = l
      /\ \A n \in 1..l : N[n] = DigitAt(v, 10, l - n)
      /\ N = [n \in 1..l |-> N[n]]
  BY NumeralIs
<1>2. N \in Seq(48..102)
  BY NumeralIsText
<1>3. m = (IF l <= room THEN l ELSE room) /\ m \in Nat
  BY <1>1 DEF Smaller
<1>4. /\ Len(s) = m /\ (\A k \in 1..m : s[k] = DigitAt(v, 10, l - k))
      /\ s = [k \in 1..m |-> s[k]]
  BY <1>3, FirstDigitsIs
<1> HIDE DEF l, N, m, s
<1>5. CASE l <= room
  <2>1. FirstOf(N, room) = N
    BY <1>1, <1>5 DEF FirstOf
  <2>2. \A k \in 1..l : s[k] = N[k]
    BY <1>1, <1>3, <1>4, <1>5
  <2>3. s = N
    BY <1>1, <1>3, <1>4, <1>5, <2>2
  <2> QED
    BY <1>1, <1>2, <1>5, <2>1, <2>3 DEF s, m, l, N
<1>6. CASE ~ l <= room
  <2> DEFINE t == SubSeq(N, 1, room)
  <2>1. FirstOf(N, room) = t
    BY <1>1, <1>6 DEF FirstOf
  <2>2. \A k \in 1..room : N[k] \in 48..102
    <3> TAKE k \in 1..room
    <3>1. k \in 1..Len(N)
      BY <1>1, <1>6
    <3>2. N \in [1..Len(N) -> 48..102]
      BY <1>2, LenProperties
    <3> QED
      BY <3>1, <3>2
  <2>3. /\ t \in Seq(48..102) /\ Len(t) = (IF 1 <= room THEN room - 1 + 1 ELSE 0)
        /\ \A k \in 1..(room - 1 + 1) : t[k] = N[1 + k - 1]
    BY <2>2, SubSeqProperties
  <2> HIDE DEF t
  <2>4. m = room /\ Len(t) = room
    BY <1>3, <1>6, <2>3
  <2>5. \A k \in 1..room : t[k] = s[k]
    <3> TAKE k \in 1..room
    <3>1. k \in 1..l /\ 1 + k - 1 = k /\ k \in 1..(room - 1 + 1)
      BY <1>1, <1>6
    <3> QED
      BY <1>1, <1>4, <2>3, <2>4, <3>1
  <2>6. s = t
    BY <1>4, <2>3, <2>4, <2>5
  <2> QED
    BY <2>1, <2>3, <2>4, <2>6 DEF s, m, l, N
<1> QED
  BY <1>1, <1>5, <1>6

LEMMA NumeralOfZero == Numeral(0, 10) = << Digit(0) >>
<1> DEFINE N == Numeral(0, 10)
<1>1. Length(0, 10) = 1
  BY LengthGrows
<1>2. N = [n \in 1..1 |-> DigitAt(0, 10, 1 - n)]
  <2> DEFINE l == Length(0, 10)
  <2>1. N = [n \in 1..l |-> DigitAt(0, 10, l - n)]
    <3>1. 0 \in Nat /\ 10 \in Nat /\ 10 >= 2
      OBVIOUS
    <3> QED
      BY <3>1, NumeralIs, Zenon
  <2>2. l = 1
    BY <1>1
  <2> HIDE DEF l, N
  <2> QED
    BY <2>1, <2>2
<1>3. N = [n \in 1..1 |-> N[n]] /\ N[1] = DigitAt(0, 10, 1 - 1)
  BY <1>2
<1>4. DigitAt(0, 10, 1 - 1) = Digit(0)
  <2>1. DigitAt(0, 10, 0) = Digit(0 % 10) /\ 0 % 10 = 0 /\ 1 - 1 = 0
    BY DigitsMove
  <2> QED
    BY <2>1
<1> HIDE DEF N
<1>5. N = << Digit(0) >>
  <2> DEFINE d == Digit(0)
  <2> HIDE DEF d
  <2>1. N = [n \in 1..1 |-> N[n]] /\ N[1] = d
    BY <1>3, <1>4 DEF d
  <2>2. N = << d >>
    BY <2>1
  <2> QED
    BY <2>2 DEF d
<1> QED
  BY <1>5 DEF N

(* vga_ulltoa keeps the last digits in base 16, the first ones in base 10. *)
LEMMA UlltoaIsRight ==
    ASSUME NEW v \in Nat, v <= Top, NEW base \in {8, 10, 16}, NEW size \in Nat
    PROVE  /\ IsText(Ulltoa(v, base, size), size)
           /\ base = 16 /\ size # 0 => Ulltoa(v, 16, size) = LastOf(Numeral(v, 16), size - 1)
           /\ base = 10 /\ size # 0 => Ulltoa(v, 10, size) = FirstOf(Numeral(v, 10), size - 1)
<1>1. CASE size = 0
  <2>1. Ulltoa(v, base, size) = << >>
    BY <1>1, Zenon DEF Ulltoa
  <2> QED
    BY <1>1, <2>1, NothingIsText
<1>2. CASE size # 0 /\ base = 8
  <2>1. Ulltoa(v, base, size) = IfRoom(Question, size)
    BY <1>2 DEF Ulltoa
  <2> QED
    BY <1>2, <2>1, SingleIsText DEF Question
<1>3. CASE size # 0 /\ base = 16
  <2>1. Ulltoa(v, 16, size) = InOrder(DigitsBackwards(v, 16, size - 1))
    BY <1>3 DEF Ulltoa
  <2>2. size - 1 \in Nat
    BY <1>3
  <2> QED
    BY <1>3, <2>1, <2>2, BackwardsIsText, DigitsInOrder
<1>4. CASE size # 0 /\ base = 10
  <2> DEFINE t == FirstOf(Numeral(v, 10), size - 1)
  <2>1. size - 1 \in Nat
    BY <1>4
  <2>2. t \in Seq(48..102) /\ Len(t) <= size - 1
    BY <2>1, FirstDigitsAreFirst
  <2>3. Ulltoa(v, 10, size) = t
    <3>1. CASE v = 0
      <4>1. Ulltoa(v, 10, size) = IfRoom(Digit(0), size)
        BY <1>4, <3>1 DEF Ulltoa
      <4>2. Numeral(v, 10) = << Digit(0) >> /\ Len(<< Digit(0) >>) = 1
        BY <3>1, NumeralOfZero
      <4>3. SubSeq(<< Digit(0) >>, 1, 0) = << >>
        BY SubSeqEmpty
      <4>4. t = IF 1 <= size - 1 THEN << Digit(0) >> ELSE SubSeq(<< Digit(0) >>, 1, size - 1)
        BY <4>2, Zenon DEF FirstOf
      <4>5. CASE size > 1
        <5>1. 1 <= size - 1
          BY <4>5
        <5> QED
          BY <4>1, <4>4, <4>5, <5>1, Zenon DEF IfRoom
      <4>6. CASE ~ size > 1
        <5>1. ~ 1 <= size - 1 /\ size - 1 = 0
          BY <1>4, <4>6
        <5> QED
          BY <4>1, <4>3, <4>4, <4>6, <5>1, Zenon DEF IfRoom
      <4> QED
        BY <4>5, <4>6
    <3>2. CASE v # 0
      <4>1. Ulltoa(v, 10, size) = ForwardDigits(v, size)
        BY <1>4, <3>2 DEF Ulltoa
      <4>2. ForwardDigits(v, size) = FirstDigits(v, Smaller(Length(v, 10), size - 1))
        BY <1>4, <3>2, ForwardDigitsIs
      <4> QED
        BY <2>1, <4>1, <4>2, FirstDigitsAreFirst
    <3> QED
      BY <3>1, <3>2
  <2> HIDE DEF t
  <2>4. IsText(t, size)
    BY <1>4, <2>2, CharactersAreText DEF IsText
  <2> QED
    BY <1>4, <2>3, <2>4 DEF t
<1> QED
  BY <1>1, <1>2, <1>3, <1>4


LEMMA LongerText ==
    ASSUME NEW s \in Seq(0..127), NEW c \in 0..127, NEW d \in 0..127
    PROVE  /\ Append(s, c) \in Seq(0..127) /\ Len(Append(s, c)) = Len(s) + 1
           /\ s \o << c >> = Append(s, c) /\ s \o << >> = s /\ << >> \o s = s
           /\ s \o << c, d >> \in Seq(0..127) /\ Len(s \o << c, d >>) = Len(s) + 2
           /\ << c >> \o s \in Seq(0..127) /\ Len(<< c >> \o s) = Len(s) + 1
<1>1. << c >> \in Seq(0..127) /\ Len(<< c >>) = 1 /\ << >> \in Seq(0..127)
  OBVIOUS
<1>2. << c, d >> \in Seq(0..127) /\ Len(<< c, d >>) = 2
  OBVIOUS
<1>3. Append(s, c) \in Seq(0..127) /\ Len(Append(s, c)) = Len(s) + 1 /\ s \o << c >> = Append(s, c)
  BY <1>1, AppendProperties, AppendIsConcat
<1>4. s \o << >> = s /\ << >> \o s = s
  BY ConcatEmptySeq
<1>5. s \o << c, d >> \in Seq(0..127) /\ Len(s \o << c, d >>) = Len(s) + 2
  BY <1>2, ConcatProperties
<1>6. << c >> \o s \in Seq(0..127) /\ Len(<< c >> \o s) = Len(s) + 1
  <2>1. << c >> \o s \in Seq(0..127) /\ Len(<< c >> \o s) = Len(<< c >>) + Len(s)
    BY <1>1, ConcatProperties
  <2>2. Len(s) \in Nat
    OBVIOUS
  <2> QED
    BY <1>1, <2>1, <2>2
<1> QED
  BY <1>3, <1>4, <1>5, <1>6

(* vga_itoa: the most negative int is negated as a word.                   *)
Negative(w, base) == base = 10 /\ w >= Word \div 2

LEMMA SignedParts ==
    ASSUME NEW w \in 0..(Word - 1)
    PROVE  /\ w \in Nat /\ Word - w \in Nat
           /\ w >= Word \div 2 => Negated(w) = Word - w
<1>1. Word \in Nat /\ Word >= 2
  BY FormatAssumption
<1>2. w \in Nat /\ Word - w \in Nat
  BY <1>1
<1>3. ASSUME w >= Word \div 2 PROVE Negated(w) = Word - w
  <2>1. w >= 1
    BY <1>1, <1>2, <1>3
  <2>2. Word - w \in 0..(Word - 1)
    BY <1>1, <1>2, <2>1
  <2> DEFINE m == Word - w
  <2>3. Negated(w) = m % Word
    BY DEF Negated
  <2> HIDE DEF m
  <2>4. m % Word = m
    BY <1>1, <2>2 DEF m
  <2> QED
    BY <2>3, <2>4 DEF m
<1> QED
  BY <1>2, <1>3

LEMMA LengthOfLast ==
    ASSUME NEW S, NEW s \in Seq(S), NEW room \in Nat
    PROVE  Len(LastOf(s, room)) = IF Len(s) <= room THEN Len(s) ELSE room
<1>1. CASE Len(s) <= room
  BY <1>1 DEF LastOf
<1>2. CASE ~ Len(s) <= room
  <2> DEFINE n == Len(s)
  <2>1. n \in Nat /\ n - room + 1 \in 1..(n + 1)
    BY <1>2
  <2>2. LastOf(s, room) = SubSeq(s, n - room + 1, n)
    BY <1>2 DEF LastOf
  <2>3. \A k \in (n - room + 1)..n : s[k] \in S
    <3> TAKE k \in (n - room + 1)..n
    <3>1. k \in 1..n
      BY <2>1
    <3> QED
      BY <3>1
  <2>4. Len(SubSeq(s, n - room + 1, n))
          = IF n - room + 1 <= n THEN n - (n - room + 1) + 1 ELSE 0
    BY <2>1, <2>3, SubSeqProperties
  <2> HIDE DEF n
  <2>5. Len(SubSeq(s, n - room + 1, n)) = room
    BY <2>1, <2>4
  <2> QED
    BY <1>2, <2>2, <2>5 DEF n
<1> QED
  BY <1>1, <1>2

LEMMA ItoaIsRight ==
    ASSUME NEW w \in 0..(Word - 1), NEW base \in {8, 10, 16}, NEW size \in Nat
    PROVE  /\ IsText(Itoa(w, base, size), size)
           /\ base # 8 /\ size # 0 =>
                LET digits == Numeral(IF Negative(w, base) THEN Word - w ELSE w, base)
                    sign   == IF Negative(w, base) /\ Len(digits) + 1 < size
                              THEN << Minus >> ELSE << >>
                IN  Itoa(w, base, size) = sign \o LastOf(digits, size - 1)
<1> DEFINE v == IF Negative(w, base) THEN Word - w ELSE w
           s == Utoa(v, base, size)
           N == Numeral(v, base)
<1>1. v \in Nat
  BY SignedParts
<1>2. Itoa(w, base, size)
        = IF Negative(w, base) /\ SignFits(s, size) THEN << Minus >> \o s ELSE s
  <2>1. CASE Negative(w, base)
    BY <2>1, SignedParts DEF Itoa, Negative, IsNegative
  <2>2. CASE ~ Negative(w, base)
    BY <2>2 DEF Itoa, Negative, IsNegative
  <2> QED
    BY <2>1, <2>2
<1> HIDE DEF v
<1>3. IsText(s, size) /\ (base # 8 /\ size # 0 => s = LastOf(N, size - 1))
  BY <1>1, UtoaIsRight
<1>4. base \in Nat /\ base >= 2 /\ base <= 16
  OBVIOUS
<1>5. N \in Seq(48..102)
  BY <1>1, <1>4, NumeralIsText
<1> HIDE DEF s, N
<1>6. s \in Seq(0..127) /\ Len(s) \in Nat /\ Minus \in 0..127
  BY <1>3 DEF IsText, Minus
<1>7. << Minus >> \o s \in Seq(0..127) /\ Len(<< Minus >> \o s) = Len(s) + 1 /\ << >> \o s = s
  BY <1>6, LongerText
<1>8. IsText(Itoa(w, base, size), size)
  <2>1. CASE Negative(w, base) /\ SignFits(s, size)
    <3>1. size # 0 /\ Len(s) + 1 <= size - 1
      BY <1>6, <2>1 DEF SignFits
    <3> QED
      BY <1>2, <1>7, <2>1, <3>1 DEF IsText
  <2>2. CASE ~ (Negative(w, base) /\ SignFits(s, size))
    BY <1>2, <1>3, <2>2
  <2> QED
    BY <2>1, <2>2
<1>9. ASSUME base # 8, size # 0
      PROVE  Itoa(w, base, size)
               = (IF Negative(w, base) /\ Len(N) + 1 < size THEN << Minus >> ELSE << >>)
                   \o LastOf(N, size - 1)
  <2>1. s = LastOf(N, size - 1) /\ size - 1 \in Nat /\ Len(N) \in Nat
    BY <1>3, <1>5, <1>9
  <2>2. Len(s) = IF Len(N) <= size - 1 THEN Len(N) ELSE size - 1
    BY <1>5, <2>1, LengthOfLast
  <2>3. SignFits(s, size) <=> Len(N) + 1 < size
    BY <2>1, <2>2 DEF SignFits
  <2>4. CASE Negative(w, base) /\ Len(N) + 1 < size
    BY <1>2, <2>1, <2>3, <2>4
  <2>5. CASE ~ (Negative(w, base) /\ Len(N) + 1 < size)
    BY <1>2, <1>7, <2>1, <2>3, <2>5
  <2> QED
    BY <2>4, <2>5
<1> QED
  BY <1>8, <1>9 DEF N, v

(* vga_human_size *)
LEMMA ScaleIs ==
    ASSUME NEW v \in Nat
    PROVE  /\ Scale(v) \in 0..4
           /\ Scale(v) < 4 => v < Power(Kilo, Scale(v) + 1)
           /\ Scale(v) > 0 => v >= Power(Kilo, Scale(v))
<1> DEFINE reached == {n \in 1..4 : v >= Power(Kilo, n)}
<1>1. \A n \in Nat : Power(Kilo, n) \in Nat
  BY FormatAssumption, PowerGrows
<1>2. CASE reached = {}
  <2>1. Scale(v) = 0
    BY <1>2 DEF Scale
  <2>2. ~ v >= Power(Kilo, 1) /\ Power(Kilo, 1) \in Nat
    BY <1>1, <1>2
  <2>3. v < Power(Kilo, 0 + 1)
    BY <2>2
  <2> QED
    BY <2>1, <2>3
<1>3. CASE reached # {}
  <2>1. reached \in SUBSET Nat /\ \A n \in reached : n <= 4
    OBVIOUS
  <2>2. IsFiniteSet(reached)
    BY <2>1, FS_BoundedSetOfNaturals
  <2>3. \E n \in reached : \A k \in reached : k <= n
    BY <1>3, <2>1, <2>2, GreatestOfFinite
  <2>4. Scale(v) = CHOOSE n \in reached : \A k \in reached : k <= n
    BY <1>3 DEF Scale
  <2> DEFINE n == Scale(v)
  <2>5. n \in reached /\ \A k \in reached : k <= n
    BY <2>3, <2>4
  <2> HIDE DEF n
  <2>6. n \in 1..4 /\ v >= Power(Kilo, n)
    BY <2>5
  <2>7. ASSUME n < 4 PROVE v < Power(Kilo, n + 1)
    <3>1. n + 1 \in 1..4 /\ n + 1 \notin reached
      BY <2>5, <2>6, <2>7
    <3>2. ~ v >= Power(Kilo, n + 1) /\ Power(Kilo, n + 1) \in Nat
      BY <1>1, <3>1
    <3> QED
      BY <3>2
  <2> QED
    BY <2>6, <2>7 DEF n
<1> QED
  BY <1>2, <1>3

(* The tenths of the unit, computed from the remainder, are those of ten   *)
(* times the number.                                                       *)
LEMMA TenthsAre ==
    ASSUME NEW v \in Nat, NEW unit \in Nat \ {0}
    PROVE  /\ TenthsOfUnit(v % unit, unit) \in 0..9 /\ v \div unit \in Nat
           /\ ((10 * v) \div unit) \div 10 = v \div unit
           /\ ((10 * v) \div unit) % 10 = TenthsOfUnit(v % unit, unit)
<1> DEFINE q == v \div unit
           r == v % unit
           x == r * 10
           f == x \div unit
           y == x % unit
           t == 10 * v
<1>1. q \in Nat /\ r \in Nat /\ r < unit /\ v = unit * q + r
  BY QuotientFacts
<1> HIDE DEF q, r
<1>2. x \in Nat
  BY <1>1
<1>3. f \in Nat /\ y \in Nat /\ y < unit /\ x = unit * f + y
  BY <1>2, QuotientFacts
<1>4. t \in Nat
  OBVIOUS
<1> HIDE DEF f, y
<1>5. f <= 9
  <2>1. unit * f < unit * 10
    BY <1>1, <1>3
  <2>2. ASSUME f >= 10 PROVE FALSE
    <3>1. unit * f >= unit * 10
      BY <1>3, <2>2
    <3> QED
      BY <1>3, <2>1, <3>1
  <2> QED
    BY <1>3, <2>2
<1>6. t = unit * (10 * q + f) + y
  <2>1. t = 10 * (unit * q) + x
    BY <1>1
  <2>2. unit * (10 * q + f) = 10 * (unit * q) + unit * f
    BY <1>1, <1>3
  <2>3. unit * q \in Nat /\ unit * f \in Nat
    BY <1>1, <1>3
  <2> DEFINE a == unit * q
             b == unit * f
  <2> HIDE DEF a, b
  <2>4. x = b + y /\ a \in Nat /\ b \in Nat /\ t = 10 * a + x /\ unit * (10 * q + f) = 10 * a + b
    BY <1>3, <2>1, <2>2, <2>3 DEF a, b
  <2> HIDE DEF t, x
  <2> QED
    BY <1>2, <1>3, <2>4
<1> HIDE DEF t, x
<1>7. t \div unit = 10 * q + f
  <2> DEFINE g == 10 * q + f
  <2>1. g \in Nat /\ t = unit * g + y
    BY <1>1, <1>3, <1>6
  <2> HIDE DEF g
  <2>2. unit * g \in Nat
    BY <2>1
  <2> DEFINE h == unit * g
  <2> HIDE DEF h
  <2>3. h <= t /\ t < h + unit
    <3>1. h \in Nat /\ t = h + y
      BY <2>1, <2>2 DEF h
    <3> QED
      BY <1>3, <3>1
  <2>4. t \div unit = g
    BY <1>4, <2>1, <2>3, QuotientIs DEF h
  <2> QED
    BY <2>4 DEF g
<1>8. (10 * q + f) \div 10 = q /\ (10 * q + f) % 10 = f
  BY <1>1, <1>3, <1>5
<1> QED
  <2>1. f \in 0..9
    BY <1>3, <1>5
  <2>2. TenthsOfUnit(r, unit) = f
    BY Zenon DEF TenthsOfUnit, f, x
  <2>3. (t \div unit) \div 10 = q /\ (t \div unit) % 10 = f
    BY <1>7, <1>8, Zenon
  <2>4. TenthsOfUnit(r, unit) \in 0..9 /\ (t \div unit) % 10 = TenthsOfUnit(r, unit)
    BY <2>1, <2>2, <2>3, Zenon
  <2> QED
    BY <1>1, <2>3, <2>4, Zenon DEF t, q, r

LEMMA WholeIs ==
    ASSUME NEW q \in Nat, q <= Top
    PROVE  Ulltoa(q, 10, 32) = Numeral(q, 10) /\ Numeral(q, 10) \in Seq(48..102)
<1>1. Longest \in Nat /\ Longest < 32 /\ Length(q, 10) <= Longest /\ Length(q, 10) \in Nat
  BY LengthIsBounded, PowersAre, NumberAssumption DEF Longest
<1>2. Len(Numeral(q, 10)) <= 31
  BY <1>1, NumeralIs
<1>3. Ulltoa(q, 10, 32) = FirstOf(Numeral(q, 10), 32 - 1)
  BY UlltoaIsRight
<1>4. Numeral(q, 10) \in Seq(48..102)
  BY NumeralIsText
<1> DEFINE N == Numeral(q, 10)
<1> HIDE DEF N
<1>5. FirstOf(N, 32 - 1) = N
  BY <1>2 DEF FirstOf, N
<1> QED
  BY <1>3, <1>4, <1>5 DEF N

LEMMA HumanSizeIsRight ==
    ASSUME NEW v \in Nat, v <= Top, NEW size \in Nat \ {0}
    PROVE  /\ IsText(HumanSize(v, size), size)
           /\ \E n \in 0..4 :
                LET tenths == (10 * v) \div Power(Kilo, n)
                    whole  == Numeral(tenths \div 10, 10)
                IN  /\ n < 4 => v < Power(Kilo, n + 1)
                    /\ n > 0 => v >= Power(Kilo, n)
                    /\ Len(whole) + 4 <= size =>
                           HumanSize(v, size)
                             = whole \o (IF tenths % 10 = 0 THEN << >>
                                         ELSE << Point, Digit(tenths % 10) >>)
                                     \o << Units[n + 1] >>
<1> DEFINE n     == Scale(v)
           unit  == Power(Kilo, n)
           whole == Numeral(v \div unit, 10)
           frac  == TenthsOfUnit(v % unit, unit)
           tail  == << Point, Digit(frac) >>
           s     == IF frac > 0 /\ Len(whole) + 3 < size THEN whole \o tail ELSE whole
           U     == Units[n + 1]
<1>1. n \in 0..4 /\ (n < 4 => v < Power(Kilo, n + 1)) /\ (n > 0 => v >= unit)
  BY ScaleIs
<1> HIDE DEF n
<1>2. unit \in Nat \ {0}
  <2>1. n \in Nat /\ Kilo \in Nat /\ Kilo >= 2
    BY <1>1, FormatAssumption
  <2> QED
    BY <2>1, PowerGrows
<1> HIDE DEF unit
<1>3. /\ frac \in 0..9 /\ v \div unit \in Nat
      /\ ((10 * v) \div unit) \div 10 = v \div unit
      /\ ((10 * v) \div unit) % 10 = frac
  BY <1>2, TenthsAre
<1>4. v \div unit <= Top
  <2>1. v = unit * (v \div unit) + (v % unit) /\ v % unit \in Nat
    BY <1>2, QuotientFacts
  <2> DEFINE q == v \div unit
             r == v % unit
  <2> HIDE DEF q, r
  <2>2. q \in Nat /\ r \in Nat /\ v = unit * q + r
    BY <1>3, <2>1 DEF q, r
  <2>3. q <= unit * q /\ unit * q \in Nat
    BY <1>2, <2>2
  <2> DEFINE a == unit * q
  <2> HIDE DEF a
  <2>4. q <= v
    <3>1. q <= a /\ a \in Nat /\ v = a + r
      BY <2>2, <2>3 DEF a
    <3> QED
      BY <2>2, <3>1
  <2> QED
    BY <2>2, <2>4, TopIs DEF q
<1>5. Ulltoa(v \div unit, 10, 32) = whole /\ whole \in Seq(0..127)
  BY <1>3, <1>4, WholeIs, CharactersAreText
<1>6. HumanSize(v, size)
        = CASE Len(whole) >= size  -> << >>
            [] Len(s) + 2 <= size  -> Append(s, U)
            [] OTHER               -> s
  BY <1>5, Zenon DEF HumanSize, n, unit
<1> HIDE DEF whole, frac
<1>7. Point \in 0..127 /\ Digit(frac) \in 0..127 /\ U \in 0..127
  <2>1. Digit(frac) \in 0..127
    BY <1>3 DEF Digit
  <2>2. U \in {66, 75, 77, 71, 84}
    BY <1>1 DEF Units
  <2> QED
    BY <2>1, <2>2 DEF Point
<1> DEFINE d == Digit(frac)
<1> HIDE DEF d, U
<1>8. /\ whole \o << Point, d >> \in Seq(0..127)
      /\ Len(whole \o << Point, d >>) = Len(whole) + 2
      /\ whole \o << >> = whole /\ Len(whole) \in Nat
  <2>1. Point \in 0..127 /\ d \in 0..127
    BY <1>7, Zenon DEF d
  <2>2. /\ whole \o << Point, d >> \in Seq(0..127)
        /\ Len(whole \o << Point, d >>) = Len(whole) + 2 /\ whole \o << >> = whole
    BY <1>5, <2>1, LongerText, Zenon
  <2>3. Len(whole) \in Nat
    BY <1>5
  <2> QED
    BY <2>2, <2>3
<1>9. /\ s \in Seq(0..127) /\ Len(s) \in Nat
      /\ Len(s) = Len(whole) \/ (frac > 0 /\ Len(whole) + 3 < size /\ Len(s) = Len(whole) + 2)
  <2>1. tail = << Point, d >>
    BY Zenon DEF d
  <2> HIDE DEF tail
  <2>2. /\ whole \o tail \in Seq(0..127) /\ Len(whole \o tail) = Len(whole) + 2
        /\ whole \in Seq(0..127) /\ Len(whole) \in Nat
    BY <1>5, <1>8, <2>1, Zenon
  <2>3. CASE frac > 0 /\ Len(whole) + 3 < size
    <3>1. s = whole \o tail
      BY <2>3
    <3> HIDE DEF s
    <3> QED
      BY <2>2, <2>3, <3>1
  <2>4. CASE ~ (frac > 0 /\ Len(whole) + 3 < size)
    <3>1. s = whole
      BY <2>4
    <3> HIDE DEF s
    <3> QED
      BY <2>2, <3>1
  <2> QED
    BY <2>3, <2>4
<1> HIDE DEF s
<1>10. Append(s, U) \in Seq(0..127) /\ Len(Append(s, U)) = Len(s) + 1 /\ s \o << U >> = Append(s, U)
  BY <1>7, <1>9, LongerText
<1>11. IsText(HumanSize(v, size), size)
  <2>1. CASE Len(whole) >= size
    <3>1. ~ Len(s) + 2 <= size
      BY <1>8, <1>9, <2>1
    <3>2. HumanSize(v, size) = << >>
      BY <1>6, <2>1, <3>1
    <3> QED
      BY <3>2, NothingIsText
  <2>2. CASE ~ Len(whole) >= size /\ Len(s) + 2 <= size
    <3>1. HumanSize(v, size) = Append(s, U)
      BY <1>6, <2>2
    <3> QED
      BY <1>9, <1>10, <2>2, <3>1 DEF IsText
  <2>3. CASE ~ Len(whole) >= size /\ ~ Len(s) + 2 <= size
    <3>1. HumanSize(v, size) = s
      BY <1>6, <2>3
    <3>2. Len(s) <= size - 1
      BY <1>8, <1>9, <2>3
    <3> QED
      BY <1>9, <3>1, <3>2 DEF IsText
  <2> QED
    BY <2>1, <2>2, <2>3
<1>12. ASSUME Len(whole) + 4 <= size
       PROVE  HumanSize(v, size)
                = whole \o (IF frac = 0 THEN << >> ELSE << Point, Digit(frac) >>) \o << U >>
  <2>1. ~ Len(whole) >= size /\ Len(s) + 2 <= size
    BY <1>8, <1>9, <1>12
  <2>2. HumanSize(v, size) = s \o << U >>
    BY <1>6, <1>10, <2>1
  <2>3. s = whole \o (IF frac = 0 THEN << >> ELSE << Point, Digit(frac) >>)
    <3>1. CASE frac = 0
      <4>1. s = whole
        BY <3>1 DEF s
      <4> QED
        BY <1>8, <3>1, <4>1
    <3>2. CASE frac # 0
      <4>1. frac > 0 /\ Len(whole) + 3 < size
        BY <1>3, <1>8, <1>12, <3>2
      <4> QED
        BY <3>2, <4>1 DEF s
    <3> QED
      BY <3>1, <3>2
  <2> QED
    BY <2>2, <2>3
<1> DEFINE tenths == (10 * v) \div unit
<1>13. tenths \div 10 = v \div unit /\ tenths % 10 = frac
  BY <1>3
<1> HIDE DEF tenths
<1>14. /\ n < 4 => v < Power(Kilo, n + 1)
       /\ n > 0 => v >= Power(Kilo, n)
       /\ Len(Numeral(tenths \div 10, 10)) + 4 <= size =>
              HumanSize(v, size)
                = Numeral(tenths \div 10, 10) \o (IF tenths % 10 = 0 THEN << >>
                                                  ELSE << Point, Digit(tenths % 10) >>)
                                              \o << Units[n + 1] >>
  BY <1>1, <1>12, <1>13, Zenon DEF whole, U, unit
<1> QED
  BY <1>1, <1>11, <1>14, Zenon DEF tenths, unit

(* What the properties of the conversions say of one call and its answer.  *)
IsNumber(c) == c.fn \in {"utoa", "itoa", "ulltoa"}

Minused(c) == c.fn = "itoa" /\ c.base = 10 /\ c.v >= Word \div 2
DigitsOf(c) == Numeral(IF Minused(c) THEN Word - c.v ELSE c.v, c.base)
SignOf(c) == IF Minused(c) /\ Len(DigitsOf(c)) + 1 < c.size THEN << Minus >> ELSE << >>
KeptOf(c) ==
    IF c.fn = "ulltoa" /\ c.base = 10 THEN FirstOf(DigitsOf(c), c.size - 1)
    ELSE LastOf(DigitsOf(c), c.size - 1)

NumberIsRight(c, o) ==
    IsNumber(c) /\ c.base # 8 /\ c.size > 0 => o = SignOf(c) \o KeptOf(c)

SizeIsRight(c, o) ==
    c.fn = "human_size" =>
        \E n \in 0..4 :
            LET tenths == (10 * c.v) \div Power(Kilo, n)
                whole  == Numeral(tenths \div 10, 10)
            IN  /\ n < 4 => c.v < Power(Kilo, n + 1)
                /\ n > 0 => c.v >= Power(Kilo, n)
                /\ Len(whole) + 4 <= c.size =>
                       o = whole \o (IF tenths % 10 = 0 THEN << >>
                                     ELSE << Point, Digit(tenths % 10) >>)
                                 \o << Units[n + 1] >>

ConversionIsRight(c, o) ==
    /\ NumberIsRight(c, o) /\ SizeIsRight(c, o)
    /\ IsNumber(c) \/ c.fn = "human_size" => IsText(o, c.size)

LEMMA KeptDigits ==
    ASSUME NEW digits, NEW room, NEW first \in BOOLEAN
    PROVE  (IF Len(digits) <= room THEN digits
            ELSE IF first THEN SubSeq(digits, 1, room)
            ELSE SubSeq(digits, Len(digits) - room + 1, Len(digits)))
             = IF first THEN FirstOf(digits, room) ELSE LastOf(digits, room)
<1>1. CASE Len(digits) <= room
  BY <1>1, Zenon DEF FirstOf, LastOf
<1>2. CASE ~ Len(digits) <= room
  BY <1>2, Zenon DEF FirstOf, LastOf
<1> QED
  BY <1>1, <1>2

NumberIsWritten(c, o) ==
    (c.fn \in {"utoa", "itoa", "ulltoa"} /\ c.base # 8 /\ c.size > 0) =>
        LET negative == c.fn = "itoa" /\ c.base = 10 /\ c.v >= Word \div 2
            digits   == Numeral(IF negative THEN Word - c.v ELSE c.v, c.base)
            sign     == IF negative /\ Len(digits) + 1 < c.size THEN << Minus >> ELSE << >>
            room     == c.size - 1
            kept     == IF Len(digits) <= room THEN digits
                        ELSE IF c.fn = "ulltoa" /\ c.base = 10
                        THEN SubSeq(digits, 1, room)
                        ELSE SubSeq(digits, Len(digits) - room + 1, Len(digits))
        IN  o = sign \o kept

LEMMA NumberIsRightIsWritten ==
    \A c, o : NumberIsWritten(c, o) <=> NumberIsRight(c, o)
<1> TAKE c, o
<1> DEFINE digits == DigitsOf(c)
           room   == c.size - 1
           first  == c.fn = "ulltoa" /\ c.base = 10
           kept   == IF Len(digits) <= room THEN digits
                     ELSE IF first THEN SubSeq(digits, 1, room)
                     ELSE SubSeq(digits, Len(digits) - room + 1, Len(digits))
<1>1. NumberIsWritten(c, o)
        <=> (IsNumber(c) /\ c.base # 8 /\ c.size > 0 => o = SignOf(c) \o kept)
  BY Zenon DEF NumberIsWritten, IsNumber, SignOf, DigitsOf, Minused
<1>2. kept = KeptOf(c)
  BY KeptDigits, Zenon DEF KeptOf
<1> QED
  BY <1>1, <1>2, Zenon DEF NumberIsRight

LEMMA OtherConversions ==
    \A c, o : ~ IsNumber(c) /\ c.fn # "human_size" => ConversionIsRight(c, o)
BY Zenon DEF ConversionIsRight, NumberIsRight, SizeIsRight

LEMMA EmptySign ==
    ASSUME NEW size \in Nat, NEW s, IsText(s, size)
    PROVE  << >> \o s = s
BY ConcatEmptySeq DEF IsText

LEMMA NumberCalls ==
    ASSUME NEW size \in Nat, NEW base \in {8, 10, 16}
    PROVE  /\ \A w \in 0..(Word - 1) :
                 /\ ConversionIsRight([fn |-> "utoa", v |-> w, base |-> base, size |-> size],
                                      Utoa(w, base, size))
                 /\ ConversionIsRight([fn |-> "itoa", v |-> w, base |-> base, size |-> size],
                                      Itoa(w, base, size))
           /\ \A v \in Nat : v <= Top =>
                 ConversionIsRight([fn |-> "ulltoa", v |-> v, base |-> base, size |-> size],
                                   Ulltoa(v, base, size))
<1>1. ASSUME NEW w \in 0..(Word - 1)
      PROVE  ConversionIsRight([fn |-> "utoa", v |-> w, base |-> base, size |-> size],
                               Utoa(w, base, size))
  <2> DEFINE c == [fn |-> "utoa", v |-> w, base |-> base, size |-> size]
             o == Utoa(w, base, size)
  <2>0. w \in Nat
    BY SignedParts
  <2>1. c.fn = "utoa" /\ c.v = w /\ c.base = base /\ c.size = size
    OBVIOUS
  <2> HIDE DEF c
  <2>2. IsText(o, size) /\ (base # 8 /\ size # 0 => o = LastOf(Numeral(w, base), size - 1))
    BY <2>0, UtoaIsRight
  <2>3. << >> \o o = o
    BY <2>2, EmptySign
  <2> HIDE DEF o
  <2>4. ~ Minused(c) /\ c.fn # "ulltoa" /\ c.fn # "human_size"
    BY <2>1 DEF Minused
  <2>5. DigitsOf(c) = Numeral(w, base)
    BY <2>1, <2>4, Zenon DEF DigitsOf
  <2>6. SignOf(c) = << >> /\ KeptOf(c) = LastOf(Numeral(w, base), size - 1)
    BY <2>1, <2>4, <2>5, Zenon DEF SignOf, KeptOf
  <2>7. NumberIsRight(c, o)
    <3>1. SUFFICES ASSUME base # 8, size > 0 PROVE o = SignOf(c) \o KeptOf(c)
      BY <2>1, Zenon DEF NumberIsRight
    <3>2. size # 0
      BY <3>1
    <3> QED
      BY <2>2, <2>3, <2>6, <3>1, <3>2, Zenon
  <2> QED
    BY <2>1, <2>2, <2>4, <2>7, Zenon DEF ConversionIsRight, SizeIsRight, c, o
<1>2. ASSUME NEW w \in 0..(Word - 1)
      PROVE  ConversionIsRight([fn |-> "itoa", v |-> w, base |-> base, size |-> size],
                               Itoa(w, base, size))
  <2> DEFINE c == [fn |-> "itoa", v |-> w, base |-> base, size |-> size]
             o == Itoa(w, base, size)
             digits == Numeral(IF Negative(w, base) THEN Word - w ELSE w, base)
             sign   == IF Negative(w, base) /\ Len(digits) + 1 < size THEN << Minus >> ELSE << >>
  <2>1. c.fn = "itoa" /\ c.v = w /\ c.base = base /\ c.size = size
    OBVIOUS
  <2> HIDE DEF c
  <2>2. IsText(o, size) /\ (base # 8 /\ size # 0 => o = sign \o LastOf(digits, size - 1))
    BY ItoaIsRight
  <2> HIDE DEF o
  <2>4. (Minused(c) <=> Negative(w, base)) /\ c.fn # "ulltoa" /\ c.fn # "human_size"
    BY <2>1 DEF Minused, Negative
  <2>5. DigitsOf(c) = digits
    BY <2>1, <2>4, Zenon DEF DigitsOf
  <2> HIDE DEF digits
  <2>6. SignOf(c) = sign /\ KeptOf(c) = LastOf(digits, size - 1)
    BY <2>1, <2>4, <2>5, Zenon DEF SignOf, KeptOf
  <2> HIDE DEF sign
  <2>7. NumberIsRight(c, o)
    <3>1. SUFFICES ASSUME base # 8, size > 0 PROVE o = SignOf(c) \o KeptOf(c)
      BY <2>1, Zenon DEF NumberIsRight
    <3>2. size # 0
      BY <3>1
    <3> QED
      BY <2>2, <2>6, <3>1, <3>2, Zenon
  <2> QED
    BY <2>1, <2>2, <2>4, <2>7, Zenon DEF ConversionIsRight, SizeIsRight, c, o
<1>3. ASSUME NEW v \in Nat, v <= Top
      PROVE  ConversionIsRight([fn |-> "ulltoa", v |-> v, base |-> base, size |-> size],
                               Ulltoa(v, base, size))
  <2> DEFINE c == [fn |-> "ulltoa", v |-> v, base |-> base, size |-> size]
             o == Ulltoa(v, base, size)
             kept == IF base = 10 THEN FirstOf(Numeral(v, base), size - 1)
                     ELSE LastOf(Numeral(v, base), size - 1)
  <2>1. c.fn = "ulltoa" /\ c.v = v /\ c.base = base /\ c.size = size
    OBVIOUS
  <2> HIDE DEF c
  <2>2. IsText(o, size) /\ (base # 8 /\ size # 0 => o = kept)
    <3>1. CASE base = 8
      BY <1>3, <3>1, UlltoaIsRight
    <3>2. CASE base = 10
      BY <1>3, <3>2, UlltoaIsRight
    <3>3. CASE base = 16
      BY <1>3, <3>3, UlltoaIsRight
    <3> QED
      BY <3>1, <3>2, <3>3
  <2>3. << >> \o o = o
    BY <2>2, EmptySign
  <2> HIDE DEF o
  <2>4. ~ Minused(c) /\ c.fn # "human_size"
    BY <2>1 DEF Minused
  <2>5. DigitsOf(c) = Numeral(v, base)
    BY <2>1, <2>4, Zenon DEF DigitsOf
  <2>6. SignOf(c) = << >> /\ KeptOf(c) = kept
    BY <2>1, <2>4, <2>5, Zenon DEF SignOf, KeptOf
  <2> HIDE DEF kept
  <2>7. NumberIsRight(c, o)
    <3>1. SUFFICES ASSUME base # 8, size > 0 PROVE o = SignOf(c) \o KeptOf(c)
      BY <2>1, Zenon DEF NumberIsRight
    <3>2. size # 0
      BY <3>1
    <3> QED
      BY <2>2, <2>3, <2>6, <3>1, <3>2, Zenon
  <2> QED
    BY <2>1, <2>2, <2>4, <2>7, Zenon DEF ConversionIsRight, SizeIsRight, c, o
<1> QED
  BY <1>1, <1>2, <1>3

LEMMA SizeCalls ==
    ASSUME NEW v \in Nat, v <= Top, NEW size \in Nat \ {0}
    PROVE  ConversionIsRight([fn |-> "human_size", v |-> v, size |-> size], HumanSize(v, size))
<1> DEFINE c == [fn |-> "human_size", v |-> v, size |-> size]
           o == HumanSize(v, size)
<1>1. c.fn = "human_size" /\ c.v = v /\ c.size = size
  OBVIOUS
<1> HIDE DEF c
<1>2. ~ IsNumber(c)
  BY <1>1 DEF IsNumber
<1>3. IsText(o, size)
  BY HumanSizeIsRight
<1>4. SizeIsRight(c, o)
  BY <1>1, HumanSizeIsRight, Zenon DEF SizeIsRight
<1> QED
  BY <1>1, <1>2, <1>3, <1>4, Zenon DEF ConversionIsRight, NumberIsRight, c, o

LEMMA EveryConversionIsRight == Next => ConversionIsRight(call', out')
<1> SUFFICES ASSUME Next PROVE ConversionIsRight(call', out')
  OBVIOUS
<1>1. CASE Convert
  <2>1. PICK size \in Sizes, base \in {8, 10, 16} :
          \/ \E w \in 0..(Word - 1) :
                 \/ Answer([fn |-> "utoa", v |-> w, base |-> base, size |-> size],
                           Utoa(w, base, size))
                 \/ Answer([fn |-> "itoa", v |-> w, base |-> base, size |-> size],
                           Itoa(w, base, size))
          \/ \E v \in Longs :
                 Answer([fn |-> "ulltoa", v |-> v, base |-> base, size |-> size],
                        Ulltoa(v, base, size))
    BY <1>1, Zenon DEF Convert
  <2>2. size \in Nat
    BY NumberAssumption
  <2>3. ASSUME NEW w \in 0..(Word - 1),
               \/ Answer([fn |-> "utoa", v |-> w, base |-> base, size |-> size],
                         Utoa(w, base, size))
               \/ Answer([fn |-> "itoa", v |-> w, base |-> base, size |-> size],
                         Itoa(w, base, size))
        PROVE  ConversionIsRight(call', out')
    <3>1. /\ ConversionIsRight([fn |-> "utoa", v |-> w, base |-> base, size |-> size],
                               Utoa(w, base, size))
          /\ ConversionIsRight([fn |-> "itoa", v |-> w, base |-> base, size |-> size],
                               Itoa(w, base, size))
      BY <2>2, NumberCalls
    <3> QED
      BY <2>3, <3>1, Zenon DEF Answer
  <2>4. ASSUME NEW v \in Longs,
               Answer([fn |-> "ulltoa", v |-> v, base |-> base, size |-> size],
                      Ulltoa(v, base, size))
        PROVE  ConversionIsRight(call', out')
    <3>1. v \in Nat /\ v <= Top
      BY NumberAssumption, TopIs DEF Top
    <3>2. ConversionIsRight([fn |-> "ulltoa", v |-> v, base |-> base, size |-> size],
                            Ulltoa(v, base, size))
      BY <2>2, <3>1, NumberCalls
    <3> QED
      BY <2>4, <3>2, Zenon DEF Answer
  <2> QED
    BY <2>1, <2>3, <2>4
<1>2. CASE ConvertSize
  <2>1. PICK v \in Longs, size \in Sizes \ {0} :
          Answer([fn |-> "human_size", v |-> v, size |-> size], HumanSize(v, size))
    BY <1>2, Zenon DEF ConvertSize
  <2>2. v \in Nat /\ v <= Top /\ size \in Nat \ {0}
    BY NumberAssumption, TopIs DEF Top
  <2>3. ConversionIsRight([fn |-> "human_size", v |-> v, size |-> size], HumanSize(v, size))
    BY <2>2, SizeCalls
  <2> QED
    BY <2>1, <2>3, Zenon DEF Answer
<1>3. CASE Return \/ CallPrintf \/ CallPrintfUnfinished \/ VgaTestPrintf
             \/ Copy \/ CopyString \/ CompareStrings \/ Divide \/ DrawNumbers
  <2>1. call'.fn \in {"none", "printf", "memmove", "memcpy", "memset", "strcpy", "strncpy",
                      "strcmp", "divmod", "rand"}
    <3>1. ASSUME CallPrintf \/ CallPrintfUnfinished \/ VgaTestPrintf PROVE call'.fn = "printf"
      <4>1. \E all, end : PrintfOf(all, end)
        BY <3>1, Zenon DEF CallPrintf, CallPrintfUnfinished, VgaTestPrintf
      <4>2. \E all : call' = [fn |-> "printf", all |-> all]
        BY <4>1, Zenon DEF PrintfOf, Answer
      <4> QED
        BY <4>2
    <3>2. CASE Copy
      BY <3>2 DEF Copy, Answer
    <3>3. CASE CopyString
      BY <3>3 DEF CopyString, Answer
    <3>4. CASE CompareStrings
      BY <3>4 DEF CompareStrings, Answer
    <3>5. CASE Divide
      BY <3>5 DEF Divide, Answer
    <3>6. CASE DrawNumbers
      BY <3>6 DEF DrawNumbers, Answer
    <3>7. CASE Return
      BY <3>7 DEF Return, Nothing
    <3> QED
      BY <1>3, <3>1, <3>2, <3>3, <3>4, <3>5, <3>6, <3>7
  <2>2. ~ IsNumber(call') /\ call'.fn # "human_size"
    BY <2>1 DEF IsNumber
  <2> QED
    BY <2>2, OtherConversions
<1> QED
  BY <1>1, <1>2, <1>3 DEF Next

(* For every word, every buffer and every long word: the conversions write *)
(* the numeral, or the part of it that fits, vga_human_size the largest    *)
(* unit with its tenths rounded down, and none of them passes the end of   *)
(* its buffer.                                                             *)
THEOREM ConversionsStayRight == Spec => []ConversionsAreRight
<1>1. ConversionsAreRight <=> ConversionIsRight(call, out)
  <2>1. NumbersAreWritten <=> NumberIsWritten(call, out)
    BY Zenon DEF NumbersAreWritten, NumberIsWritten
  <2>2. SizesAreRoundedDown <=> SizeIsRight(call, out)
    BY Zenon DEF SizesAreRoundedDown, SizeIsRight
  <2>3. (call.fn \in {"utoa", "itoa", "ulltoa", "human_size"} =>
             out \in Seq(0..127) /\ Len(out) <= (IF call.size = 0 THEN 0 ELSE call.size - 1))
          <=> (IsNumber(call) \/ call.fn = "human_size" => IsText(out, call.size))
    <3>1. call.fn \in {"utoa", "itoa", "ulltoa", "human_size"}
            <=> IsNumber(call) \/ call.fn = "human_size"
      BY DEF IsNumber
    <3> QED
      BY <3>1, Zenon DEF IsText
  <2> QED
    BY <2>1, <2>2, <2>3, NumberIsRightIsWritten, Zenon DEF ConversionsAreRight, ConversionIsRight
<1>2. ConversionsAreRight' <=> ConversionIsRight(call', out')
  <2>1. NumbersAreWritten' <=> NumberIsWritten(call', out')
    BY Zenon DEF NumbersAreWritten, NumberIsWritten
  <2>2. SizesAreRoundedDown' <=> SizeIsRight(call', out')
    BY Zenon DEF SizesAreRoundedDown, SizeIsRight
  <2>3. (call'.fn \in {"utoa", "itoa", "ulltoa", "human_size"} =>
             out' \in Seq(0..127) /\ Len(out') <= (IF call'.size = 0 THEN 0 ELSE call'.size - 1))
          <=> (IsNumber(call') \/ call'.fn = "human_size" => IsText(out', call'.size))
    <3>1. call'.fn \in {"utoa", "itoa", "ulltoa", "human_size"}
            <=> IsNumber(call') \/ call'.fn = "human_size"
      BY DEF IsNumber
    <3> QED
      BY <3>1, Zenon DEF IsText
  <2> QED
    BY <2>1, <2>2, <2>3, NumberIsRightIsWritten, Zenon DEF ConversionsAreRight, ConversionIsRight
<1>3. Init => ConversionsAreRight
  <2> SUFFICES ASSUME Init PROVE ConversionIsRight(call, out)
    BY <1>1
  <2>1. ~ IsNumber(call) /\ call.fn # "human_size"
    BY DEF Init, Nothing, IsNumber
  <2> QED
    BY <2>1, OtherConversions
<1>4. ConversionsAreRight /\ [Next]_vars => ConversionsAreRight'
  <2>1. ASSUME ConversionsAreRight, UNCHANGED vars PROVE ConversionsAreRight'
    <3>1. call' = call /\ out' = out /\ ConversionIsRight(call, out)
      BY <1>1, <2>1 DEF vars
    <3> QED
      BY <1>2, <3>1
  <2> QED
    BY <1>2, <2>1, EveryConversionIsRight
<1> QED
  BY <1>3, <1>4, PTL DEF Spec
=============================================================================
