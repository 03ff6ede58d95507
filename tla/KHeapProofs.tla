---------------------------- MODULE KHeapProofs ----------------------------
(***************************************************************************)
(* Safety of the kernel heap for every heap size, tag size, page size and  *)
(* request, and for every capacity of the index: even when the index is    *)
(* full and holes drop out of it, blocks never overlap.                    *)
(*                                                                         *)
(* The argument follows the code's own way of working: MakeBlock fills a   *)
(* gap of the heap from its lower end.  TilesExcept(m, lo, hi, end) says   *)
(* that the blocks tile the heap but for the gap from lo to hi, whose tags *)
(* are ignored.  Every operation opens a gap (LEMMA OpenGap) and fills it  *)
(* with one, two or three blocks (LEMMA Carve).                            *)
(*                                                                         *)
(* From HeapInv follow the types and the refinement of HeapSpec: that the  *)
(* block handed out is nobody else's, from the tiling and from the index   *)
(* listing holes only.  What the heap does with an index that is large     *)
(* enough comes last: no hole is lost (RoomInv), so no assertion fails,    *)
(* alloc grows the heap twice at most for a request, the hole it takes is  *)
(* the smallest, and the walk of kheap_validate_print finds nothing wrong. *)
(***************************************************************************)
EXTENDS KHeapValidate, FiniteSetTheorems, TLAPS

----------------------------------------------------------------------------
(* The ordered array: what its operations do to its items and their order, *)
(* for every array, capacity and key                                       *)

(* Every non-empty set of naturals has a least element.  Initial segments  *)
(* of the naturals are finite sets, and strict inclusion is well founded   *)
(* on those.                                                               *)
LEMMA LeastNatural ==
    ASSUME NEW T \in SUBSET Nat, T # {}
    PROVE  \E x \in T : \A y \in T : x <= y
<1> DEFINE Below(n) == 0..(n - 1)
           Segments == {Below(n) : n \in T}
<1>1. Segments \in SUBSET FiniteSubsetsOf(Nat) /\ Segments # {}
  <2>1. \A n \in T : Below(n) \in SUBSET Nat
    OBVIOUS
  <2>2. \A n \in T : IsFiniteSet(Below(n))
    BY FS_Interval
  <2> QED
    BY <2>1, <2>2 DEF FiniteSubsetsOf
<1>2. PICK s \in Segments : \A t \in Segments : <<t, s>> \notin StrictSubsetOrdering(Nat)
  BY <1>1, FS_StrictSubsetOrderingWellFounded, WFMin
<1>3. PICK x \in T : s = Below(x)
  OBVIOUS
<1>4. ASSUME NEW y \in T, y < x PROVE FALSE
  <2>1. y \in Below(x) /\ y \notin Below(y)
    BY <1>4
  <2>2. <<Below(y), Below(x)>> \in StrictSubsetOrdering(Nat)
    BY <1>4, <2>1 DEF StrictSubsetOrdering
  <2> QED
    BY <2>2, <1>2, <1>3
<1> QED
  BY <1>4

(* A search that may stop at the end of the array stops at a first         *)
(* position: the loops of insert, remove_element and find_element.         *)
LEMMA SearchStops ==
    ASSUME NEW n \in Nat, NEW Stop \in SUBSET (1..n)
    PROVE  \E p \in 1..(n + 1) : /\ \A i \in 1..(p - 1) : i \notin Stop
                                 /\ p = n + 1 \/ p \in Stop
<1> DEFINE T == Stop \cup {n + 1}
<1>1. PICK p \in T : \A q \in T : p <= q
  BY LeastNatural
<1> QED
  BY <1>1

LEMMA InsertPositionExists ==
    ASSUME NEW S, NEW array \in Seq(S), NEW key, NEW item
    PROVE  /\ InsertPosition(array, key, item) \in 1..(Len(array) + 1)
           /\ IsInsertPosition(array, key, item, InsertPosition(array, key, item))
<1> DEFINE Stop == {i \in 1..Len(array) : ~ NotAfter(key, array[i], item)}
<1>1. \E p \in 1..(Len(array) + 1) : /\ \A i \in 1..(p - 1) : i \notin Stop
                                     /\ p = Len(array) + 1 \/ p \in Stop
  <2>1. Stop \in SUBSET (1..Len(array)) /\ Len(array) \in Nat
    OBVIOUS
  <2> HIDE DEF Stop
  <2> QED
    BY <2>1, SearchStops
<1>2. \E p \in 1..(Len(array) + 1) : IsInsertPosition(array, key, item, p)
  BY <1>1 DEF IsInsertPosition
<1> QED
  BY <1>2 DEF InsertPosition

LEMMA FindElementStops ==
    ASSUME NEW S, NEW array \in Seq(S), NEW item
    PROVE  LET p == FindElement(array, item)
           IN  /\ p \in 1..(Len(array) + 1)
               /\ \A i \in 1..(p - 1) : array[i] # item
               /\ p = Len(array) + 1 \/ array[p] = item
<1> DEFINE Stop == {i \in 1..Len(array) : array[i] = item}
           StopsAt(p) == /\ \A i \in 1..(p - 1) : array[i] # item
                         /\ p = Len(array) + 1 \/ array[p] = item
<1>1. \E p \in 1..(Len(array) + 1) : /\ \A i \in 1..(p - 1) : i \notin Stop
                                     /\ p = Len(array) + 1 \/ p \in Stop
  <2>1. Stop \in SUBSET (1..Len(array)) /\ Len(array) \in Nat
    OBVIOUS
  <2> HIDE DEF Stop
  <2> QED
    BY <2>1, SearchStops
<1>2. \E p \in 1..(Len(array) + 1) : StopsAt(p)
  BY <1>1
<1>3. FindElement(array, item) = CHOOSE p \in 1..(Len(array) + 1) : StopsAt(p)
  BY DEF FindElement
<1> QED
  BY <1>2, <1>3

(* Shifting the tail to the right and storing an item at p. *)
LEMMA ShiftRightItems ==
    ASSUME NEW S, NEW array \in Seq(S), NEW item \in S, NEW p \in 1..(Len(array) + 1)
    PROVE  /\ ShiftRight(array, p, item) \in Seq(S)
           /\ Len(ShiftRight(array, p, item)) = Len(array) + 1
           /\ Items(ShiftRight(array, p, item)) = Items(array) \cup {item}
<1> DEFINE new == ShiftRight(array, p, item)
<1>1. new \in Seq(S) /\ Len(new) = Len(array) + 1
  BY DEF ShiftRight
<1>2. \A i \in 1..Len(new) :
         new[i] = IF i < p THEN array[i] ELSE IF i = p THEN item ELSE array[i - 1]
  BY <1>1 DEF ShiftRight
<1>3. Items(new) \subseteq Items(array) \cup {item}
  <2> SUFFICES ASSUME NEW i \in 1..Len(new) PROVE new[i] \in Items(array) \cup {item}
    BY DEF Items
  <2>1. i < p => i \in 1..Len(array)
    BY <1>1
  <2>2. i > p => i - 1 \in 1..Len(array)
    BY <1>1
  <2> HIDE DEF new
  <2> QED
    BY <1>2, <2>1, <2>2 DEF Items
<1>4. item \in Items(new)
  BY <1>1, <1>2 DEF Items
<1>5. ASSUME NEW i \in 1..Len(array) PROVE array[i] \in Items(new)
  <2>1. CASE i < p
    <3>1. i \in 1..Len(new) /\ new[i] = array[i]
      BY <1>1, <1>2, <2>1
    <3> QED
      BY <3>1 DEF Items
  <2>2. CASE i >= p
    <3>1. i + 1 \in 1..Len(new) /\ new[i + 1] = array[i]
      BY <1>1, <1>2, <2>2
    <3> QED
      BY <3>1 DEF Items
  <2> QED
    BY <2>1, <2>2
<1> QED
  BY <1>1, <1>3, <1>4, <1>5 DEF Items

(* Inserting keeps the items, adds the new one unless the array is full,   *)
(* and never exceeds the capacity.                                         *)
THEOREM InsertItems ==
    ASSUME NEW S, NEW array \in Seq(S), NEW item \in S, NEW key,
           NEW capacity \in Nat, Len(array) <= capacity
    PROVE  LET new == Insert(array, capacity, key, item)
           IN  /\ new \in Seq(S)
               /\ Len(new) <= capacity /\ Len(new) <= Len(array) + 1
               /\ Items(array) \subseteq Items(new)
               /\ Items(new) \subseteq Items(array) \cup {item}
               /\ Len(array) < capacity => item \in Items(new)
<1> DEFINE p == InsertPosition(array, key, item)
<1>1. p \in 1..(Len(array) + 1)
  BY InsertPositionExists
<1>2. /\ ShiftRight(array, p, item) \in Seq(S)
      /\ Len(ShiftRight(array, p, item)) = Len(array) + 1
      /\ Items(ShiftRight(array, p, item)) = Items(array) \cup {item}
  BY <1>1, ShiftRightItems
<1>3. Len(array) \in Nat
  OBVIOUS
<1> QED
  BY <1>2, <1>3 DEF Insert

(* Inserting an item that is not there creates no duplicate. *)
THEOREM InsertKeepsDistinct ==
    ASSUME NEW S, NEW array \in Seq(S), NEW item \in S, NEW key,
           NEW capacity \in Nat,
           HasNoDuplicate(array), item \notin Items(array)
    PROVE  HasNoDuplicate(Insert(array, capacity, key, item))
<1> DEFINE p == InsertPosition(array, key, item)
           new == ShiftRight(array, p, item)
<1>1. p \in 1..(Len(array) + 1)
  BY InsertPositionExists
<1>2. Len(new) = Len(array) + 1
  BY <1>1, ShiftRightItems
<1>3. \A i \in 1..(Len(array) + 1) :
         new[i] = IF i < p THEN array[i] ELSE IF i = p THEN item ELSE array[i - 1]
  BY DEF ShiftRight
<1>4. \A i \in 1..Len(array) : array[i] # item
  BY DEF Items
<1>5. HasNoDuplicate(new)
  <2>1. \A i, j \in 1..Len(array) : i # j => array[i] # array[j]
    BY DEF HasNoDuplicate
  <2> HIDE DEF p, new
  <2> SUFFICES ASSUME NEW i \in 1..(Len(array) + 1), NEW j \in 1..(Len(array) + 1), i < j
               PROVE  new[i] # new[j]
    BY <1>2 DEF HasNoDuplicate
  <2>2. CASE j < p
    BY <2>2, <1>1, <1>3, <2>1
  <2>3. CASE j = p
    BY <2>3, <1>1, <1>3, <1>4
  <2>4. CASE j > p /\ i < p
    BY <2>4, <1>1, <1>3, <2>1
  <2>5. CASE j > p /\ i = p
    BY <2>5, <1>1, <1>3, <1>4
  <2>6. CASE j > p /\ i > p
    BY <2>6, <1>1, <1>3, <2>1
  <2> QED
    BY <1>1, <2>2, <2>3, <2>4, <2>5, <2>6
<1> QED
  BY <1>5 DEF Insert

(* Inserting keeps the order of the keys. *)
THEOREM InsertKeepsOrder ==
    ASSUME NEW S, NEW array \in Seq(S), NEW item \in S, NEW key,
           NEW capacity \in Nat,
           \A x \in Items(array) \cup {item} : key[x] \in Int,
           IsOrdered(array, key)
    PROVE  IsOrdered(Insert(array, capacity, key, item), key)
<1> DEFINE p == InsertPosition(array, key, item)
           new == ShiftRight(array, p, item)
<1>1. p \in 1..(Len(array) + 1) /\ IsInsertPosition(array, key, item, p)
  BY InsertPositionExists
<1>2. Len(new) = Len(array) + 1
  BY <1>1, ShiftRightItems
<1>3. \A i \in 1..(Len(array) + 1) :
         new[i] = IF i < p THEN array[i] ELSE IF i = p THEN item ELSE array[i - 1]
  BY DEF ShiftRight
<1>4. \A i \in 1..Len(array) : key[array[i]] \in Int
  BY DEF Items
<1>5. \A i \in 1..(p - 1) : key[array[i]] <= key[item]
  BY <1>1 DEF IsInsertPosition, NotAfter
<1>6. \A i \in p..Len(array) : key[item] <= key[array[i]]
  BY <1>1, <1>4 DEF IsInsertPosition, NotAfter, IsOrdered
<1>7. \A i, j \in 1..Len(array) : i < j => key[array[i]] <= key[array[j]]
  BY DEF IsOrdered, NotAfter
<1>8. IsOrdered(new, key)
  <2> HIDE DEF p, new
  <2> SUFFICES ASSUME NEW i \in 1..(Len(array) + 1), NEW j \in 1..(Len(array) + 1), i < j
               PROVE  key[new[i]] <= key[new[j]]
    BY <1>2 DEF IsOrdered, NotAfter
  <2>1. CASE j < p
    BY <2>1, <1>1, <1>3, <1>7
  <2>2. CASE j = p
    BY <2>2, <1>1, <1>3, <1>5
  <2>3. CASE j > p /\ i < p
    BY <2>3, <1>1, <1>3, <1>7
  <2>4. CASE j > p /\ i = p
    BY <2>4, <1>1, <1>3, <1>6
  <2>5. CASE j > p /\ i > p
    BY <2>5, <1>1, <1>3, <1>7
  <2> QED
    BY <1>1, <2>1, <2>2, <2>3, <2>4, <2>5
<1> QED
  BY <1>8 DEF Insert

(* Removing the item at p. *)
THEOREM RemoveAtPositionItems ==
    ASSUME NEW S, NEW array \in Seq(S), NEW p \in 1..Len(array), HasNoDuplicate(array)
    PROVE  LET new == RemoveAtPosition(array, p)
           IN  /\ new \in Seq(S)
               /\ Len(new) = Len(array) - 1
               /\ Items(new) = Items(array) \ {array[p]}
               /\ HasNoDuplicate(new)
               /\ \A key : IsOrdered(array, key) => IsOrdered(new, key)
<1> DEFINE new == RemoveAtPosition(array, p)
<1>1. new \in Seq(S) /\ Len(new) = Len(array) - 1
  BY DEF RemoveAtPosition
<1>2. \A i \in 1..(Len(array) - 1) : new[i] = IF i < p THEN array[i] ELSE array[i + 1]
  BY DEF RemoveAtPosition
<1> HIDE DEF new
<1>3. Items(new) \subseteq Items(array) \ {array[p]}
  BY <1>1, <1>2 DEF Items, HasNoDuplicate
<1>4. ASSUME NEW i \in 1..Len(array), i # p PROVE array[i] \in Items(new)
  <2>1. CASE i < p
    <3>1. i \in 1..Len(new) /\ new[i] = array[i]
      BY <1>1, <1>2, <2>1
    <3> QED
      BY <3>1 DEF Items
  <2>2. CASE i > p
    <3>1. i - 1 \in 1..Len(new) /\ new[i - 1] = array[i]
      BY <1>1, <1>2, <2>2
    <3> QED
      BY <3>1 DEF Items
  <2> QED
    BY <1>4, <2>1, <2>2
<1>5. Items(array) \ {array[p]} \subseteq Items(new)
  BY <1>4 DEF Items
<1>6. HasNoDuplicate(new)
  BY <1>1, <1>2 DEF HasNoDuplicate
<1>7. ASSUME NEW key, IsOrdered(array, key) PROVE IsOrdered(new, key)
  BY SMTT(30), <1>1, <1>2, <1>7 DEF IsOrdered, NotAfter
<1> QED
  BY <1>1, <1>3, <1>5, <1>6, <1>7 DEF new

(* Removing an item, there or not. *)
THEOREM RemoveElementItems ==
    ASSUME NEW S, NEW array \in Seq(S), NEW item, HasNoDuplicate(array)
    PROVE  LET new == RemoveElement(array, item)
           IN  /\ new \in Seq(S)
               /\ Len(new) <= Len(array)
               /\ item \in Items(array) => Len(new) < Len(array)
               /\ Items(new) = Items(array) \ {item}
               /\ HasNoDuplicate(new)
               /\ \A key : IsOrdered(array, key) => IsOrdered(new, key)
<1> DEFINE p == FindElement(array, item)
<1>1. /\ p \in 1..(Len(array) + 1)
      /\ \A i \in 1..(p - 1) : array[i] # item
      /\ p = Len(array) + 1 \/ array[p] = item
  BY FindElementStops
<1>2. CASE p = Len(array) + 1
  <2>1. item \notin Items(array)
    BY <1>1, <1>2 DEF Items
  <2>2. RemoveElement(array, item) = array
    BY <1>2 DEF RemoveElement, RemoveAtPosition
  <2> QED
    BY <2>1, <2>2
<1>3. CASE p \in 1..Len(array)
  <2>1. array[p] = item
    BY <1>1, <1>3
  <2>2. RemoveElement(array, item) = RemoveAtPosition(array, p)
    BY DEF RemoveElement
  <2> HIDE DEF p
  <2> QED
    BY <1>3, <2>1, <2>2, RemoveAtPositionItems
<1> QED
  BY <1>1, <1>2, <1>3

----------------------------------------------------------------------------
(* The heap *)

(* What the proofs assume of the instance: no sum of an address and a      *)
(* request wraps around, and RAM beyond the heap holds no stale tags.      *)
RequestsFit ==
    /\ \A n \in Requests : MaxAddress + 2 * PageSize + n + META < WordSize
    /\ StaleMemory = FALSE

Live(m, lo, hi) == {a \in DOMAIN m.hdr : a < lo \/ hi <= a}

BlockType == [size : Nat \ {0}, is_hole : {NOT_HOLE, IS_HOLE}]

WellTyped(m, lo, hi) ==
    /\ m = [hdr |-> m.hdr, ftr |-> m.ftr]
    /\ DOMAIN m.hdr \subseteq Int /\ DOMAIN m.ftr \subseteq Int
    /\ \A a \in Live(m, lo, hi) : m.hdr[a] \in BlockType

TilesExcept(m, lo, hi, end) ==
    /\ WellTyped(m, lo, hi)
    /\ \A a \in Live(m, lo, hi) :
         /\ HeapStart <= a
         /\ After(m.hdr, a) <= end
         /\ After(m.hdr, a) <= lo \/ hi <= a
         /\ After(m.hdr, a) - FooterSize \in DOMAIN m.ftr
         /\ m.ftr[After(m.hdr, a) - FooterSize] = a
    /\ \A a, b \in Live(m, lo, hi) : a < b => After(m.hdr, a) <= b
    /\ \A x \in HeapStart..(end - 1) :
         \/ lo <= x /\ x < hi
         \/ \E a \in Live(m, lo, hi) : a <= x /\ x < After(m.hdr, a)
    /\ \A f \in DOMAIN m.ftr :
         \/ lo <= f /\ f < hi
         \/ \E a \in Live(m, lo, hi) : f = After(m.hdr, a) - FooterSize

(* new is m with one more block, at the lower end of the gap *)
Carved(m, new, lo, nlo, hi, end, block) ==
    /\ TilesExcept(new, nlo, hi, end)
    /\ Live(new, nlo, hi) = Live(m, lo, hi) \cup {lo}
    /\ new.hdr[lo] = block
    /\ \A a \in Live(m, lo, hi) : a # lo /\ new.hdr[a] = m.hdr[a]

USE DEF META

(* Writing a block into a gap, from the gap's lower end, shrinks the gap.  *)
LEMMA Carve ==
    ASSUME NEW m, NEW lo \in Int, NEW hi \in Int, NEW end \in Int,
           TilesExcept(m, lo, hi, end), HeapStart <= lo, hi <= end,
           NEW sz \in Nat \ {0}, NEW nlo \in Int, nlo = lo + sz + META, nlo <= hi,
           NEW hole \in {NOT_HOLE, IS_HOLE}
    PROVE  Carved(m, MakeBlock(m, lo, sz, hole), lo, nlo, hi, end,
                  [size |-> sz, is_hole |-> hole])
<1> DEFINE new == MakeBlock(m, lo, sz, hole)
           span == lo..(nlo - 1)
<1> USE TagAssumption, LayoutAssumption
<1>0. nlo \in Int /\ HeaderSize \in Nat /\ FooterSize \in Nat /\ lo < nlo /\ nlo <= hi
  OBVIOUS
<1>1. /\ DOMAIN m.hdr \subseteq Int /\ DOMAIN m.ftr \subseteq Int
      /\ \A a \in Live(m, lo, hi) : m.hdr[a] \in BlockType
  BY DEF TilesExcept, WellTyped
<1>2. /\ new = [hdr |-> new.hdr, ftr |-> new.ftr]
      /\ DOMAIN new.hdr = (DOMAIN m.hdr \ span) \cup {lo}
      /\ DOMAIN new.ftr = (DOMAIN m.ftr \ span) \cup {nlo - FooterSize}
      /\ new.hdr[lo] = [size |-> sz, is_hole |-> hole]
      /\ new.ftr[nlo - FooterSize] = lo
  BY DEF MakeBlock
<1>3. /\ \A a \in DOMAIN m.hdr \ span : new.hdr[a] = m.hdr[a]
      /\ \A f \in DOMAIN m.ftr \ span : new.ftr[f] = m.ftr[f]
  BY DEF MakeBlock
<1>4. /\ Live(new, nlo, hi) = Live(m, lo, hi) \cup {lo}
      /\ Live(m, lo, hi) \subseteq DOMAIN m.hdr \ span
      /\ lo \notin Live(m, lo, hi)
  BY <1>1, <1>2 DEF Live
<1> HIDE DEF new
<1>5. \A a \in Live(m, lo, hi) : /\ new.hdr[a] = m.hdr[a] /\ a # lo
                                 /\ After(new.hdr, a) = After(m.hdr, a)
  BY <1>3, <1>4 DEF After
<1>6. After(new.hdr, lo) = nlo
  BY <1>2 DEF After
<1>7. \A a \in Live(m, lo, hi) :
         /\ a \in Int /\ HeapStart <= a /\ After(m.hdr, a) \in Int
         /\ After(m.hdr, a) > a
         /\ After(m.hdr, a) <= end /\ (After(m.hdr, a) <= lo \/ hi <= a)
         /\ After(m.hdr, a) - FooterSize > a
         /\ After(m.hdr, a) - FooterSize \in DOMAIN m.ftr
         /\ m.ftr[After(m.hdr, a) - FooterSize] = a
  BY <1>1 DEF TilesExcept, Live, After, BlockType
<1>8. WellTyped(new, nlo, hi)
  BY <1>0, <1>1, <1>2, <1>4, <1>5 DEF WellTyped, BlockType
<1>9. ASSUME NEW a \in Live(new, nlo, hi)
      PROVE  /\ HeapStart <= a
             /\ After(new.hdr, a) <= end
             /\ After(new.hdr, a) <= nlo \/ hi <= a
             /\ After(new.hdr, a) - FooterSize \in DOMAIN new.ftr
             /\ new.ftr[After(new.hdr, a) - FooterSize] = a
  <2>1. CASE a = lo
    BY <2>1, <1>0, <1>2, <1>6
  <2>2. CASE a \in Live(m, lo, hi)
    <3> DEFINE f == After(m.hdr, a) - FooterSize
    <3>1. f \in DOMAIN m.ftr /\ f \notin span
      BY <1>0, <1>7, <2>2
    <3> QED
      BY <3>1, <1>0, <1>2, <1>3, <1>5, <1>7, <2>2
  <2> QED
    BY <2>1, <2>2, <1>4
<1>10. ASSUME NEW a \in Live(new, nlo, hi), NEW b \in Live(new, nlo, hi), a < b
       PROVE  After(new.hdr, a) <= b
  <2>1. CASE a = lo
    BY <2>1, <1>0, <1>4, <1>6, <1>7, <1>10
  <2>2. CASE b = lo
    <3>0. a < lo /\ a # lo
      BY <2>2, <1>10
    <3>1. a \in Live(m, lo, hi) /\ a \in Int
      BY <3>0, <1>4, <1>7
    <3>2. ~ (hi <= a)
      BY <3>0, <3>1, <1>0
    <3> QED
      BY <3>1, <3>2, <2>2, <1>5, <1>7
  <2>3. CASE a \in Live(m, lo, hi) /\ b \in Live(m, lo, hi)
    BY <2>3, <1>5, <1>10 DEF TilesExcept
  <2> QED
    BY <2>1, <2>2, <2>3, <1>4
<1>11. ASSUME NEW x \in HeapStart..(end - 1)
       PROVE  \/ nlo <= x /\ x < hi
              \/ \E a \in Live(new, nlo, hi) : a <= x /\ x < After(new.hdr, a)
  <2>1. CASE lo <= x /\ x < nlo
    BY <2>1, <1>4, <1>6
  <2>2. CASE \E a \in Live(m, lo, hi) : a <= x /\ x < After(m.hdr, a)
    BY <2>2, <1>4, <1>5
  <2>3. \/ lo <= x /\ x < hi
        \/ \E a \in Live(m, lo, hi) : a <= x /\ x < After(m.hdr, a)
    BY DEF TilesExcept
  <2> QED
    BY <2>1, <2>2, <2>3, <1>0
<1>12. ASSUME NEW f \in DOMAIN new.ftr
       PROVE  \/ nlo <= f /\ f < hi
              \/ \E a \in Live(new, nlo, hi) : f = After(new.hdr, a) - FooterSize
  <2>1. CASE f = nlo - FooterSize
    BY <2>1, <1>4, <1>6
  <2>2. CASE f \in DOMAIN m.ftr \ span
    <3>1. f \in Int /\ (\/ lo <= f /\ f < hi
                        \/ \E a \in Live(m, lo, hi) : f = After(m.hdr, a) - FooterSize)
      BY <2>2, <1>1 DEF TilesExcept
    <3> QED
      BY <3>1, <2>2, <1>0, <1>4, <1>5
  <2> QED
    BY <2>1, <2>2, <1>2
<1>13. TilesExcept(new, nlo, hi, end)
  BY <1>8, <1>9, <1>10, <1>11, <1>12 DEF TilesExcept
<1> QED
  BY <1>2, <1>4, <1>5, <1>13 DEF new, Carved

----------------------------------------------------------------------------
(* A heap without a gap *)

Whole(m, end) == TilesExcept(m, end, end, end)

LEMMA WholeFacts ==
    ASSUME NEW m, NEW end \in Int, Whole(m, end)
    PROVE  /\ m = [hdr |-> m.hdr, ftr |-> m.ftr]
           /\ DOMAIN m.hdr \subseteq Int /\ DOMAIN m.ftr \subseteq Int
           /\ \A a \in DOMAIN m.hdr :
                /\ m.hdr[a] \in BlockType
                /\ After(m.hdr, a) \in Int /\ a + META < After(m.hdr, a)
                /\ HeapStart <= a /\ After(m.hdr, a) <= end
                /\ After(m.hdr, a) - FooterSize \in DOMAIN m.ftr
                /\ m.ftr[After(m.hdr, a) - FooterSize] = a
           /\ \A a, b \in DOMAIN m.hdr : a < b => After(m.hdr, a) <= b
           /\ \A x \in HeapStart..(end - 1) :
                \E a \in DOMAIN m.hdr : a <= x /\ x < After(m.hdr, a)
           /\ \A f \in DOMAIN m.ftr : \E a \in DOMAIN m.hdr :
                f = After(m.hdr, a) - FooterSize
<1>1. Live(m, end, end) = DOMAIN m.hdr
  BY DEF Whole, TilesExcept, WellTyped, Live
<1>2. \A x \in Int : ~ (end <= x /\ x < end)
  OBVIOUS
<1>3. DOMAIN m.hdr \subseteq Int /\ DOMAIN m.ftr \subseteq Int
  BY DEF Whole, TilesExcept, WellTyped
<1>4. \A a \in DOMAIN m.hdr : /\ m.hdr[a] \in BlockType
                              /\ After(m.hdr, a) \in Int /\ a + META < After(m.hdr, a)
  BY <1>1, <1>3, TagAssumption DEF Whole, TilesExcept, WellTyped, After, BlockType
<1> QED
  BY <1>1, <1>2, <1>3, <1>4, LayoutAssumption DEF Whole, TilesExcept, WellTyped

LEMMA WholeTiles ==
    ASSUME NEW m, NEW end \in Int, Whole(m, end)
    PROVE  Tiles(m, end)
BY WholeFacts DEF Tiles

(* A gap that has been filled is no gap. *)
LEMMA CloseGap ==
    ASSUME NEW m, NEW h \in Int, NEW end \in Int, h <= end, HeapStart <= end,
           TilesExcept(m, h, h, end)
    PROVE  Whole(m, end) /\ Live(m, h, h) = DOMAIN m.hdr
<1>1. DOMAIN m.hdr \subseteq Int /\ DOMAIN m.ftr \subseteq Int
  BY DEF TilesExcept, WellTyped
<1>2. Live(m, h, h) = DOMAIN m.hdr /\ Live(m, end, end) = DOMAIN m.hdr
  BY <1>1 DEF Live
<1>3. \A x \in Int : ~ (h <= x /\ x < h)
  OBVIOUS
<1>4. HeapStart \in Int
  BY LayoutAssumption
<1> QED
  BY <1>1, <1>2, <1>3, <1>4 DEF Whole, TilesExcept, WellTyped

(* Any run of blocks, with the bytes the heap grows by, can be taken as a  *)
(* gap.                                                                    *)
LEMMA OpenGap ==
    ASSUME NEW m, NEW end \in Int, Whole(m, end), HeapStart <= end,
           NEW grown \in Int, end <= grown,
           NEW lo \in Int, lo \in DOMAIN m.hdr \/ lo = end,
           NEW hi \in Int, lo < hi,
           \/ hi = grown
           \/ end = grown /\ \E b \in DOMAIN m.hdr : hi = After(m.hdr, b)
    PROVE  TilesExcept(m, lo, hi, grown)
<1> USE LayoutAssumption, TagAssumption
<1>1. Live(m, lo, hi) \subseteq DOMAIN m.hdr
  BY DEF Live
<1>2. WellTyped(m, lo, hi)
  BY <1>1, WholeFacts DEF WellTyped
<1>3. \A a \in DOMAIN m.hdr : After(m.hdr, a) \in Int /\ a \in Int /\ a + META < After(m.hdr, a)
  BY WholeFacts
<1>4. ASSUME NEW a \in Live(m, lo, hi)
      PROVE  /\ HeapStart <= a
             /\ After(m.hdr, a) <= grown
             /\ After(m.hdr, a) <= lo \/ hi <= a
             /\ After(m.hdr, a) - FooterSize \in DOMAIN m.ftr
             /\ m.ftr[After(m.hdr, a) - FooterSize] = a
  <2>1. /\ a \in DOMAIN m.hdr /\ HeapStart <= a /\ After(m.hdr, a) <= end
        /\ After(m.hdr, a) - FooterSize \in DOMAIN m.ftr
        /\ m.ftr[After(m.hdr, a) - FooterSize] = a
    BY <1>1, WholeFacts
  <2>2. After(m.hdr, a) <= lo \/ hi <= a
    <3>1. CASE a < lo
      BY <2>1, <3>1, WholeFacts
    <3> QED
      BY <3>1 DEF Live
  <2> QED
    BY <1>3, <2>1, <2>2
<1>5. \A a, b \in Live(m, lo, hi) : a < b => After(m.hdr, a) <= b
  BY <1>1, WholeFacts
<1>6. ASSUME NEW a \in DOMAIN m.hdr, a \notin Live(m, lo, hi)
      PROVE  lo <= a /\ After(m.hdr, a) <= hi
  <2>1. lo <= a /\ a < hi
    BY <1>3, <1>6 DEF Live
  <2>2. CASE hi = grown
    BY <1>3, <2>1, <2>2, WholeFacts
  <2>3. CASE \E b \in DOMAIN m.hdr : hi = After(m.hdr, b)
    <3>1. PICK b \in DOMAIN m.hdr : hi = After(m.hdr, b)
      BY <2>3
    <3>2. a < b => After(m.hdr, a) <= b
      BY WholeFacts
    <3>3. b < a => hi <= a
      BY <3>1, WholeFacts
    <3> QED
      BY <1>3, <2>1, <3>1, <3>2, <3>3
  <2> QED
    BY <2>1, <2>2, <2>3
<1>7. ASSUME NEW x \in HeapStart..(grown - 1)
      PROVE  \/ lo <= x /\ x < hi
             \/ \E a \in Live(m, lo, hi) : a <= x /\ x < After(m.hdr, a)
  <2>1. CASE x >= end
    <3>1. hi = grown /\ lo <= end
      BY <2>1, WholeFacts, <1>3
    <3> QED
      BY <2>1, <3>1
  <2>2. CASE x < end
    <3>1. PICK a \in DOMAIN m.hdr : a <= x /\ x < After(m.hdr, a)
      <4>1. x \in HeapStart..(end - 1)
        BY <2>2
      <4> QED
        BY <4>1, WholeFacts
    <3> QED
      BY <3>1, <1>3, <1>6
  <2> QED
    BY <2>1, <2>2
<1>8. ASSUME NEW f \in DOMAIN m.ftr
      PROVE  \/ lo <= f /\ f < hi
             \/ \E a \in Live(m, lo, hi) : f = After(m.hdr, a) - FooterSize
  <2>1. PICK a \in DOMAIN m.hdr : f = After(m.hdr, a) - FooterSize
    BY WholeFacts
  <2> QED
    BY <2>1, <1>3, <1>6
<1> QED
  BY <1>2, <1>4, <1>5, <1>7, <1>8 DEF TilesExcept

----------------------------------------------------------------------------
(* Neighbours: what the reads of the boundary tags find *)

(* The address after a block is a header, or the end of the heap. *)
LEMMA RightNeighbour ==
    ASSUME NEW m, NEW end \in Int, Whole(m, end), NEW a \in DOMAIN m.hdr
    PROVE  After(m.hdr, a) = end \/ After(m.hdr, a) \in DOMAIN m.hdr
<1> DEFINE x == After(m.hdr, a)
<1>1. a \in Int /\ x \in Int /\ a < x /\ HeapStart <= a /\ x <= end
  BY WholeFacts, TagAssumption
<1>2. CASE x < end
  <2>1. PICK b \in DOMAIN m.hdr : b <= x /\ x < After(m.hdr, b)
    <3>1. x \in HeapStart..(end - 1)
      BY <1>1, <1>2, LayoutAssumption
    <3> QED
      BY <3>1, WholeFacts
  <2>2. b \in Int /\ (b < a => After(m.hdr, b) <= a) /\ (a < b => x <= b)
    BY WholeFacts
  <2>3. b # a
    BY <2>1, <1>1
  <2>4. b = x
    BY <1>1, <2>1, <2>2, <2>3, WholeFacts
  <2> QED
    BY <2>4
<1> QED
  BY <1>1, <1>2

(* No two blocks end at the same address. *)
LEMMA AfterIsInjective ==
    ASSUME NEW m, NEW end \in Int, Whole(m, end),
           NEW a \in DOMAIN m.hdr, NEW b \in DOMAIN m.hdr,
           After(m.hdr, a) = After(m.hdr, b)
    PROVE  a = b
<1>1. /\ a \in Int /\ b \in Int
      /\ After(m.hdr, a) \in Int /\ After(m.hdr, b) \in Int
      /\ a < After(m.hdr, a) /\ b < After(m.hdr, b)
  BY WholeFacts, TagAssumption
<1>2. (a < b => After(m.hdr, a) <= b) /\ (b < a => After(m.hdr, b) <= a)
  BY WholeFacts
<1> QED
  BY <1>1, <1>2

(* Every byte but the first of the heap that a block starts at, and the    *)
(* end of the heap, has a block right before it.                           *)
LEMMA LeftNeighbour ==
    ASSUME NEW m, NEW end \in Int, Whole(m, end), NEW x \in Int,
           x \in DOMAIN m.hdr \/ x = end, HeapStart < x
    PROVE  \E b \in DOMAIN m.hdr : After(m.hdr, b) = x
<1>1. x <= end /\ x - 1 \in HeapStart..(end - 1)
  BY WholeFacts, LayoutAssumption, TagAssumption
<1>2. PICK b \in DOMAIN m.hdr : b <= x - 1 /\ x - 1 < After(m.hdr, b)
  BY <1>1, WholeFacts
<1>3. b \in Int /\ After(m.hdr, b) \in Int /\ After(m.hdr, b) <= end /\ b < x
  BY <1>2, WholeFacts
<1>4. x \in DOMAIN m.hdr => After(m.hdr, b) <= x
  BY <1>3, WholeFacts
<1> QED
  BY <1>2, <1>3, <1>4

(* A footer before x is that of the block that ends at x. *)
LEMMA FooterBefore ==
    ASSUME NEW m, NEW end \in Int, Whole(m, end), NEW x \in Int,
           x - FooterSize \in DOMAIN m.ftr
    PROVE  LET b == m.ftr[x - FooterSize]
           IN  b \in DOMAIN m.hdr /\ After(m.hdr, b) = x
<1>1. PICK a \in DOMAIN m.hdr : x - FooterSize = After(m.hdr, a) - FooterSize
  BY WholeFacts
<1>2. After(m.hdr, a) \in Int /\ FooterSize \in Int
  BY WholeFacts, TagAssumption
<1>3. After(m.hdr, a) = x
  BY <1>1, <1>2
<1> QED
  BY <1>3, WholeFacts

----------------------------------------------------------------------------
(* The operations on the tags *)

LEMMA Merge ==
    ASSUME NEW m, NEW end \in Int, Whole(m, end), HeapStart <= end,
           NEW a \in DOMAIN m.hdr, NEW b \in DOMAIN m.hdr, After(m.hdr, a) = b
    PROVE  LET sz  == m.hdr[a].size + m.hdr[b].size + META
               new == MakeBlock(m, a, sz, IS_HOLE)
           IN  /\ Whole(new, end)
               /\ DOMAIN new.hdr = DOMAIN m.hdr \ {b}
               /\ new.hdr[a] = [size |-> sz, is_hole |-> IS_HOLE]
               /\ \A c \in DOMAIN m.hdr \ {a, b} : new.hdr[c] = m.hdr[c]
               /\ After(new.hdr, a) = After(m.hdr, b)
<1> DEFINE sz  == m.hdr[a].size + m.hdr[b].size + META
           new == MakeBlock(m, a, sz, IS_HOLE)
           hi  == After(m.hdr, b)
<1>1. /\ a \in Int /\ b \in Int /\ hi \in Int /\ a < b /\ b < hi
      /\ hi <= end /\ HeapStart <= a
  BY WholeFacts, TagAssumption
<1>2. m.hdr[a].size \in Nat \ {0} /\ m.hdr[b].size \in Nat \ {0}
  BY WholeFacts DEF BlockType
<1>3. sz \in Nat \ {0} /\ hi = a + sz + META /\ hi <= hi
  BY <1>1, <1>2, TagAssumption DEF After
<1>4. TilesExcept(m, a, hi, end)
  BY <1>1, OpenGap
<1>5. Live(m, a, hi) = DOMAIN m.hdr \ {a, b}
  <2>1. ASSUME NEW c \in DOMAIN m.hdr, a <= c, c < hi PROVE c \in {a, b}
    <3>1. c \in Int /\ (a < c => b <= c) /\ (b < c => hi <= c)
      BY WholeFacts
    <3> QED
      BY <3>1, <2>1, <1>1
  <2>2. DOMAIN m.hdr \subseteq Int
    BY WholeFacts
  <2> QED
    BY <1>1, <2>1, <2>2 DEF Live
<1> HIDE DEF new, hi, sz
<1>6. /\ TilesExcept(new, hi, hi, end)
      /\ Live(new, hi, hi) = Live(m, a, hi) \cup {a}
      /\ new.hdr[a] = [size |-> sz, is_hole |-> IS_HOLE]
      /\ \A c \in Live(m, a, hi) : c # a /\ new.hdr[c] = m.hdr[c]
  <2>1. Carved(m, new, a, hi, hi, end, [size |-> sz, is_hole |-> IS_HOLE])
    BY <1>1, <1>3, <1>4, Carve DEF new
  <2> QED
    BY <2>1 DEF Carved
<1>7. Whole(new, end) /\ DOMAIN new.hdr = Live(m, a, hi) \cup {a}
  BY <1>1, <1>6, CloseGap
<1>8. After(new.hdr, a) = hi
  BY <1>3, <1>6 DEF After
<1>9. /\ DOMAIN new.hdr = DOMAIN m.hdr \ {b}
      /\ \A c \in DOMAIN m.hdr \ {a, b} : new.hdr[c] = m.hdr[c]
  BY <1>1, <1>5, <1>6, <1>7
<1> QED
  BY <1>6, <1>7, <1>8, <1>9 DEF new, hi, sz

LEMMA GrowLast ==
    ASSUME NEW m, NEW end \in Int, Whole(m, end), HeapStart <= end,
           NEW a \in DOMAIN m.hdr, After(m.hdr, a) = end,
           NEW ext \in Nat \ {0}
    PROVE  LET sz  == m.hdr[a].size + ext
               new == MakeBlock(m, a, sz, IS_HOLE)
           IN  /\ Whole(new, end + ext)
               /\ DOMAIN new.hdr = DOMAIN m.hdr
               /\ new.hdr[a] = [size |-> sz, is_hole |-> IS_HOLE]
               /\ \A c \in DOMAIN m.hdr \ {a} : new.hdr[c] = m.hdr[c]
<1> DEFINE sz  == m.hdr[a].size + ext
           new == MakeBlock(m, a, sz, IS_HOLE)
           hi  == end + ext
<1>1. a \in Int /\ hi \in Int /\ a < end /\ end < hi /\ HeapStart <= a
  BY WholeFacts, TagAssumption
<1>2. m.hdr[a].size \in Nat \ {0}
  BY WholeFacts DEF BlockType
<1>3. sz \in Nat \ {0} /\ hi = a + sz + META /\ hi <= hi
  BY <1>1, <1>2, TagAssumption DEF After
<1>4. TilesExcept(m, a, hi, hi)
  BY <1>1, OpenGap
<1>5. Live(m, a, hi) = DOMAIN m.hdr \ {a}
  <2>1. ASSUME NEW c \in DOMAIN m.hdr, a <= c, c < hi PROVE c = a
    <3>1. c \in Int /\ (a < c => end <= c) /\ c < end
      BY WholeFacts, TagAssumption
    <3> QED
      BY <3>1, <2>1, <1>1
  <2>2. DOMAIN m.hdr \subseteq Int
    BY WholeFacts
  <2> QED
    BY <1>1, <2>1, <2>2 DEF Live
<1> HIDE DEF new, hi, sz
<1>6. /\ TilesExcept(new, hi, hi, hi)
      /\ Live(new, hi, hi) = Live(m, a, hi) \cup {a}
      /\ new.hdr[a] = [size |-> sz, is_hole |-> IS_HOLE]
      /\ \A c \in Live(m, a, hi) : c # a /\ new.hdr[c] = m.hdr[c]
  <2>1. Carved(m, new, a, hi, hi, hi, [size |-> sz, is_hole |-> IS_HOLE])
    BY <1>1, <1>3, <1>4, Carve DEF new
  <2> QED
    BY <2>1 DEF Carved
<1>7. Whole(new, hi) /\ DOMAIN new.hdr = Live(m, a, hi) \cup {a}
  <2>1. HeapStart <= hi
    BY <1>1, LayoutAssumption
  <2> QED
    BY <1>1, <1>6, <2>1, CloseGap
<1> QED
  BY <1>5, <1>6, <1>7 DEF new, hi, sz

LEMMA AppendBlock ==
    ASSUME NEW m, NEW end \in Int, Whole(m, end), HeapStart <= end,
           NEW ext \in Nat, META < ext
    PROVE  LET new == MakeBlock(m, end, ext - META, IS_HOLE)
           IN  /\ Whole(new, end + ext)
               /\ end \notin DOMAIN m.hdr
               /\ DOMAIN new.hdr = DOMAIN m.hdr \cup {end}
               /\ new.hdr[end] = [size |-> ext - META, is_hole |-> IS_HOLE]
               /\ \A c \in DOMAIN m.hdr : new.hdr[c] = m.hdr[c]
<1> DEFINE sz  == ext - META
           new == MakeBlock(m, end, sz, IS_HOLE)
           hi  == end + ext
<1>1. hi \in Int /\ end < hi /\ sz \in Nat \ {0} /\ hi = end + sz + META /\ hi <= hi
  BY TagAssumption
<1>2. TilesExcept(m, end, hi, hi)
  BY <1>1, OpenGap
<1>3. Live(m, end, hi) = DOMAIN m.hdr /\ end \notin DOMAIN m.hdr
  <2>1. \A c \in DOMAIN m.hdr : c \in Int /\ c < end
    BY WholeFacts, TagAssumption
  <2> QED
    BY <2>1 DEF Live
<1> HIDE DEF new, hi, sz
<1>4. /\ TilesExcept(new, hi, hi, hi)
      /\ Live(new, hi, hi) = Live(m, end, hi) \cup {end}
      /\ new.hdr[end] = [size |-> sz, is_hole |-> IS_HOLE]
      /\ \A c \in Live(m, end, hi) : c # end /\ new.hdr[c] = m.hdr[c]
  <2>1. Carved(m, new, end, hi, hi, hi, [size |-> sz, is_hole |-> IS_HOLE])
    BY <1>1, <1>2, Carve DEF new
  <2> QED
    BY <2>1 DEF Carved
<1>5. Whole(new, hi) /\ DOMAIN new.hdr = Live(m, end, hi) \cup {end}
  <2>1. HeapStart <= hi
    BY <1>1, LayoutAssumption
  <2> QED
    BY <1>1, <1>4, <2>1, CloseGap
<1> QED
  BY <1>3, <1>4, <1>5 DEF new, hi, sz

LEMMA Mark ==
    ASSUME NEW m, NEW end \in Int, Whole(m, end), NEW a \in DOMAIN m.hdr
    PROVE  LET new == MarkHole(m, a)
           IN  /\ Whole(new, end)
               /\ DOMAIN new.hdr = DOMAIN m.hdr
               /\ new.hdr[a] = [size |-> m.hdr[a].size, is_hole |-> IS_HOLE]
               /\ \A c \in DOMAIN m.hdr \ {a} : new.hdr[c] = m.hdr[c]
               /\ \A c \in DOMAIN m.hdr : After(new.hdr, c) = After(m.hdr, c)
<1> DEFINE new == MarkHole(m, a)
<1>1. /\ new = [hdr |-> new.hdr, ftr |-> new.ftr]
      /\ DOMAIN new.hdr = DOMAIN m.hdr /\ new.ftr = m.ftr
      /\ new.hdr[a] = [size |-> m.hdr[a].size, is_hole |-> IS_HOLE]
      /\ \A c \in DOMAIN m.hdr \ {a} : new.hdr[c] = m.hdr[c]
  BY DEF MarkHole
<1> HIDE DEF new
<1>2. \A c \in DOMAIN m.hdr : new.hdr[c] \in BlockType /\ After(new.hdr, c) = After(m.hdr, c)
  <2> SUFFICES ASSUME NEW c \in DOMAIN m.hdr
               PROVE  new.hdr[c] \in BlockType /\ new.hdr[c].size = m.hdr[c].size
    BY DEF After
  <2>1. m.hdr[c] \in BlockType
    BY WholeFacts
  <2> QED
    BY <1>1, <2>1, c = a \/ c \in DOMAIN m.hdr \ {a} DEF BlockType
<1>3. Whole(new, end)
  <2>1. Live(new, end, end) = Live(m, end, end) /\ Live(m, end, end) = DOMAIN m.hdr
    BY <1>1, WholeFacts DEF Live
  <2>2. WellTyped(new, end, end)
    BY <1>1, <1>2, <2>1, WholeFacts DEF WellTyped
  <2> QED
    BY <1>1, <1>2, <2>1, <2>2 DEF Whole, TilesExcept
<1> QED
  BY <1>1, <1>2, <1>3 DEF new

(* Placing a block of taken bytes at a + cut inside the block at a, as     *)
(* Place does: m1 after the cut in front, m3 at the end.                   *)
Taken(m, m1, m3, a, cut, taken, rest, hi, end) ==
    /\ Whole(m3, end)
    /\ \A c \in DOMAIN m.hdr \ {a} : /\ c \in DOMAIN m1.hdr /\ m1.hdr[c] = m.hdr[c]
                                     /\ c \in DOMAIN m3.hdr /\ m3.hdr[c] = m.hdr[c]
    /\ cut > 0 => /\ a \in DOMAIN m1.hdr /\ a \in DOMAIN m3.hdr
                  /\ m1.hdr[a] = [size |-> cut - META, is_hole |-> IS_HOLE]
                  /\ m3.hdr[a] = [size |-> cut - META, is_hole |-> IS_HOLE]
    /\ a + cut \in DOMAIN m3.hdr
    /\ m3.hdr[a + cut] = [size |-> taken, is_hole |-> NOT_HOLE]
    /\ rest < hi => /\ rest \in DOMAIN m3.hdr
                    /\ m3.hdr[rest] = [size |-> hi - rest - META, is_hole |-> IS_HOLE]
    /\ \A c \in DOMAIN m3.hdr : \/ c \in DOMAIN m.hdr \ {a}
                                \/ c = a + cut
                                \/ cut > 0 /\ c = a
                                \/ rest < hi /\ c = rest
    /\ a + cut \notin DOMAIN m.hdr \ {a}
    /\ rest < hi => rest \notin DOMAIN m.hdr /\ rest # a

LEMMA Take ==
    ASSUME NEW m, NEW end \in Int, Whole(m, end), HeapStart <= end,
           NEW a \in DOMAIN m.hdr, NEW hi, hi = After(m.hdr, a),
           NEW cut \in Nat, cut = 0 \/ META < cut,
           NEW taken \in Nat \ {0},
           NEW rest, rest = a + cut + META + taken,
           rest = hi \/ rest + META < hi,
           NEW m1, m1 = IF cut > 0 THEN MakeBlock(m, a, cut - META, IS_HOLE) ELSE m,
           NEW m2, m2 = MakeBlock(m1, a + cut, taken, NOT_HOLE),
           NEW m3, m3 = IF rest = hi THEN m2
                        ELSE MakeBlock(m2, rest, hi - rest - META, IS_HOLE)
    PROVE  Taken(m, m1, m3, a, cut, taken, rest, hi, end)
<1> DEFINE mid == a + cut
<1>1. /\ a \in Int /\ hi \in Int /\ mid \in Int /\ rest \in Int
      /\ a <= mid /\ mid < rest /\ rest <= hi /\ hi <= end /\ HeapStart <= a
      /\ a < hi /\ mid < hi
  BY WholeFacts, TagAssumption
<1>2. TilesExcept(m, a, hi, end)
  BY <1>1, OpenGap
<1>3. /\ Live(m, a, hi) = DOMAIN m.hdr \ {a}
      /\ \A c \in DOMAIN m.hdr \ {a} : c \in Int /\ (c < a \/ hi <= c)
  <2>1. ASSUME NEW c \in DOMAIN m.hdr, c # a PROVE c \in Int /\ (c < a \/ hi <= c)
    BY <1>1, <2>1, WholeFacts
  <2> QED
    BY <1>1, <2>1 DEF Live
<1>4. /\ TilesExcept(m1, mid, hi, end)
      /\ Live(m1, mid, hi) = IF cut > 0 THEN Live(m, a, hi) \cup {a} ELSE Live(m, a, hi)
      /\ \A c \in Live(m, a, hi) : m1.hdr[c] = m.hdr[c]
      /\ cut > 0 => m1.hdr[a] = [size |-> cut - META, is_hole |-> IS_HOLE]
  <2>1. CASE cut = 0
    BY <1>1, <1>2, <2>1
  <2>2. CASE cut > 0
    <3>1. cut - META \in Nat \ {0} /\ mid = a + (cut - META) + META /\ mid <= hi
      BY <1>1, <2>2, TagAssumption
    <3> HIDE DEF mid
    <3>2. Carved(m, m1, a, mid, hi, end, [size |-> cut - META, is_hole |-> IS_HOLE])
      BY <1>1, <1>2, <2>2, <3>1, Carve
    <3> QED
      BY <2>2, <3>2 DEF Carved
  <2> QED
    BY <2>1, <2>2
<1> HIDE DEF mid
<1>5. Carved(m1, m2, mid, rest, hi, end, [size |-> taken, is_hole |-> NOT_HOLE])
  <2>1. HeapStart <= mid /\ rest = mid + taken + META
    BY <1>1, LayoutAssumption, TagAssumption DEF mid
  <2> QED
    BY <1>1, <1>4, <2>1, Carve DEF mid
<1>6. /\ Whole(m3, end)
      /\ DOMAIN m3.hdr = IF rest = hi THEN Live(m2, rest, hi)
                                      ELSE Live(m2, rest, hi) \cup {rest}
      /\ \A c \in Live(m2, rest, hi) : m3.hdr[c] = m2.hdr[c]
      /\ rest < hi => m3.hdr[rest] = [size |-> hi - rest - META, is_hole |-> IS_HOLE]
  <2>1. TilesExcept(m2, rest, hi, end)
    BY <1>5 DEF Carved
  <2>2. CASE rest = hi
    BY <1>1, <2>1, <2>2, CloseGap
  <2>3. CASE rest # hi
    <3> DEFINE left == hi - rest - META
    <3>1. left \in Nat \ {0} /\ hi = rest + left + META /\ HeapStart <= rest /\ hi <= hi
      BY <1>1, <2>3, LayoutAssumption, TagAssumption
    <3>2. m3 = MakeBlock(m2, rest, left, IS_HOLE)
      BY <2>3
    <3> HIDE DEF left
    <3>3. Carved(m2, m3, rest, hi, hi, end, [size |-> left, is_hole |-> IS_HOLE])
      <4>1. Carved(m2, MakeBlock(m2, rest, left, IS_HOLE), rest, hi, hi, end,
                   [size |-> left, is_hole |-> IS_HOLE])
        <5> HIDE DEF mid
        <5> QED
          BY ONLY <1>1, <2>1, <3>1, Carve
      <4> QED
        BY <3>2, <4>1
    <3>4. TilesExcept(m3, hi, hi, end)
      BY <3>3 DEF Carved
    <3>5. Whole(m3, end) /\ DOMAIN m3.hdr = Live(m3, hi, hi)
      BY <1>1, <3>4, CloseGap
    <3> QED
      BY <2>3, <3>3, <3>5 DEF Carved, left
  <2> QED
    BY <2>2, <2>3
<1>7. /\ Live(m2, rest, hi) = Live(m1, mid, hi) \cup {mid}
      /\ m2.hdr[mid] = [size |-> taken, is_hole |-> NOT_HOLE]
      /\ \A c \in Live(m1, mid, hi) : c # mid /\ m2.hdr[c] = m1.hdr[c]
  BY <1>5 DEF Carved
<1>8. \A c \in DOMAIN m.hdr \ {a} :
        /\ c \in DOMAIN m1.hdr /\ m1.hdr[c] = m.hdr[c]
        /\ c \in DOMAIN m3.hdr /\ m3.hdr[c] = m.hdr[c]
  <2>1. Live(m1, mid, hi) \subseteq DOMAIN m1.hdr
    BY DEF Live
  <2> QED
    BY <1>3, <1>4, <1>6, <1>7, <2>1
<1>9. cut > 0 => /\ a \in DOMAIN m1.hdr /\ a \in DOMAIN m3.hdr
                 /\ m1.hdr[a] = [size |-> cut - META, is_hole |-> IS_HOLE]
                 /\ m3.hdr[a] = [size |-> cut - META, is_hole |-> IS_HOLE]
  <2>1. Live(m1, mid, hi) \subseteq DOMAIN m1.hdr
    BY DEF Live
  <2> QED
    BY <1>4, <1>6, <1>7, <2>1
<1>10. mid \in DOMAIN m3.hdr /\ m3.hdr[mid] = [size |-> taken, is_hole |-> NOT_HOLE]
  BY <1>6, <1>7
<1>11. rest < hi => /\ rest \in DOMAIN m3.hdr
                    /\ m3.hdr[rest] = [size |-> hi - rest - META, is_hole |-> IS_HOLE]
  BY <1>1, <1>6
<1>12. \A c \in DOMAIN m3.hdr : \/ c \in DOMAIN m.hdr \ {a}
                                \/ c = mid
                                \/ cut > 0 /\ c = a
                                \/ rest < hi /\ c = rest
  BY <1>1, <1>3, <1>4, <1>6, <1>7
<1>13. mid \notin DOMAIN m.hdr \ {a}
  BY <1>1, <1>3
<1>14. rest < hi => rest \notin DOMAIN m.hdr /\ rest # a
  BY <1>1, <1>3
<1> QED
  BY <1>6, <1>8, <1>9, <1>10, <1>11, <1>12, <1>13, <1>14 DEF Taken, mid

----------------------------------------------------------------------------
(* The index *)

IndexWF(m, idx) ==
    /\ idx \in Seq(Int) /\ Len(idx) <= IndexCapacity
    /\ Items(idx) \subseteq DOMAIN m.hdr
    /\ HasNoDuplicate(idx)
    /\ IsOrdered(idx, Sizes(m))

(* A new index entry: idx grows by a, or not at all when it is full. *)
Indexed(m, idx, new, a) ==
    /\ IndexWF(m, new)
    /\ Items(new) \subseteq Items(idx) \cup {a}
    /\ Items(idx) \subseteq Items(new) /\ Len(new) <= Len(idx) + 1
    /\ Len(idx) < IndexCapacity => a \in Items(new)

LEMMA IndexInsert ==
    ASSUME NEW m, NEW idx, IndexWF(m, idx),
           NEW a \in Int, a \in DOMAIN m.hdr, a \notin Items(idx),
           \A c \in Items(idx) \cup {a} : m.hdr[c].size \in Int
    PROVE  Indexed(m, idx, InsertHole(idx, m, a), a)
<1> DEFINE new == Insert(idx, IndexCapacity, Sizes(m), a)
<1>1. idx \in Seq(Int) /\ Len(idx) <= IndexCapacity /\ IndexCapacity \in Nat
  BY RequestAssumption DEF IndexWF
<1>2. \A x \in Items(idx) \cup {a} : Sizes(m)[x] \in Int
  BY DEF Sizes, IndexWF
<1>3. /\ new \in Seq(Int) /\ Len(new) <= IndexCapacity
      /\ Items(new) \subseteq Items(idx) \cup {a}
      /\ Items(idx) \subseteq Items(new) /\ Len(new) <= Len(idx) + 1
      /\ Len(idx) < IndexCapacity => a \in Items(new)
  BY <1>1, InsertItems
<1>4. HasNoDuplicate(new)
  BY <1>1, InsertKeepsDistinct DEF IndexWF
<1>5. IsOrdered(new, Sizes(m))
  BY <1>1, <1>2, InsertKeepsOrder DEF IndexWF
<1> QED
  BY <1>3, <1>4, <1>5 DEF Indexed, IndexWF, InsertHole

(* The tags may change as long as the indexed blocks keep their sizes. *)
LEMMA IndexMove ==
    ASSUME NEW m, NEW n, NEW idx, IndexWF(m, idx),
           \A x \in Items(idx) : x \in DOMAIN n.hdr /\ n.hdr[x].size = m.hdr[x].size
    PROVE  IndexWF(n, idx)
<1>1. \A x \in Items(idx) : Sizes(n)[x] = Sizes(m)[x]
  BY DEF Sizes, IndexWF
<1>2. \A i \in 1..Len(idx) : idx[i] \in Items(idx)
  BY DEF Items
<1>3. IsOrdered(idx, Sizes(n))
  BY <1>1, <1>2 DEF IndexWF, IsOrdered, NotAfter
<1> QED
  BY <1>3 DEF IndexWF

LEMMA IndexRemove ==
    ASSUME NEW m, NEW idx, IndexWF(m, idx), NEW a
    PROVE  /\ IndexWF(m, RemoveElement(idx, a))
           /\ Items(RemoveElement(idx, a)) = Items(idx) \ {a}
           /\ Len(RemoveElement(idx, a)) <= Len(idx)
<1> DEFINE new == RemoveElement(idx, a)
<1>1. idx \in Seq(Int) /\ HasNoDuplicate(idx)
  BY DEF IndexWF
<1>2. /\ new \in Seq(Int) /\ Len(new) <= Len(idx)
      /\ Items(new) = Items(idx) \ {a}
      /\ HasNoDuplicate(new)
      /\ IsOrdered(idx, Sizes(m)) => IsOrdered(new, Sizes(m))
  BY <1>1, RemoveElementItems
<1> HIDE DEF new
<1>3. Len(new) <= IndexCapacity
  BY <1>1, <1>2, RequestAssumption DEF IndexWF
<1> QED
  BY <1>2, <1>3 DEF IndexWF, new

LEMMA IndexRemoveAt ==
    ASSUME NEW m, NEW idx, IndexWF(m, idx), NEW i \in 1..Len(idx)
    PROVE  /\ IndexWF(m, RemoveAtPosition(idx, i))
           /\ Items(RemoveAtPosition(idx, i)) = Items(idx) \ {idx[i]}
           /\ Len(RemoveAtPosition(idx, i)) = Len(idx) - 1
<1> DEFINE new == RemoveAtPosition(idx, i)
<1>1. idx \in Seq(Int) /\ HasNoDuplicate(idx)
  BY DEF IndexWF
<1>2. /\ new \in Seq(Int) /\ Len(new) = Len(idx) - 1
      /\ Items(new) = Items(idx) \ {idx[i]}
      /\ HasNoDuplicate(new)
      /\ IsOrdered(idx, Sizes(m)) => IsOrdered(new, Sizes(m))
  BY <1>1, RemoveAtPositionItems
<1> HIDE DEF new
<1>3. Len(new) <= IndexCapacity
  BY <1>1, <1>2, RequestAssumption DEF IndexWF
<1> QED
  BY <1>2, <1>3 DEF IndexWF, new

----------------------------------------------------------------------------
(* Pages *)

LEMMA Multiple ==
    ASSUME NEW k \in Int, NEW P \in Nat \ {0}
    PROVE  (k * P) % P = 0
<1> DEFINE x == k * P
           q == x \div P
           r == x % P
<1>1. x \in Int /\ q \in Int /\ r \in 0..(P - 1) /\ x = P * q + r
  OBVIOUS
<1>2. r = P * (k - q)
  BY <1>1
<1>3. CASE k - q >= 1
  <2>1. P * (k - q) >= P
    BY <1>1, <1>3
  <2> QED
    BY <1>1, <1>2, <2>1
<1>4. CASE k - q <= 0
  <2>1. P * (k - q) <= 0
    BY <1>1, <1>4
  <2> QED
    BY <1>1, <1>2, <2>1
<1> QED
  BY <1>1, <1>3, <1>4

LEMMA NextPage ==
    ASSUME NEW x \in Nat, NEW P \in Nat \ {0}, x % P = 0
    PROVE  (x + P) % P = 0
<1>1. x = P * (x \div P) + (x % P) /\ x \div P \in Int
  OBVIOUS
<1>2. x + P = ((x \div P) + 1) * P
  BY <1>1
<1> QED
  BY <1>1, <1>2, Multiple

LEMMA AlignFacts ==
    ASSUME NEW x \in Nat, x + PageSize < WordSize
    PROVE  /\ AlignToPage(x) \in Nat
           /\ x <= AlignToPage(x) /\ AlignToPage(x) < x + PageSize
           /\ AlignToPage(x) % PageSize = 0
<1>1. PageSize \in Nat \ {0}
  BY TagAssumption
<1>2. CASE x % PageSize = 0
  BY <1>1, <1>2 DEF AlignToPage
<1>3. CASE x % PageSize # 0
  <2> DEFINE r == x % PageSize
             y == x - r
  <2>1. r \in 1..(PageSize - 1) /\ r <= x /\ y \in Nat
    <3>1. x = PageSize * (x \div PageSize) + r /\ r \in 0..(PageSize - 1)
      BY <1>1
    <3>2. x \div PageSize \in Nat
      BY <1>1
    <3>3. PageSize * (x \div PageSize) \in Nat
      BY <1>1, <3>2
    <3> HIDE DEF r
    <3> QED
      BY <1>1, <1>3, <3>1, <3>3 DEF r
  <2>2. y % PageSize = 0
    BY <1>1
  <2>3. (y + PageSize) % PageSize = 0
    BY <1>1, <2>1, <2>2, NextPage
  <2>4. AlignToPage(x) = y + PageSize
    <3>1. AlignToPage(x) = Add32(y, PageSize)
      BY <1>3 DEF AlignToPage
    <3> HIDE DEF r
    <3> QED
      BY <1>1, <2>1, <3>1, LayoutAssumption DEF Add32
  <2> HIDE DEF r
  <2> QED
    BY <1>1, <2>1, <2>3, <2>4
<1> QED
  BY <1>2, <1>3

(* What Fits promises about the block at a. *)
LEMMA FitsFacts ==
    ASSUME RequestsFit, NEW end \in Int, end <= MaxAddress, Whole(mem, end),
           NEW a \in DOMAIN mem.hdr, NEW n \in Requests, NEW align \in BOOLEAN,
           Fits(a, n, align)
    PROVE  /\ AllocPos(a, align) \in Nat
           /\ AllocPos(a, align) - HeaderSize - a \in Nat
           /\ \/ AllocPos(a, align) - HeaderSize - a = 0
              \/ META < AllocPos(a, align) - HeaderSize - a
           /\ AllocPos(a, align) + n + FooterSize <= After(mem.hdr, a)
           /\ align => AllocPos(a, align) % PageSize = 0
<1> DEFINE start == a + HeaderSize
           last == start + mem.hdr[a].size
<1>1. /\ a \in Nat /\ start \in Nat /\ n \in Nat \ {0}
      /\ mem.hdr[a].size \in Nat \ {0} /\ After(mem.hdr, a) = last + FooterSize
      /\ last \in Nat /\ last + FooterSize <= MaxAddress /\ start < MaxAddress
  <2>1. a \in Int /\ HeapStart <= a /\ After(mem.hdr, a) <= end /\ mem.hdr[a] \in BlockType
    BY WholeFacts
  <2>2. mem.hdr[a].size \in Nat \ {0}
    BY <2>1 DEF BlockType
  <2> QED
    BY <2>1, <2>2, TagAssumption, LayoutAssumption, RequestAssumption DEF After
<1>2. /\ HeaderSize \in Nat /\ FooterSize \in Nat /\ MaxAddress \in Nat
      /\ PageSize \in Nat /\ META < PageSize /\ WordSize \in Nat
      /\ MaxAddress + 2 * PageSize + n + META < WordSize
  BY TagAssumption, LayoutAssumption DEF RequestsFit
<1>3. CASE ~ align
  <2>1. AllocPos(a, align) = start /\ n <= mem.hdr[a].size
    BY <1>3 DEF AllocPos, Fits
  <2> QED
    BY <1>1, <1>2, <1>3, <2>1
<1>4. CASE align
  <2> DEFINE p == FirstCut(start)
             q == AlignToPage(start)
  <2>1. start + PageSize < WordSize
    BY <1>1, <1>2
  <2>2. q \in Nat /\ start <= q /\ q < start + PageSize /\ q % PageSize = 0
    BY <1>1, <2>1, AlignFacts
  <2>3. /\ p \in Nat /\ META < p - start /\ p <= q + PageSize
        /\ p % PageSize = 0
    <3>1. (q + PageSize) % PageSize = 0
      BY <1>2, <2>2, NextPage
    <3> HIDE DEF q
    <3> QED
      BY <1>1, <1>2, <2>2, <3>1 DEF FirstCut, q
  <2>4. AllocPos(a, align) = p /\ Add32(p, n) <= last
    BY <1>4 DEF AllocPos, Fits
  <2> HIDE DEF p, q
  <2>5. p + n <= last
    BY <1>1, <1>2, <2>2, <2>3, <2>4 DEF Add32
  <2>6. /\ p - HeaderSize - a \in Nat /\ META < p - HeaderSize - a
        /\ p + n + FooterSize <= After(mem.hdr, a)
    BY <1>1, <1>2, <2>3, <2>5
  <2> QED
    BY <2>3, <2>4, <2>6
<1> QED
  BY <1>3, <1>4

----------------------------------------------------------------------------
(* The inductive invariant.  Tiling alone is not inductive: Place trusts   *)
(* the index to list holes, kfree trusts its pointer to be a block that is *)
(* none, and both trust that no hole has a hole for a neighbour.           *)

NoAdj(m) == \A a \in HolesOf(m) : After(m.hdr, a) \notin HolesOf(m)

Owners(m, own) ==
    /\ DOMAIN own \subseteq Int
    /\ \A p \in DOMAIN own :
         /\ p - HeaderSize \in DOMAIN m.hdr \ HolesOf(m)
         /\ own[p].size \in Requests
         /\ own[p].size <= m.hdr[p - HeaderSize].size
         /\ own[p].align => p % PageSize = 0
    /\ \A a \in DOMAIN m.hdr \ HolesOf(m) : a + HeaderSize \in DOMAIN own

Good(m, idx, end, own) ==
    /\ Whole(m, end) /\ end \in Int /\ InitialEnd <= end /\ end <= MaxAddress
    /\ IndexWF(m, idx) /\ Items(idx) \subseteq HolesOf(m)
    /\ NoAdj(m)
    /\ Owners(m, own)

(* As long as the index is not full, every hole stays in it.  Not part of  *)
(* the invariant: safety does not need it.                                 *)
Complete(m, idx) == HolesOf(m) \subseteq Items(idx)
HasRoom(idx) == Len(idx) < IndexCapacity
StaysComplete(m, idx, m2, idx2) == Complete(m, idx) /\ HasRoom(idx) => Complete(m2, idx2)

HeapInv ==
    /\ Good(mem, index, end_address, ptrs)
    /\ size = end_address - HeapStart
    /\ req = NoRequest \/ (req.size \in Requests /\ req.align \in BOOLEAN)

LEMMA OwnersMove ==
    ASSUME NEW m, NEW n, NEW own, Owners(m, own),
           DOMAIN n.hdr \ HolesOf(n) = DOMAIN m.hdr \ HolesOf(m),
           \A a \in DOMAIN m.hdr \ HolesOf(m) : n.hdr[a] = m.hdr[a]
    PROVE  Owners(n, own)
BY DEF Owners

LEMMA GoodFacts ==
    ASSUME NEW m, NEW idx, NEW end, NEW own, Good(m, idx, end, own)
    PROVE  /\ end \in Int /\ HeapStart < end /\ HeapStart <= end
           /\ InitialEnd <= end /\ end <= MaxAddress
           /\ Whole(m, end)
           /\ \A c \in DOMAIN m.hdr : c \in Int /\ m.hdr[c].size \in Nat \ {0}
BY WholeFacts, LayoutAssumption, TagAssumption DEF Good, BlockType

(* Expand, when the last block is a hole *)
LEMMA GrowLastGood ==
    ASSUME NEW m, NEW idx, NEW end, NEW own, Good(m, idx, end, own),
           NEW last \in HolesOf(m), After(m.hdr, last) = end,
           NEW ext \in Nat \ {0}, end + ext <= MaxAddress,
           NEW n, n = MakeBlock(m, last, m.hdr[last].size + ext, IS_HOLE)
    PROVE  /\ Good(n, InsertHole(RemoveElement(idx, last), n, last), end + ext, own)
           /\ StaysComplete(m, idx, n, InsertHole(RemoveElement(idx, last), n, last))
           /\ \A c \in DOMAIN m.hdr \ HolesOf(m) : c \in DOMAIN n.hdr /\ n.hdr[c] = m.hdr[c]
<1> DEFINE others == RemoveElement(idx, last)
<1>1. /\ end \in Int /\ HeapStart <= end /\ Whole(m, end) /\ last \in DOMAIN m.hdr
      /\ InitialEnd <= end /\ end + ext \in Int /\ InitialEnd <= end + ext
  BY GoodFacts, LayoutAssumption DEF HolesOf
<1>2. /\ Whole(n, end + ext)
      /\ DOMAIN n.hdr = DOMAIN m.hdr
      /\ n.hdr[last] = [size |-> m.hdr[last].size + ext, is_hole |-> IS_HOLE]
      /\ \A c \in DOMAIN m.hdr \ {last} : n.hdr[c] = m.hdr[c]
  BY <1>1, GrowLast
<1>3. HolesOf(n) = HolesOf(m)
  BY <1>2 DEF HolesOf, IsHole
<1>4. NoAdj(n)
  <2> SUFFICES ASSUME NEW a \in HolesOf(n) PROVE After(n.hdr, a) \notin HolesOf(n)
    BY DEF NoAdj
  <2>1. CASE a = last
    <3>1. After(n.hdr, a) = end + ext
      <4>1. m.hdr[last].size \in Nat /\ last \in Int
        BY <1>1, GoodFacts
      <4>2. n.hdr[last].size = m.hdr[last].size + ext
        BY <1>2
      <4>3. end = last + m.hdr[last].size + META
        BY DEF After
      <4> HIDE DEF META
      <4>4. META \in Nat
        BY TagAssumption DEF META
      <4> QED
        BY <2>1, <1>1, <4>1, <4>2, <4>3, <4>4 DEF After
    <3>2. \A c \in DOMAIN m.hdr : c \in Int /\ c < end
      BY <1>1, WholeFacts, TagAssumption
    <3> QED
      BY <1>1, <1>2, <3>1, <3>2 DEF HolesOf
  <2>2. CASE a # last
    <3>1. After(n.hdr, a) = After(m.hdr, a)
      BY <2>2, <1>2 DEF After, HolesOf
    <3> QED
      BY <3>1, <1>3 DEF Good, NoAdj
  <2> QED
    BY <2>1, <2>2
<1>5. /\ IndexWF(m, others) /\ Items(others) = Items(idx) \ {last}
      /\ Items(idx) \subseteq HolesOf(m) /\ Len(others) <= Len(idx)
  BY IndexRemove DEF Good
<1>6. IndexWF(n, others)
  <2>1. \A x \in Items(others) : x \in DOMAIN n.hdr /\ n.hdr[x].size = m.hdr[x].size
    BY <1>2, <1>5 DEF HolesOf
  <2> QED
    BY <1>5, <2>1, IndexMove
<1>7. Indexed(n, others, InsertHole(others, n, last), last)
  <2>1. \A c \in Items(others) \cup {last} : n.hdr[c].size \in Int
    <3>1. \A c \in DOMAIN n.hdr : n.hdr[c].size \in Nat
      BY <1>1, <1>2, WholeFacts DEF BlockType
    <3> QED
      BY <1>1, <1>2, <1>5, <3>1 DEF HolesOf
  <2>2. last \in Int /\ last \in DOMAIN n.hdr /\ last \notin Items(others)
    BY <1>1, <1>2, <1>5, GoodFacts
  <2> QED
    BY <1>6, <2>1, <2>2, IndexInsert
<1>8. Owners(n, own)
  <2>1. \A a \in DOMAIN m.hdr \ HolesOf(m) : n.hdr[a] = m.hdr[a]
    BY <1>2
  <2> QED
    BY <1>2, <1>3, <2>1, OwnersMove DEF Good
<1>9. Items(InsertHole(others, n, last)) \subseteq HolesOf(n)
  BY <1>3, <1>5, <1>7 DEF Indexed
<1>10. StaysComplete(m, idx, n, InsertHole(others, n, last))
  <2>1. HasRoom(idx) => Len(others) < IndexCapacity
    BY <1>5, RequestAssumption DEF HasRoom, IndexWF, Good
  <2> QED
    BY <1>3, <1>5, <1>7, <2>1 DEF Indexed, StaysComplete, Complete
<1> QED
  BY <1>1, <1>2, <1>4, <1>7, <1>8, <1>9, <1>10 DEF Good, Indexed

(* Expand, when the last block is allocated *)
LEMMA AppendGood ==
    ASSUME NEW m, NEW idx, NEW end, NEW own, Good(m, idx, end, own),
           NEW last \in DOMAIN m.hdr \ HolesOf(m), After(m.hdr, last) = end,
           NEW ext \in Nat, META < ext, end + ext <= MaxAddress,
           NEW n, n = MakeBlock(m, end, ext - META, IS_HOLE)
    PROVE  /\ Good(n, InsertHole(idx, n, end), end + ext, own)
           /\ StaysComplete(m, idx, n, InsertHole(idx, n, end))
           /\ \A c \in DOMAIN m.hdr \ HolesOf(m) : c \in DOMAIN n.hdr /\ n.hdr[c] = m.hdr[c]
<1>1. /\ end \in Int /\ HeapStart <= end /\ Whole(m, end)
      /\ InitialEnd <= end /\ end + ext \in Int /\ InitialEnd <= end + ext
  BY GoodFacts, LayoutAssumption
<1>2. /\ Whole(n, end + ext)
      /\ end \notin DOMAIN m.hdr
      /\ DOMAIN n.hdr = DOMAIN m.hdr \cup {end}
      /\ n.hdr[end] = [size |-> ext - META, is_hole |-> IS_HOLE]
      /\ \A c \in DOMAIN m.hdr : n.hdr[c] = m.hdr[c]
  BY <1>1, AppendBlock
<1>3. HolesOf(n) = HolesOf(m) \cup {end}
  BY <1>2 DEF HolesOf, IsHole
<1>4. NoAdj(n)
  <2> SUFFICES ASSUME NEW a \in HolesOf(n) PROVE After(n.hdr, a) \notin HolesOf(n)
    BY DEF NoAdj
  <2>0. \A c \in DOMAIN m.hdr : /\ c \in Int /\ After(m.hdr, c) \in Int
                                /\ c < end /\ After(m.hdr, c) <= end
    BY <1>1, WholeFacts, TagAssumption
  <2>1. CASE a = end
    <3>1. After(n.hdr, a) = end + ext
      BY <2>1, <1>1, <1>2, TagAssumption DEF After
    <3> QED
      BY <1>1, <1>2, <1>3, <2>0, <3>1, TagAssumption DEF HolesOf
  <2>2. CASE a \in HolesOf(m)
    <3>1. After(n.hdr, a) = After(m.hdr, a) /\ a \in DOMAIN m.hdr
      BY <2>2, <1>2 DEF After, HolesOf
    <3>2. After(m.hdr, a) # end
      BY <1>1, <2>2, <3>1, AfterIsInjective
    <3> QED
      BY <2>2, <3>1, <3>2, <1>3 DEF Good, NoAdj
  <2> QED
    BY <2>1, <2>2, <1>3
<1>5. IndexWF(m, idx) /\ Items(idx) \subseteq HolesOf(m)
  BY DEF Good
<1>6. IndexWF(n, idx)
  <2>1. \A x \in Items(idx) : x \in DOMAIN n.hdr /\ n.hdr[x].size = m.hdr[x].size
    BY <1>2, <1>5 DEF HolesOf
  <2> QED
    BY <1>5, <2>1, IndexMove
<1>7. Indexed(n, idx, InsertHole(idx, n, end), end)
  <2>1. \A c \in Items(idx) \cup {end} : n.hdr[c].size \in Int
    <3>1. \A c \in DOMAIN n.hdr : n.hdr[c].size \in Nat
      BY <1>1, <1>2, WholeFacts DEF BlockType
    <3> QED
      BY <1>2, <1>5, <3>1 DEF HolesOf
  <2>2. end \in DOMAIN n.hdr /\ end \notin Items(idx)
    BY <1>2, <1>5 DEF HolesOf
  <2> QED
    BY <1>1, <1>6, <2>1, <2>2, IndexInsert
<1>8. Owners(n, own)
  <2>1. DOMAIN n.hdr \ HolesOf(n) = DOMAIN m.hdr \ HolesOf(m)
    BY <1>2, <1>3 DEF HolesOf
  <2>2. \A a \in DOMAIN m.hdr \ HolesOf(m) : n.hdr[a] = m.hdr[a]
    BY <1>2
  <2> QED
    BY <2>1, <2>2, OwnersMove DEF Good
<1>9. Items(InsertHole(idx, n, end)) \subseteq HolesOf(n)
  BY <1>3, <1>5, <1>7 DEF Indexed
<1>10. StaysComplete(m, idx, n, InsertHole(idx, n, end))
  BY <1>3, <1>7 DEF Indexed, StaysComplete, Complete, HasRoom
<1> QED
  BY <1>1, <1>2, <1>4, <1>7, <1>8, <1>9, <1>10 DEF Good, Indexed

(* Place: alloc cuts the hole a, which position i of the index lists, into *)
(* a hole of cut bytes (if any), the block of the new owner and a hole of  *)
(* what remains (if any).                                                  *)
Placement(m, idx, end, own, i, a, hi, cut, taken, rest, m1, m2, m3, i0, i1, i3,
          n, pos, align, own2) ==
    /\ Good(m, idx, end, own)
    /\ i \in 1..Len(idx) /\ a = idx[i] /\ hi = After(m.hdr, a)
    /\ cut \in Nat /\ (cut = 0 \/ META < cut)
    /\ taken \in Nat \ {0} /\ rest = a + cut + META + taken
    /\ rest = hi \/ rest + META < hi
    /\ m1 = IF cut > 0 THEN MakeBlock(m, a, cut - META, IS_HOLE) ELSE m
    /\ m2 = MakeBlock(m1, a + cut, taken, NOT_HOLE)
    /\ m3 = IF rest = hi THEN m2 ELSE MakeBlock(m2, rest, hi - rest - META, IS_HOLE)
    /\ i0 = RemoveAtPosition(idx, i)
    /\ i1 = IF cut > 0 THEN InsertHole(i0, m1, a) ELSE i0
    /\ i3 = IF rest = hi THEN i1 ELSE InsertHole(i1, m3, rest)
    /\ n \in Requests /\ n <= taken
    /\ pos = a + cut + HeaderSize
    /\ align \in BOOLEAN /\ (align => pos % PageSize = 0)
    /\ own2 = [p \in DOMAIN own \cup {pos} |->
                 IF p = pos THEN [size |-> n, align |-> align] ELSE own[p]]

LEMMA PlaceGood ==
    ASSUME NEW m, NEW idx, NEW end, NEW own, NEW i, NEW a, NEW hi, NEW cut, NEW taken,
           NEW rest, NEW m1, NEW m2, NEW m3, NEW i0, NEW i1, NEW i3, NEW n, NEW pos,
           NEW align, NEW own2,
           Placement(m, idx, end, own, i, a, hi, cut, taken, rest, m1, m2, m3,
                     i0, i1, i3, n, pos, align, own2)
    PROVE  /\ Good(m3, i3, end, own2)
           /\ StaysComplete(m, idx, m3, i3)
           /\ \A c \in DOMAIN m.hdr \ HolesOf(m) :
                c \in DOMAIN m3.hdr /\ m3.hdr[c] = m.hdr[c]
<1>hole. /\ Good(m, idx, end, own)
         /\ a = idx[i] /\ hi = After(m.hdr, a)
         /\ cut \in Nat /\ (cut = 0 \/ META < cut)
         /\ taken \in Nat \ {0} /\ rest = a + cut + META + taken
         /\ rest = hi \/ rest + META < hi
  BY DEF Placement
<1>tags. /\ m1 = IF cut > 0 THEN MakeBlock(m, a, cut - META, IS_HOLE) ELSE m
         /\ m2 = MakeBlock(m1, a + cut, taken, NOT_HOLE)
         /\ m3 = IF rest = hi THEN m2 ELSE MakeBlock(m2, rest, hi - rest - META, IS_HOLE)
  BY DEF Placement
<1>list. /\ i \in 1..Len(idx)
         /\ i0 = RemoveAtPosition(idx, i)
         /\ i1 = IF cut > 0 THEN InsertHole(i0, m1, a) ELSE i0
         /\ i3 = IF rest = hi THEN i1 ELSE InsertHole(i1, m3, rest)
  BY DEF Placement
<1>owner. /\ n \in Requests /\ n <= taken
          /\ pos = a + cut + HeaderSize
          /\ align \in BOOLEAN /\ (align => pos % PageSize = 0)
          /\ own2 = [p \in DOMAIN own \cup {pos} |->
                      IF p = pos THEN [size |-> n, align |-> align] ELSE own[p]]
  BY DEF Placement
<1>1. /\ end \in Int /\ HeapStart <= end /\ Whole(m, end)
      /\ \A c \in DOMAIN m.hdr : c \in Int /\ m.hdr[c].size \in Nat \ {0}
  BY <1>hole, GoodFacts
<1>2. /\ IndexWF(m, idx) /\ Items(idx) \subseteq HolesOf(m) /\ NoAdj(m) /\ Owners(m, own)
  BY <1>hole DEF Good
<1>3. a \in HolesOf(m) /\ a \in DOMAIN m.hdr /\ a \in Int
  <2>1. a \in Items(idx)
    BY <1>hole, <1>list DEF Items
  <2> QED
    BY <1>hole, <1>list, <1>1, <1>2, <2>1 DEF HolesOf
<1>4. /\ hi \in Int /\ a < hi /\ hi <= end /\ rest \in Int /\ a < rest /\ rest <= hi
      /\ hi = end \/ hi \in DOMAIN m.hdr
  <2>1. hi \in Int /\ a < hi /\ hi <= end
    BY <1>hole, <1>1, <1>3, WholeFacts, TagAssumption
  <2>2. hi = end \/ hi \in DOMAIN m.hdr
    BY <1>hole, <1>1, <1>3, RightNeighbour
  <2>3. rest \in Int /\ a < rest /\ rest <= hi
    BY <1>hole, <1>3, <2>1, TagAssumption
  <2> QED
    BY <1>hole, <2>1, <2>2, <2>3
<1>5. Taken(m, m1, m3, a, cut, taken, rest, hi, end)
  BY <1>hole, <1>tags, <1>1, <1>3, Take
<1>6. /\ Whole(m3, end)
      /\ \A c \in DOMAIN m.hdr \ {a} : /\ c \in DOMAIN m1.hdr /\ m1.hdr[c] = m.hdr[c]
                                       /\ c \in DOMAIN m3.hdr /\ m3.hdr[c] = m.hdr[c]
      /\ cut > 0 => /\ a \in DOMAIN m1.hdr /\ a \in DOMAIN m3.hdr
                    /\ m1.hdr[a] = [size |-> cut - META, is_hole |-> IS_HOLE]
                    /\ m3.hdr[a] = [size |-> cut - META, is_hole |-> IS_HOLE]
      /\ a + cut \in DOMAIN m3.hdr
      /\ m3.hdr[a + cut] = [size |-> taken, is_hole |-> NOT_HOLE]
      /\ rest < hi => /\ rest \in DOMAIN m3.hdr
                      /\ m3.hdr[rest] = [size |-> hi - rest - META, is_hole |-> IS_HOLE]
      /\ \A c \in DOMAIN m3.hdr : \/ c \in DOMAIN m.hdr \ {a}
                                  \/ c = a + cut
                                  \/ cut > 0 /\ c = a
                                  \/ rest < hi /\ c = rest
      /\ a + cut \notin DOMAIN m.hdr \ {a}
      /\ rest < hi => rest \notin DOMAIN m.hdr /\ rest # a
  BY <1>hole, <1>5 DEF Taken
<1>7. /\ HolesOf(m3) \subseteq (HolesOf(m) \ {a}) \cup {a, rest}
      /\ a \in HolesOf(m3) <=> cut > 0
      /\ rest \in HolesOf(m3) /\ rest \notin HolesOf(m) => rest < hi
      /\ HolesOf(m) \ {a} \subseteq HolesOf(m3)
      /\ rest < hi => rest \in HolesOf(m3)
      /\ a + cut \notin HolesOf(m3)
  <2>1. a + cut \notin HolesOf(m3)
    BY <1>hole, <1>6 DEF HolesOf, IsHole, IS_HOLE, NOT_HOLE
  <2>2. cut = 0 => a \notin HolesOf(m3)
    BY <1>hole, <1>3, <2>1
  <2>3. cut > 0 => a \in HolesOf(m3)
    BY <1>hole, <1>6 DEF HolesOf, IsHole
  <2>4. rest < hi => rest \in HolesOf(m3)
    BY <1>hole, <1>6 DEF HolesOf, IsHole
  <2>5. HolesOf(m) \ {a} \subseteq HolesOf(m3)
    BY <1>hole, <1>6 DEF HolesOf
  <2>6. ASSUME NEW c \in HolesOf(m3), c # a
        PROVE  c \in HolesOf(m) \/ (rest < hi /\ c = rest)
    BY <1>hole, <1>6, <2>1, <2>6 DEF HolesOf
  <2> QED
    BY <1>hole, <1>3, <1>4, <2>1, <2>2, <2>3, <2>4, <2>5, <2>6
<1>8. NoAdj(m3)
  <2> SUFFICES ASSUME NEW x \in HolesOf(m3), After(m3.hdr, x) \in HolesOf(m3) PROVE FALSE
    BY <1>hole DEF NoAdj
  <2>1. CASE x = a
    <3>1. cut > 0 /\ m3.hdr[a].size = cut - META
      BY <1>hole, <1>6, <1>7, <2>1
    <3>2. After(m3.hdr, x) = a + cut
      BY <1>hole, <1>3, <2>1, <3>1, TagAssumption DEF After
    <3> QED
      BY <1>hole, <1>7, <3>2
  <2>2. CASE x \in HolesOf(m) \ {a}
    <3> DEFINE y == After(m.hdr, x)
    <3>1. After(m3.hdr, x) = y
      BY <1>hole, <1>6, <2>2 DEF After, HolesOf
    <3>2. y \notin HolesOf(m)
      BY <1>hole, <1>2, <2>2 DEF NoAdj
    <3>3. y = end \/ y \in DOMAIN m.hdr
      BY <1>hole, <1>1, <2>2, RightNeighbour DEF HolesOf
    <3>4. y = rest /\ rest < hi
      BY <1>hole, <1>3, <1>7, <3>1, <3>2
    <3> HIDE DEF y
    <3> QED
      BY <1>hole, <1>1, <1>4, <1>6, <3>3, <3>4
  <2>3. CASE x = rest /\ rest < hi
    <3>1. After(m3.hdr, x) = hi
      <4>1. m3.hdr[rest].size = hi - rest - META
        BY <1>hole, <1>6, <2>3
      <4> QED
        BY <1>hole, <1>4, <2>3, <4>1, TagAssumption DEF After
    <3>2. hi \notin HolesOf(m)
      BY <1>hole, <1>2, <1>3 DEF NoAdj
    <3> QED
      BY <1>hole, <1>4, <1>7, <2>3, <3>1, <3>2
  <2> QED
    BY <1>hole, <1>7, <2>1, <2>2, <2>3
<1>9. /\ IndexWF(m, i0) /\ Items(i0) = Items(idx) \ {a} /\ Len(i0) = Len(idx) - 1
      /\ Items(i0) \subseteq DOMAIN m.hdr \ {a}
  <2>1. IndexWF(m, i0) /\ Items(i0) = Items(idx) \ {a} /\ Len(i0) = Len(idx) - 1
    BY <1>hole, <1>list, <1>2, IndexRemoveAt
  <2> QED
    BY <1>hole, <1>list, <1>2, <2>1 DEF HolesOf
<1>10. /\ IndexWF(m1, i1)
       /\ Items(i1) \subseteq (Items(idx) \ {a}) \cup (IF cut > 0 THEN {a} ELSE {})
       /\ Items(idx) \ {a} \subseteq Items(i1) /\ Len(i1) <= Len(idx)
       /\ cut > 0 => a \in Items(i1)
  <2>0. Len(idx) \in Nat /\ Len(idx) <= IndexCapacity /\ IndexCapacity \in Nat
    BY <1>2, RequestAssumption DEF IndexWF
  <2>1. CASE cut = 0
    <3>1. m1 = m /\ i1 = i0
      BY <1>hole, <1>tags, <1>list, <2>1
    <3> QED
      BY <1>hole, <1>list, <1>9, <2>0, <2>1, <3>1
  <2>2. CASE cut > 0
    <3>1. IndexWF(m1, i0)
      <4>1. \A x \in Items(i0) : x \in DOMAIN m1.hdr /\ m1.hdr[x].size = m.hdr[x].size
        BY <1>hole, <1>list, <1>6, <1>9
      <4> QED
        BY <1>hole, <1>list, <1>9, <4>1, IndexMove
    <3>2. \A c \in Items(i0) \cup {a} : m1.hdr[c].size \in Int
      <4>1. \A c \in Items(i0) : m1.hdr[c].size \in Int
        BY <1>hole, <1>list, <1>1, <1>6, <1>9
      <4>2. m1.hdr[a].size = cut - META
        BY <1>hole, <1>list, <1>6, <2>2
      <4> QED
        BY <1>hole, <1>list, <4>1, <4>2, TagAssumption
    <3>3. Indexed(m1, i0, InsertHole(i0, m1, a), a)
      BY <1>hole, <1>list, <1>3, <1>6, <1>9, <2>2, <3>1, <3>2, IndexInsert
    <3>4. i1 = InsertHole(i0, m1, a)
      BY <1>list, <2>2
    <3>5. Len(i0) < IndexCapacity /\ Len(i0) + 1 = Len(idx)
      BY <1>9, <2>0
    <3>6. Len(i1) <= Len(idx) /\ a \in Items(i1)
      BY <3>3, <3>4, <3>5 DEF Indexed
    <3> QED
      BY <1>hole, <1>list, <1>9, <2>2, <3>3, <3>4, <3>6 DEF Indexed
  <2> QED
    BY <1>hole, <1>list, <2>1, <2>2
<1>11. rest \notin Items(i1) \/ rest = hi
  <2>1. rest < hi => rest \notin Items(i1)
    BY <1>hole, <1>list, <1>2, <1>6, <1>10 DEF HolesOf
  <2> QED
    BY <1>hole, <1>list, <1>4, <2>1
<1>12. IndexWF(m3, i1)
  <2>1. \A x \in Items(i1) : x \in DOMAIN m3.hdr /\ m3.hdr[x].size = m1.hdr[x].size
    <3> SUFFICES ASSUME NEW x \in Items(i1)
                 PROVE  x \in DOMAIN m3.hdr /\ m3.hdr[x].size = m1.hdr[x].size
      OBVIOUS
    <3>1. x \in DOMAIN m.hdr \ {a} \/ (cut > 0 /\ x = a)
      BY <1>hole, <1>list, <1>2, <1>10 DEF HolesOf
    <3> QED
      BY <1>hole, <1>list, <1>6, <3>1
  <2> QED
    BY <1>hole, <1>list, <1>10, <2>1, IndexMove
<1>13. /\ IndexWF(m3, i3) /\ Items(i3) \subseteq HolesOf(m3)
       /\ Items(i1) \subseteq Items(i3)
       /\ HasRoom(idx) /\ rest < hi => rest \in Items(i3)
  <2>0. Items(i1) \subseteq HolesOf(m3)
    BY <1>hole, <1>list, <1>2, <1>7, <1>10
  <2>1. CASE rest = hi
    BY <1>hole, <1>list, <1>4, <1>12, <2>0, <2>1
  <2>2. CASE rest # hi
    <3>1. \A c \in Items(i1) \cup {rest} : m3.hdr[c].size \in Int
      <4>1. \A c \in DOMAIN m3.hdr : m3.hdr[c].size \in Int
        BY <1>hole, <1>list, <1>1, <1>6, WholeFacts DEF BlockType
      <4> QED
        BY <1>hole, <1>list, <1>4, <1>6, <2>0, <2>2, <4>1 DEF HolesOf
    <3>2. rest \in Int /\ rest \in DOMAIN m3.hdr /\ rest \notin Items(i1)
      BY <1>hole, <1>list, <1>4, <1>6, <1>11, <2>2
    <3>3. Indexed(m3, i1, i3, rest)
      BY <1>hole, <1>list, <1>12, <2>2, <3>1, <3>2, IndexInsert
    <3>4. rest \in HolesOf(m3)
      BY <1>hole, <1>list, <1>4, <1>7, <2>2
    <3>5. HasRoom(idx) => Len(i1) < IndexCapacity
      BY <1>2, <1>10, RequestAssumption DEF HasRoom, IndexWF
    <3> QED
      BY <1>hole, <1>list, <2>0, <3>3, <3>4, <3>5 DEF Indexed
  <2> QED
    BY <1>hole, <1>list, <2>1, <2>2
<1>14. DOMAIN m3.hdr \ HolesOf(m3) = (DOMAIN m.hdr \ HolesOf(m)) \cup {a + cut}
  <2>1. ASSUME NEW c \in DOMAIN m3.hdr \ HolesOf(m3), c # a + cut
        PROVE  c \in DOMAIN m.hdr \ HolesOf(m)
    <3>1. c # a /\ ~ (rest < hi /\ c = rest)
      BY <1>hole, <1>3, <1>7, <2>1
    <3>2. c \in DOMAIN m.hdr \ {a}
      BY <1>hole, <1>6, <2>1, <3>1
    <3> QED
      BY <1>hole, <1>7, <2>1, <3>2
  <2>2. ASSUME NEW c \in DOMAIN m.hdr \ HolesOf(m)
        PROVE  c \in DOMAIN m3.hdr \ HolesOf(m3)
    BY <1>hole, <1>3, <1>6 DEF HolesOf
  <2> QED
    BY <1>hole, <1>6, <1>7, <2>1, <2>2
<1>15. \A c \in DOMAIN m.hdr \ HolesOf(m) : c \in DOMAIN m3.hdr /\ m3.hdr[c] = m.hdr[c]
  BY <1>hole, <1>3, <1>6
<1>16. Owners(m3, own2)
  <2>1. pos \in Int /\ pos - HeaderSize = a + cut
    BY <1>hole, <1>owner, <1>3, TagAssumption
  <2>2. DOMAIN own2 = DOMAIN own \cup {pos}
    BY <1>owner
  <2>3. /\ own2[pos] = [size |-> n, align |-> align]
        /\ \A p \in DOMAIN own \ {pos} : own2[p] = own[p]
    BY <1>owner
  <2>4. ASSUME NEW p \in DOMAIN own2
        PROVE  /\ p - HeaderSize \in DOMAIN m3.hdr \ HolesOf(m3)
               /\ own2[p].size \in Requests
               /\ own2[p].size <= m3.hdr[p - HeaderSize].size
               /\ own2[p].align => p % PageSize = 0
    <3>1. CASE p = pos
      BY <1>owner, <3>1, <1>6, <1>14, <2>1, <2>3
    <3>2. CASE p # pos
      <4>1. /\ p - HeaderSize \in DOMAIN m.hdr \ HolesOf(m)
            /\ own[p].size \in Requests
            /\ own[p].size <= m.hdr[p - HeaderSize].size
            /\ own[p].align => p % PageSize = 0
        BY <1>owner, <3>2, <1>2, <2>2 DEF Owners
      <4> QED
        BY <1>owner, <3>2, <4>1, <1>14, <1>15, <2>2, <2>3
    <3> QED
      BY <1>owner, <3>1, <3>2
  <2>5. ASSUME NEW c \in DOMAIN m3.hdr \ HolesOf(m3) PROVE c + HeaderSize \in DOMAIN own2
    <3>1. CASE c = a + cut
      BY <1>owner, <3>1, <2>2
    <3>2. CASE c \in DOMAIN m.hdr \ HolesOf(m)
      BY <1>owner, <3>2, <1>2, <2>2 DEF Owners
    <3> QED
      BY <1>owner, <1>14, <3>1, <3>2
  <2>6. DOMAIN own2 \subseteq Int
    BY <1>owner, <1>2, <2>1, <2>2 DEF Owners
  <2> QED
    BY <1>owner, <2>4, <2>5, <2>6 DEF Owners
<1>17. StaysComplete(m, idx, m3, i3)
  <2> SUFFICES ASSUME Complete(m, idx), HasRoom(idx), NEW c \in HolesOf(m3)
               PROVE  c \in Items(i3)
    BY DEF StaysComplete, Complete
  <2>1. CASE c = a
    BY <1>7, <1>10, <1>13, <2>1 DEF Placement
  <2>2. CASE c \in HolesOf(m) \ {a}
    BY <1>10, <1>13, <2>2 DEF Complete
  <2>3. CASE c = rest /\ c \notin HolesOf(m)
    BY <1>7, <1>13, <2>3
  <2> QED
    BY <1>7, <2>1, <2>2, <2>3
<1> QED
  BY <1>hole, <1>1, <1>6, <1>8, <1>13, <1>15, <1>16, <1>17 DEF Good

(* kfree, first half: the block at h becomes a hole and takes in the hole  *)
(* to its right, if there is one.                                          *)
FreedRight(m, idx, end, h, m1, i1) ==
    /\ Whole(m1, end)
    /\ h \in DOMAIN m1.hdr /\ IsHole(m1.hdr[h])
    /\ After(m1.hdr, h) \in Int /\ After(m1.hdr, h) \notin HolesOf(m) \cup {h}
    /\ DOMAIN m1.hdr = DOMAIN m.hdr \ (HolesOf(m) \cap {After(m.hdr, h)})
    /\ \A c \in DOMAIN m1.hdr \ {h} : m1.hdr[c] = m.hdr[c]
    /\ IndexWF(m1, i1)
    /\ Items(i1) \subseteq HolesOf(m) \cap DOMAIN m1.hdr
    /\ Items(idx) \cap DOMAIN m1.hdr \subseteq Items(i1) /\ Len(i1) <= Len(idx)

LEMMA FreeRight ==
    ASSUME NEW m, NEW idx, NEW end, NEW own, Good(m, idx, end, own),
           NEW h \in DOMAIN m.hdr \ HolesOf(m),
           NEW next, next = After(m.hdr, h),
           NEW m1, m1 = IF next \in HolesOf(m)
                        THEN MakeBlock(MarkHole(m, h), h,
                               m.hdr[h].size + (m.hdr[next].size + META), IS_HOLE)
                        ELSE MarkHole(m, h),
           NEW i1, i1 = IF next \in HolesOf(m) THEN RemoveElement(idx, next) ELSE idx
    PROVE  FreedRight(m, idx, end, h, m1, i1)
<1> DEFINE f == MarkHole(m, h)
<1>1. /\ end \in Int /\ HeapStart <= end /\ Whole(m, end)
      /\ \A c \in DOMAIN m.hdr : c \in Int /\ m.hdr[c].size \in Nat \ {0}
  BY GoodFacts
<1>2. /\ IndexWF(m, idx) /\ Items(idx) \subseteq HolesOf(m) /\ NoAdj(m)
      /\ HolesOf(m) \subseteq DOMAIN m.hdr
  BY DEF Good, HolesOf
<1>3. /\ Whole(f, end) /\ DOMAIN f.hdr = DOMAIN m.hdr
      /\ f.hdr[h] = [size |-> m.hdr[h].size, is_hole |-> IS_HOLE]
      /\ \A c \in DOMAIN m.hdr \ {h} : f.hdr[c] = m.hdr[c]
      /\ \A c \in DOMAIN m.hdr : After(f.hdr, c) = After(m.hdr, c)
  BY <1>1, Mark
<1>4. h \in Int /\ next \in Int /\ h < next
  BY <1>1, WholeFacts, TagAssumption
<1>5. CASE next \notin HolesOf(m)
  <2>1. m1 = f /\ i1 = idx
    BY <1>5
  <2>2. \A x \in Items(idx) : x \in DOMAIN f.hdr /\ f.hdr[x].size = m.hdr[x].size
    BY <1>2, <1>3
  <2>3. IndexWF(f, idx)
    BY <1>2, <2>2, IndexMove
  <2>4. DOMAIN m.hdr = DOMAIN m.hdr \ (HolesOf(m) \cap {next})
    BY <1>5
  <2>5. next \notin HolesOf(m) \cup {h}
    BY <1>4, <1>5
  <2>6. Len(i1) <= Len(idx)
    BY <1>2, <2>1 DEF IndexWF
  <2> QED
    BY <1>2, <1>3, <1>4, <2>1, <2>3, <2>4, <2>5, <2>6 DEF FreedRight, IsHole
<1>6. CASE next \in HolesOf(m)
  <2> DEFINE sz == m.hdr[h].size + m.hdr[next].size + META
  <2>1. next \in DOMAIN m.hdr /\ next # h
    BY <1>2, <1>4, <1>6
  <2>2. m1 = MakeBlock(f, h, sz, IS_HOLE) /\ i1 = RemoveElement(idx, next)
    <3>1. m.hdr[h].size + (m.hdr[next].size + META) = sz
      BY <1>1, <2>1, TagAssumption
    <3> QED
      BY <1>6, <3>1
  <2>3. f.hdr[h].size = m.hdr[h].size /\ f.hdr[next].size = m.hdr[next].size
    BY <1>3, <2>1
  <2>4. /\ Whole(m1, end)
        /\ DOMAIN m1.hdr = DOMAIN f.hdr \ {next}
        /\ m1.hdr[h] = [size |-> sz, is_hole |-> IS_HOLE]
        /\ \A c \in DOMAIN f.hdr \ {h, next} : m1.hdr[c] = f.hdr[c]
        /\ After(m1.hdr, h) = After(f.hdr, next)
    <3>1. h \in DOMAIN f.hdr /\ next \in DOMAIN f.hdr /\ After(f.hdr, h) = next
      BY <1>3, <2>1
    <3> QED
      <4> DEFINE sum == f.hdr[h].size + f.hdr[next].size + META
                 new == MakeBlock(f, h, sum, IS_HOLE)
      <4>1. /\ Whole(new, end)
            /\ DOMAIN new.hdr = DOMAIN f.hdr \ {next}
            /\ new.hdr[h] = [size |-> sum, is_hole |-> IS_HOLE]
            /\ \A c \in DOMAIN f.hdr \ {h, next} : new.hdr[c] = f.hdr[c]
            /\ After(new.hdr, h) = After(f.hdr, next)
        BY <1>1, <1>3, <3>1, Merge
      <4>2. sum = sz /\ new = m1
        BY <2>2, <2>3
      <4> HIDE DEF sum, new, sz
      <4> QED
        BY <4>1, <4>2
  <2> HIDE DEF sz
  <2>5. After(m1.hdr, h) = After(m.hdr, next)
    BY <1>3, <2>1, <2>4
  <2>6. After(m1.hdr, h) \in Int /\ After(m1.hdr, h) \notin HolesOf(m) \cup {h}
    <3>1. After(m.hdr, next) \in Int /\ next < After(m.hdr, next)
      BY <1>1, <2>1, WholeFacts, TagAssumption
    <3>2. After(m.hdr, next) \notin HolesOf(m)
      BY <1>2, <1>6 DEF NoAdj
    <3> QED
      BY <1>4, <2>5, <3>1, <3>2
  <2>7. IndexWF(m, i1) /\ Items(i1) = Items(idx) \ {next} /\ Len(i1) <= Len(idx)
    BY <1>2, <2>2, IndexRemove
  <2>8. \A x \in Items(i1) : x \in DOMAIN m1.hdr /\ m1.hdr[x].size = m.hdr[x].size
    BY <1>2, <1>3, <2>4, <2>7
  <2>9. IndexWF(m1, i1)
    BY <2>7, <2>8, IndexMove
  <2>10. HolesOf(m) \cap {next} = {next}
    BY <1>6
  <2>11. \A c \in DOMAIN m1.hdr \ {h} : m1.hdr[c] = m.hdr[c]
    BY <1>3, <2>4
  <2>12. DOMAIN m1.hdr = DOMAIN m.hdr \ (HolesOf(m) \cap {After(m.hdr, h)})
    BY <1>3, <2>4, <2>10
  <2>13. h \in DOMAIN m1.hdr /\ IsHole(m1.hdr[h])
    BY <1>3, <2>1, <2>4 DEF IsHole
  <2>14. Items(i1) \subseteq HolesOf(m) \cap DOMAIN m1.hdr
    BY <1>2, <2>7, <2>8
  <2>15. Items(idx) \cap DOMAIN m1.hdr \subseteq Items(i1)
    BY <2>4, <2>7
  <2> QED
    BY <2>4, <2>6, <2>7, <2>9, <2>11, <2>12, <2>13, <2>14, <2>15 DEF FreedRight
<1> QED
  BY <1>5, <1>6

(* kfree, second half: the hole at h goes into the hole to its left, if    *)
(* there is one, and what results into the index.                          *)
LEMMA FreeLeft ==
    ASSUME NEW m, NEW idx, NEW end, NEW own, Good(m, idx, end, own),
           NEW p \in DOMAIN own, NEW h, h = p - HeaderSize,
           NEW m1, NEW i1, FreedRight(m, idx, end, h, m1, i1),
           NEW m2, NEW i2, NEW hole,
           \/ /\ \A c \in HolesOf(m) : After(m.hdr, c) # h
              /\ m2 = m1 /\ i2 = i1 /\ hole = h
           \/ /\ hole \in HolesOf(m) /\ After(m.hdr, hole) = h
              /\ m2 = MakeBlock(m1, hole,
                        m1.hdr[hole].size + (m1.hdr[h].size + META), IS_HOLE)
              /\ i2 = RemoveElement(i1, hole),
           NEW own2, own2 = [q \in DOMAIN own \ {p} |-> own[q]]
    PROVE  /\ Good(m2, InsertHole(i2, m2, hole), end, own2)
           /\ StaysComplete(m, idx, m2, InsertHole(i2, m2, hole))
           /\ \A c \in DOMAIN m.hdr \ (HolesOf(m) \cup {h}) :
                c \in DOMAIN m2.hdr /\ m2.hdr[c] = m.hdr[c]
<1>1. /\ end \in Int /\ HeapStart <= end /\ Whole(m, end)
      /\ \A c \in DOMAIN m.hdr : c \in Int /\ m.hdr[c].size \in Nat \ {0}
  BY GoodFacts
<1>2. /\ IndexWF(m, idx) /\ Items(idx) \subseteq HolesOf(m) /\ NoAdj(m) /\ Owners(m, own)
      /\ HolesOf(m) \subseteq DOMAIN m.hdr
  BY DEF Good, HolesOf
<1>3. /\ Whole(m1, end)
      /\ h \in DOMAIN m1.hdr /\ IsHole(m1.hdr[h])
      /\ After(m1.hdr, h) \in Int /\ After(m1.hdr, h) \notin HolesOf(m) \cup {h}
      /\ DOMAIN m1.hdr = DOMAIN m.hdr \ (HolesOf(m) \cap {After(m.hdr, h)})
      /\ \A c \in DOMAIN m1.hdr \ {h} : m1.hdr[c] = m.hdr[c]
      /\ IndexWF(m1, i1)
      /\ Items(i1) \subseteq HolesOf(m) \cap DOMAIN m1.hdr
      /\ Items(idx) \cap DOMAIN m1.hdr \subseteq Items(i1) /\ Len(i1) <= Len(idx)
  BY DEF FreedRight
<1>4. h \in DOMAIN m.hdr \ HolesOf(m) /\ p \in Int /\ h \in Int /\ p = h + HeaderSize
  BY <1>2, TagAssumption DEF Owners
(* what both cases establish *)
<1>5. /\ Whole(m2, end)
      /\ hole \in DOMAIN m2.hdr /\ IsHole(m2.hdr[hole]) /\ hole \in Int
      /\ After(m2.hdr, hole) = After(m1.hdr, h) /\ After(m2.hdr, hole) # hole
      /\ DOMAIN m2.hdr \subseteq DOMAIN m1.hdr
      /\ h \in DOMAIN m2.hdr => h = hole
      /\ DOMAIN m1.hdr \ {h} \subseteq DOMAIN m2.hdr
      /\ \A c \in DOMAIN m2.hdr \ {hole} : m2.hdr[c] = m.hdr[c]
      /\ hole = h \/ hole \in HolesOf(m)
      /\ \A c \in HolesOf(m) : After(m.hdr, c) # hole
      /\ IndexWF(m2, i2) /\ hole \notin Items(i2)
      /\ Items(i2) \subseteq HolesOf(m) \cap (DOMAIN m2.hdr \ {hole})
      /\ Items(i1) \ {hole} \subseteq Items(i2) /\ Len(i2) <= Len(i1)
  <2>1. CASE /\ \A c \in HolesOf(m) : After(m.hdr, c) # h
             /\ m2 = m1 /\ i2 = i1 /\ hole = h
    <3>1. Len(i2) <= Len(i1)
      BY <2>1, <1>3 DEF IndexWF
    <3> QED
      BY <2>1, <1>3, <1>4, <3>1
  <2>2. CASE /\ hole \in HolesOf(m) /\ After(m.hdr, hole) = h
             /\ m2 = MakeBlock(m1, hole,
                       m1.hdr[hole].size + (m1.hdr[h].size + META), IS_HOLE)
             /\ i2 = RemoveElement(i1, hole)
    <3> DEFINE sz == m1.hdr[hole].size + m1.hdr[h].size + META
    <3>1. hole \in DOMAIN m.hdr /\ hole # h /\ hole \in Int /\ hole < h
      BY <1>1, <1>2, <1>4, <2>2, WholeFacts, TagAssumption
    <3>2. hole \in DOMAIN m1.hdr
      <4>1. After(m.hdr, h) # hole
        BY <1>1, <1>4, <3>1, WholeFacts, TagAssumption
      <4> QED
        BY <1>3, <3>1, <4>1
    <3>3. m1.hdr[hole] = m.hdr[hole] /\ After(m1.hdr, hole) = h
      BY <1>3, <2>2, <3>1, <3>2 DEF After
    <3>4. m2 = MakeBlock(m1, hole, sz, IS_HOLE)
      <4>1. m1.hdr[hole].size \in Int /\ m1.hdr[h].size \in Int
        BY <1>1, <1>3, <3>2, WholeFacts DEF BlockType
      <4>2. m1.hdr[hole].size + (m1.hdr[h].size + META) = sz
        BY <4>1, TagAssumption
      <4> QED
        BY <2>2, <4>2
    <3>5. /\ Whole(m2, end)
          /\ DOMAIN m2.hdr = DOMAIN m1.hdr \ {h}
          /\ m2.hdr[hole] = [size |-> sz, is_hole |-> IS_HOLE]
          /\ \A c \in DOMAIN m1.hdr \ {hole, h} : m2.hdr[c] = m1.hdr[c]
          /\ After(m2.hdr, hole) = After(m1.hdr, h)
      <4> DEFINE sum == m1.hdr[hole].size + m1.hdr[h].size + META
                 new == MakeBlock(m1, hole, sum, IS_HOLE)
      <4>1. h \in DOMAIN m1.hdr
        BY <1>3
      <4>2. /\ Whole(new, end)
            /\ DOMAIN new.hdr = DOMAIN m1.hdr \ {h}
            /\ new.hdr[hole] = [size |-> sum, is_hole |-> IS_HOLE]
            /\ \A c \in DOMAIN m1.hdr \ {hole, h} : new.hdr[c] = m1.hdr[c]
            /\ After(new.hdr, hole) = After(m1.hdr, h)
        BY <1>1, <1>3, <3>2, <3>3, <4>1, Merge
      <4>3. sum = sz /\ new = m2
        BY <3>4
      <4> HIDE DEF sum, new, sz
      <4> QED
        BY <4>2, <4>3
    <3> HIDE DEF sz
    <3>6. IndexWF(m1, i2) /\ Items(i2) = Items(i1) \ {hole} /\ Len(i2) <= Len(i1)
      BY <1>3, <2>2, IndexRemove
    <3>7. \A x \in Items(i2) : x \in DOMAIN m2.hdr /\ m2.hdr[x].size = m1.hdr[x].size
      BY <1>3, <1>4, <3>5, <3>6
    <3>8. IndexWF(m2, i2)
      BY <3>6, <3>7, IndexMove
    <3>9. \A c \in HolesOf(m) : After(m.hdr, c) # hole
      BY <1>2, <2>2 DEF NoAdj
    <3>10. \A c \in DOMAIN m2.hdr \ {hole} : m2.hdr[c] = m.hdr[c]
      BY <1>3, <3>5
    <3>11. After(m2.hdr, hole) # hole
      BY <1>3, <2>2, <3>5
    <3>12. IsHole(m2.hdr[hole])
      BY <3>5 DEF IsHole
    <3>13. hole \in DOMAIN m2.hdr /\ h \notin DOMAIN m2.hdr
           /\ DOMAIN m2.hdr \subseteq DOMAIN m1.hdr /\ DOMAIN m1.hdr \ {h} \subseteq DOMAIN m2.hdr
      BY <3>1, <3>2, <3>5
    <3>14. hole \notin Items(i2) /\ Items(i2) \subseteq HolesOf(m) \cap (DOMAIN m2.hdr \ {hole})
      BY <1>3, <3>6, <3>7
    <3> QED
      BY <2>2, <3>1, <3>5, <3>6, <3>8, <3>9, <3>10, <3>11, <3>12, <3>13, <3>14
  <2> QED
    BY <2>1, <2>2
<1>6. /\ HolesOf(m2) \subseteq HolesOf(m) \cup {hole}
      /\ HolesOf(m) \cap DOMAIN m2.hdr \subseteq HolesOf(m2)
      /\ hole \in HolesOf(m2)
  <2>1. hole \in HolesOf(m2)
    BY <1>5 DEF HolesOf
  <2>2. ASSUME NEW c \in DOMAIN m2.hdr, c # hole
        PROVE  c \in HolesOf(m2) <=> c \in HolesOf(m)
    <3>1. m2.hdr[c] = m.hdr[c] /\ c \in DOMAIN m.hdr
      BY <1>3, <1>5, <2>2
    <3> QED
      BY <3>1 DEF HolesOf
  <2>3. HolesOf(m2) \subseteq DOMAIN m2.hdr
    BY DEF HolesOf
  <2> QED
    BY <2>1, <2>2, <2>3
<1>7. NoAdj(m2)
  <2> SUFFICES ASSUME NEW x \in HolesOf(m2) PROVE After(m2.hdr, x) \notin HolesOf(m2)
    BY DEF NoAdj
  <2>1. CASE x = hole
    BY <2>1, <1>3, <1>5, <1>6
  <2>2. CASE x # hole
    <3>1. x \in HolesOf(m) /\ After(m2.hdr, x) = After(m.hdr, x)
      BY <2>2, <1>5, <1>6 DEF After, HolesOf
    <3>2. After(m.hdr, x) \notin HolesOf(m) \cup {hole}
      BY <3>1, <1>2, <1>5 DEF NoAdj
    <3> QED
      BY <1>6, <3>1, <3>2
  <2> QED
    BY <2>1, <2>2
<1>8. Indexed(m2, i2, InsertHole(i2, m2, hole), hole)
  <2>1. \A c \in DOMAIN m2.hdr : m2.hdr[c].size \in Int
    BY <1>1, <1>5, WholeFacts DEF BlockType
  <2>2. \A c \in Items(i2) \cup {hole} : m2.hdr[c].size \in Int
    BY <1>5, <2>1
  <2> QED
    BY <1>5, <2>2, IndexInsert
<1>9. Items(InsertHole(i2, m2, hole)) \subseteq HolesOf(m2)
  BY <1>5, <1>6, <1>8 DEF Indexed
<1>10. \A c \in DOMAIN m.hdr \ (HolesOf(m) \cup {h}) :
         c \in DOMAIN m2.hdr \ {hole} /\ m2.hdr[c] = m.hdr[c]
  BY <1>3, <1>4, <1>5
<1>11. DOMAIN m2.hdr \ HolesOf(m2) = DOMAIN m.hdr \ (HolesOf(m) \cup {h})
  <2>1. ASSUME NEW c \in DOMAIN m2.hdr \ HolesOf(m2)
        PROVE  c \in DOMAIN m.hdr \ (HolesOf(m) \cup {h})
    BY <1>3, <1>5, <1>6
  <2>2. ASSUME NEW c \in DOMAIN m.hdr \ (HolesOf(m) \cup {h})
        PROVE  c \in DOMAIN m2.hdr \ HolesOf(m2)
    BY <1>6, <1>10
  <2> QED
    BY <2>1, <2>2
<1>12. Owners(m2, own2)
  <2>1. DOMAIN own2 = DOMAIN own \ {p} /\ \A q \in DOMAIN own2 : own2[q] = own[q]
    OBVIOUS
  <2>2. ASSUME NEW q \in DOMAIN own2
        PROVE  /\ q - HeaderSize \in DOMAIN m2.hdr \ HolesOf(m2)
               /\ own2[q].size \in Requests
               /\ own2[q].size <= m2.hdr[q - HeaderSize].size
               /\ own2[q].align => q % PageSize = 0
    <3>1. /\ q \in Int
          /\ q - HeaderSize \in DOMAIN m.hdr \ HolesOf(m)
          /\ own[q].size \in Requests
          /\ own[q].size <= m.hdr[q - HeaderSize].size
          /\ own[q].align => q % PageSize = 0
      BY <1>2, <2>1 DEF Owners
    <3>2. q - HeaderSize # h
      BY <1>4, <2>1, <3>1, TagAssumption
    <3>3. /\ q - HeaderSize \in DOMAIN m2.hdr \ HolesOf(m2)
          /\ m2.hdr[q - HeaderSize] = m.hdr[q - HeaderSize]
      BY <1>10, <1>11, <3>1, <3>2
    <3> QED
      BY <2>1, <3>1, <3>3
  <2>3. ASSUME NEW c \in DOMAIN m2.hdr \ HolesOf(m2) PROVE c + HeaderSize \in DOMAIN own2
    <3>1. c \in DOMAIN m.hdr \ HolesOf(m) /\ c # h /\ c \in Int
      BY <1>1, <1>11
    <3>2. c + HeaderSize \in DOMAIN own /\ c + HeaderSize # p
      BY <1>2, <1>4, <3>1, TagAssumption DEF Owners
    <3> QED
      BY <2>1, <3>2
  <2>4. DOMAIN own2 \subseteq Int
    BY <1>2, <2>1 DEF Owners
  <2> QED
    BY <2>2, <2>3, <2>4 DEF Owners
<1>13. StaysComplete(m, idx, m2, InsertHole(i2, m2, hole))
  <2> SUFFICES ASSUME Complete(m, idx), HasRoom(idx), NEW c \in HolesOf(m2)
               PROVE  c \in Items(InsertHole(i2, m2, hole))
    BY DEF StaysComplete, Complete
  <2>1. Len(i2) < IndexCapacity
    BY <1>2, <1>3, <1>5, RequestAssumption DEF HasRoom, IndexWF
  <2>2. CASE c = hole
    BY <1>8, <2>1, <2>2 DEF Indexed
  <2>3. CASE c # hole
    <3>1. c \in Items(idx) /\ c \in DOMAIN m1.hdr
      BY <1>5, <1>6, <2>3 DEF Complete, HolesOf
    <3> QED
      BY <1>3, <1>5, <1>8, <2>3, <3>1 DEF Indexed
  <2> QED
    BY <2>2, <2>3
<1> QED
  BY <1>1, <1>5, <1>7, <1>8, <1>9, <1>10, <1>12, <1>13 DEF Good, Indexed

----------------------------------------------------------------------------
(* The steps of the heap *)

(* Sums that stay inside the heap do not wrap around. *)
LEMMA NoWrap ==
    ASSUME NEW x \in Nat, NEW y \in Nat, x + y <= MaxAddress
    PROVE  Add32(x, y) = x + y
BY LayoutAssumption DEF Add32

(* What a read of a tag gives in a heap without a gap. *)
LEMMA ReadHeader ==
    ASSUME RequestsFit, end_address \in Int, NEW m, NEW a,
           a \in DOMAIN m.hdr \/ a = end_address,
           NEW block \in HeaderAt(m, a)
    PROVE  /\ a \in DOMAIN m.hdr => block = m.hdr[a]
           /\ a \notin DOMAIN m.hdr => block = NoMagic /\ ~ IsHole(block)
<1>1. CASE a \in DOMAIN m.hdr
  BY <1>1 DEF HeaderAt
<1>2. CASE a \notin DOMAIN m.hdr
  <2>1. ~ Readable(a)
    BY <1>2, LayoutAssumption DEF RequestsFit, Readable, InHeap
  <2> QED
    BY <1>2, <2>1 DEF HeaderAt, NoMagic, IsHole, IS_HOLE, NOT_HOLE
<1> QED
  BY <1>1, <1>2

LEMMA ReadLeft ==
    ASSUME RequestsFit, NEW m, NEW end \in Int, Whole(m, end),
           NEW x \in DOMAIN m.hdr \cup {end}, HeapStart < end,
           NEW left \in FooterAt(m, x - FooterSize),
           NEW block \in HeaderBehind(m, left)
    PROVE  \/ x = HeapStart /\ ~ IsHole(block)
           \/ left \in DOMAIN m.hdr /\ After(m.hdr, left) = x /\ block = m.hdr[left]
<1>1. x \in Int /\ HeapStart <= x
  BY WholeFacts, LayoutAssumption
<1>2. CASE x = HeapStart
  <2>1. x - FooterSize \notin DOMAIN m.ftr
    <3> SUFFICES ASSUME x - FooterSize \in DOMAIN m.ftr PROVE FALSE
      OBVIOUS
    <3>1. PICK b \in DOMAIN m.hdr : After(m.hdr, b) = x
      BY <1>1, FooterBefore
    <3> QED
      BY <1>2, <3>1, WholeFacts, TagAssumption, LayoutAssumption
  <2>2. ~ Readable(x - FooterSize)
    BY <1>2, TagAssumption, LayoutAssumption DEF RequestsFit, Readable, InHeap
  <2>3. left = NoFooter
    BY <2>1, <2>2 DEF FooterAt
  <2> QED
    BY <1>2, <2>3 DEF HeaderBehind, NoMagic, IsHole, IS_HOLE, NOT_HOLE
<1>3. CASE x # HeapStart
  <2>1. PICK b \in DOMAIN m.hdr : After(m.hdr, b) = x
    BY <1>1, <1>3, LeftNeighbour, LayoutAssumption
  <2>2. /\ x - FooterSize \in DOMAIN m.ftr /\ m.ftr[x - FooterSize] = b
        /\ HeapStart <= b /\ b \in Int
    BY <2>1, WholeFacts
  <2>3. left = b
    BY <2>2 DEF FooterAt
  <2>4. left # NoFooter
    BY <2>2, <2>3, LayoutAssumption DEF NoFooter
  <2> QED
    BY <2>1, <2>3, <2>4 DEF HeaderBehind, HeaderAt
<1> QED
  BY <1>2, <1>3

HeldStay ==
    \A p \in DOMAIN ptrs \cap DOMAIN ptrs' :
        p - HeaderSize \in DOMAIN mem'.hdr
        /\ mem'.hdr[p - HeaderSize] = mem.hdr[p - HeaderSize]

(* No hole drops out of the index; with all of them in it, no assertion    *)
(* fails but the one on the address space.                                 *)
IndexFollows == StaysComplete(mem, index, mem', index')
GoesOn == Complete(mem, index) => panic' \in {panic, "new_end <= max_address"}

LEMMA StutterStep ==
    ASSUME HeapInv, UNCHANGED <<mem, index, end_address, size, ptrs>>,
           req' = req \/ (req'.size \in Requests /\ req'.align \in BOOLEAN)
    PROVE  HeapInv' /\ HeldStay /\ IndexFollows
<1>1. HeapInv'
  BY DEF HeapInv
<1>2. HeldStay
  BY DEF HeldStay, HeapInv, Good, Owners
<1>3. IndexFollows
  BY DEF IndexFollows, StaysComplete
<1> QED
  BY <1>1, <1>2, <1>3

LEMMA KfreeStep ==
    ASSUME RequestsFit, HeapInv, NEW p \in DOMAIN ptrs, Kfree(p)
    PROVE  /\ HeapInv' /\ HeldStay /\ IndexFollows /\ GoesOn
           /\ UNCHANGED <<req, end_address>>
<1> DEFINE h == p - HeaderSize
           next == After(mem.hdr, h)
           freed == MarkHole(mem, h)
           both == mem.hdr[h].size + (mem.hdr[next].size + META)
           m1 == IF next \in HolesOf(mem) THEN MakeBlock(freed, h, both, IS_HOLE)
                                          ELSE freed
           i1 == IF next \in HolesOf(mem) THEN RemoveElement(index, next) ELSE index
           R1(r) == IF IsHole(r)
                    THEN MakeBlock(freed, h,
                           Joined(mem.hdr[h].size, r.size), IS_HOLE)
                    ELSE freed
           J1(r) == IF IsHole(r) THEN RemoveElement(index, next) ELSE index
           M2(m, l, b) == IF IsHole(b)
                          THEN MakeBlock(m, l,
                                 Joined(b.size, m.hdr[h].size), IS_HOLE)
                          ELSE m
           I2(i, l, b) == IF IsHole(b) THEN RemoveElement(i, l) ELSE i
           Hole(l, b) == IF IsHole(b) THEN l ELSE h
           Stopped(r, i, l, b) ==
             /\ UNCHANGED <<mem, index, end_address, size, ptrs, req>>
             /\ \/ next - FooterSize \notin DOMAIN mem.ftr
                \/ IsHole(r) /\ next \notin Items(index)
                \/ IsHole(b) /\ l \notin Items(i)
           Done(m, i, l, b) ==
             /\ mem' = M2(m, l, b)
             /\ index' = InsertHole(I2(i, l, b), M2(m, l, b), Hole(l, b))
             /\ ptrs' = [q \in DOMAIN ptrs \ {p} |-> ptrs[q]]
             /\ UNCHANGED <<end_address, size, req, panic>>
           Freed(r, m, i, l, b) == Stopped(r, i, l, b) \/ Done(m, i, l, b)
<1>1. /\ Good(mem, index, end_address, ptrs) /\ size = end_address - HeapStart
      /\ req = NoRequest \/ (req.size \in Requests /\ req.align \in BOOLEAN)
  BY DEF HeapInv
<1>2. /\ end_address \in Int /\ HeapStart < end_address /\ end_address <= MaxAddress
      /\ Whole(mem, end_address)
      /\ \A c \in DOMAIN mem.hdr : c \in Int /\ mem.hdr[c].size \in Nat \ {0}
  BY <1>1, GoodFacts
<1>3. h \in DOMAIN mem.hdr \ HolesOf(mem)
  BY <1>1 DEF Good, Owners
<1>4. next \in Int /\ h < next /\ (next = end_address \/ next \in DOMAIN mem.hdr)
  BY <1>2, <1>3, WholeFacts, RightNeighbour, TagAssumption
<1>5. /\ DOMAIN freed.hdr = DOMAIN mem.hdr
      /\ \A c \in DOMAIN mem.hdr \ {h} : freed.hdr[c] = mem.hdr[c]
  BY <1>2, <1>3, Mark
<1>6. PICK right \in HeaderAt(freed, next) :
        \E left \in FooterAt(R1(right), h - FooterSize) :
          \E block \in HeaderBehind(R1(right), left) :
            Freed(right, R1(right), J1(right), left, block)
  <2> DEFINE Try(r, m, i, l, b) ==
               IF next - FooterSize \notin DOMAIN mem.ftr
               THEN Panic("footer->magic")
               ELSE IF IsHole(r) /\ next \notin Items(index)
               THEN Panic("right hole is indexed")
               ELSE IF IsHole(b) /\ l \notin Items(i)
               THEN Panic("left hole is indexed")
               ELSE /\ mem' = M2(m, l, b)
                    /\ index' = InsertHole(I2(i, l, b), M2(m, l, b), Hole(l, b))
                    /\ ptrs' = [q \in DOMAIN ptrs \ {p} |-> ptrs[q]]
                    /\ UNCHANGED <<end_address, size, req, panic>>
  <2>1. \E right \in HeaderAt(freed, next) :
          \E left \in FooterAt(R1(right), h - FooterSize) :
            \E block \in HeaderBehind(R1(right), left) :
              Try(right, R1(right), J1(right), left, block)
    BY Zenon DEF Kfree
  <2>2. ASSUME NEW r, NEW m, NEW i, NEW l, NEW b, Try(r, m, i, l, b)
        PROVE  Freed(r, m, i, l, b)
    <3> HIDE DEF M2, I2, Hole, next
    <3>1. \A s : Panic(s) => UNCHANGED <<mem, index, end_address, size, ptrs, req>>
      BY DEF Panic
    <3>2. CASE \/ next - FooterSize \notin DOMAIN mem.ftr
               \/ IsHole(r) /\ next \notin Items(index)
               \/ IsHole(b) /\ l \notin Items(i)
      <4>1. \/ Panic("footer->magic") \/ Panic("right hole is indexed")
            \/ Panic("left hole is indexed")
        BY <2>2, <3>2
      <4> QED
        BY <3>1, <3>2, <4>1
    <3>3. CASE ~ (\/ next - FooterSize \notin DOMAIN mem.ftr
                  \/ IsHole(r) /\ next \notin Items(index)
                  \/ IsHole(b) /\ l \notin Items(i))
      BY <2>2, <3>3
    <3> QED
      BY <3>2, <3>3
  <2> HIDE DEF Try, Freed, R1, J1, next, freed, h
  <2> QED
    BY <2>1, <2>2
<1>7. /\ IsHole(right) <=> next \in HolesOf(mem)
      /\ IsHole(right) => right = mem.hdr[next]
  <2>1. next \in DOMAIN freed.hdr \/ next = end_address
    BY <1>4, <1>5
  <2>2. /\ next \in DOMAIN freed.hdr => right = freed.hdr[next]
        /\ next \notin DOMAIN freed.hdr => ~ IsHole(right)
    <3> HIDE DEF freed, next
    <3> QED
      BY <1>2, <2>1, ReadHeader
  <2> QED
    BY <1>3, <1>4, <1>5, <2>2 DEF HolesOf
<1>8. R1(right) = m1 /\ J1(right) = i1
  <2>1. CASE next \in HolesOf(mem)
    <3>1. next \in DOMAIN mem.hdr
      BY <2>1 DEF HolesOf
    <3>2. After(mem.hdr, next) <= end_address
      BY <1>2, <3>1, WholeFacts
    <3>3. h \in Int /\ HeapStart <= h /\ h + mem.hdr[h].size + META = next
      BY <1>2, <1>3, WholeFacts DEF After
    <3>4. next + mem.hdr[next].size + META <= MaxAddress
      BY <1>2, <1>4, <3>1, <3>2, TagAssumption, LayoutAssumption DEF After
    <3>5. mem.hdr[h].size \in Nat /\ mem.hdr[next].size \in Nat
      BY <1>2, <1>3, <3>1
    <3> HIDE DEF next, h
    <3>6. /\ Add32(mem.hdr[next].size, META) = mem.hdr[next].size + META
          /\ Add32(mem.hdr[h].size, mem.hdr[next].size + META) = both
      <4>1. HeapStart \in Nat /\ MaxAddress \in Nat /\ META \in Nat
        BY TagAssumption, LayoutAssumption
      <4>2. mem.hdr[next].size + META <= MaxAddress
        BY <1>4, <3>3, <3>4, <3>5, <4>1, TagAssumption
      <4>3. mem.hdr[h].size + (mem.hdr[next].size + META) <= MaxAddress
        BY <1>4, <3>3, <3>4, <3>5, <4>1, TagAssumption
      <4> QED
        BY <3>5, <4>1, <4>2, <4>3, NoWrap
    <3> QED
      BY <1>7, <2>1, <3>6 DEF Joined
  <2>2. CASE next \notin HolesOf(mem)
    BY <1>7, <2>2
  <2> QED
    BY <2>1, <2>2
<1>9. FreedRight(mem, index, end_address, h, m1, i1)
  BY <1>1, <1>3, FreeRight
<1>10. PICK left \in FooterAt(m1, h - FooterSize) :
         \E block \in HeaderBehind(m1, left) : Freed(right, m1, i1, left, block)
  BY ZenonT(30), <1>6, <1>8
<1>11. PICK block \in HeaderBehind(m1, left) : Freed(right, m1, i1, left, block)
  BY <1>10
<1>12. /\ Whole(m1, end_address) /\ h \in DOMAIN m1.hdr
       /\ DOMAIN m1.hdr \subseteq DOMAIN mem.hdr
       /\ \A c \in DOMAIN m1.hdr \ {h} : m1.hdr[c] = mem.hdr[c]
       /\ Items(index) \cap DOMAIN m1.hdr \subseteq Items(i1)
  BY <1>9 DEF FreedRight
<1>f. next - FooterSize \in DOMAIN mem.ftr
  BY <1>2, <1>3, WholeFacts
<1> HIDE DEF m1, i1, next, freed, R1, J1
<1>13. \/ h = HeapStart /\ ~ IsHole(block)
       \/ /\ left \in DOMAIN m1.hdr /\ After(m1.hdr, left) = h
          /\ block = m1.hdr[left]
  <2> HIDE DEF h
  <2> QED
    BY <1>2, <1>12, ReadLeft
<1>14. CASE Stopped(right, i1, left, block)
  <2>1. HeapInv' /\ HeldStay /\ IndexFollows
    BY <1>14, StutterStep
  <2>2. ASSUME Complete(mem, index) PROVE FALSE
    <3>1. CASE IsHole(right) /\ next \notin Items(index)
      BY <1>7, <2>2, <3>1 DEF Complete
    <3>2. CASE IsHole(block) /\ left \notin Items(i1)
      <4>1. left \in DOMAIN m1.hdr /\ After(m1.hdr, left) = h /\ block = m1.hdr[left]
        BY <1>13, <3>2
      <4>2. left # h
        BY <1>2, <1>12, <4>1, WholeFacts, TagAssumption
      <4>3. left \in HolesOf(mem)
        BY <1>12, <3>2, <4>1, <4>2 DEF HolesOf
      <4> QED
        BY <1>12, <2>2, <3>2, <4>1, <4>3 DEF Complete
    <3> QED
      BY <1>14, <1>f, <3>1, <3>2
  <2> QED
    BY <1>14, <2>1, <2>2 DEF GoesOn
<1>15. CASE Done(m1, i1, left, block)
  <2> DEFINE m2 == M2(m1, left, block)
             i2 == I2(i1, left, block)
             hole == Hole(left, block)
  <2>1. /\ mem' = m2 /\ index' = InsertHole(i2, m2, hole)
        /\ ptrs' = [q \in DOMAIN ptrs \ {p} |-> ptrs[q]]
        /\ UNCHANGED <<end_address, size, req, panic>>
    BY <1>15
  <2>2. \/ /\ \A c \in HolesOf(mem) : After(mem.hdr, c) # h
           /\ m2 = m1 /\ i2 = i1 /\ hole = h
        \/ /\ hole \in HolesOf(mem) /\ After(mem.hdr, hole) = h
           /\ m2 = MakeBlock(m1, hole,
                     m1.hdr[hole].size + (m1.hdr[h].size + META), IS_HOLE)
           /\ i2 = RemoveElement(i1, hole)
    <3>1. CASE ~ IsHole(block)
      <4>1. ASSUME NEW c \in HolesOf(mem), After(mem.hdr, c) = h PROVE FALSE
        <5>1. c \in DOMAIN mem.hdr /\ c # h
          BY <1>3 DEF HolesOf
        <5>2. CASE h = HeapStart
          BY <1>2, <4>1, <5>1, <5>2, WholeFacts, TagAssumption, LayoutAssumption
        <5>3. CASE /\ left \in DOMAIN m1.hdr /\ After(m1.hdr, left) = h
                   /\ block = m1.hdr[left]
          <6>1. left # h
            BY <1>2, <1>12, <5>3, WholeFacts, TagAssumption
          <6>2. left \in DOMAIN mem.hdr /\ After(mem.hdr, left) = h
            BY <1>12, <5>3, <6>1 DEF After
          <6>3. left = c
            BY <1>2, <4>1, <5>1, <6>2, AfterIsInjective
          <6> QED
            BY <1>12, <3>1, <4>1, <5>3, <6>1, <6>3 DEF HolesOf
        <5> QED
          BY <1>13, <5>2, <5>3
      <4> QED
        BY <3>1, <4>1
    <3>2. CASE IsHole(block)
      <4>1. /\ left \in DOMAIN m1.hdr /\ After(m1.hdr, left) = h
            /\ block = m1.hdr[left] /\ hole = left
        BY <1>13, <3>2
      <4>2. left # h
        BY <1>2, <1>12, <4>1, WholeFacts, TagAssumption
      <4>3. left \in HolesOf(mem) /\ After(mem.hdr, left) = h
        BY <1>12, <3>2, <4>1, <4>2 DEF HolesOf, After
      <4>4. /\ m1.hdr[left].size \in Nat /\ m1.hdr[h].size \in Nat
            /\ HeapStart <= left /\ left \in Int
            /\ left + m1.hdr[left].size + META = h
            /\ h + m1.hdr[h].size + META <= end_address
        BY <1>2, <1>12, <4>1, WholeFacts DEF BlockType, After
      <4>5. Joined(block.size, m1.hdr[h].size)
              = m1.hdr[left].size + (m1.hdr[h].size + META)
        <5> HIDE DEF h
        <5>1. HeapStart \in Nat /\ MaxAddress \in Nat /\ META \in Nat
          BY TagAssumption, LayoutAssumption
        <5>2. m1.hdr[h].size + META <= MaxAddress
          BY <1>2, <4>4, <5>1, TagAssumption
        <5>3. m1.hdr[left].size + (m1.hdr[h].size + META) <= MaxAddress
          BY <1>2, <4>4, <5>1, TagAssumption
        <5> QED
          BY <4>1, <4>4, <5>1, <5>2, <5>3, NoWrap DEF Joined
      <4> QED
        BY <3>2, <4>1, <4>3, <4>5
    <3> QED
      BY <3>1, <3>2
  <2> HIDE DEF m2, i2, hole
  <2>3. /\ Good(m2, InsertHole(i2, m2, hole), end_address, ptrs')
        /\ StaysComplete(mem, index, m2, InsertHole(i2, m2, hole))
        /\ \A c \in DOMAIN mem.hdr \ (HolesOf(mem) \cup {h}) :
             c \in DOMAIN m2.hdr /\ m2.hdr[c] = mem.hdr[c]
    <3>1. Good(mem, index, end_address, ptrs) /\ h = p - HeaderSize
      BY <1>1
    <3>2. PICK own2 : own2 = [q \in DOMAIN ptrs \ {p} |-> ptrs[q]]
      OBVIOUS
    <3>3. ptrs' = own2
      BY <2>1, <3>2
    <3> HIDE DEF h
    <3>4. /\ Good(m2, InsertHole(i2, m2, hole), end_address, own2)
          /\ StaysComplete(mem, index, m2, InsertHole(i2, m2, hole))
          /\ \A c \in DOMAIN mem.hdr \ (HolesOf(mem) \cup {h}) :
               c \in DOMAIN m2.hdr /\ m2.hdr[c] = mem.hdr[c]
      BY <1>9, <2>2, <3>1, <3>2, FreeLeft
    <3> QED
      BY <3>3, <3>4
  <2>4. HeapInv'
    BY <1>1, <2>1, <2>3 DEF HeapInv
  <2>5. HeldStay
    <3> SUFFICES ASSUME NEW q \in DOMAIN ptrs \cap DOMAIN ptrs'
                 PROVE  /\ q - HeaderSize \in DOMAIN mem'.hdr
                        /\ mem'.hdr[q - HeaderSize] = mem.hdr[q - HeaderSize]
      BY DEF HeldStay
    <3>1. q # p
      BY <2>1
    <3>2. q \in Int /\ p \in Int /\ q - HeaderSize \in DOMAIN mem.hdr \ HolesOf(mem)
      BY <1>1 DEF Good, Owners
    <3>3. q - HeaderSize # h
      BY <3>1, <3>2, TagAssumption
    <3> QED
      BY <2>1, <2>3, <3>2, <3>3
  <2>6. IndexFollows /\ GoesOn
    BY <2>1, <2>3 DEF IndexFollows, GoesOn
  <2> QED
    BY <2>1, <2>4, <2>5, <2>6
<1> QED
  BY <1>11, <1>14, <1>15

LEMMA RequestsArePositive == 0 \notin Requests
BY RequestAssumption, LayoutAssumption

(* What alloc gives the heap for the request, in whole pages, and what     *)
(* that makes of the hole at its end.                                      *)
Extended == AlignToPage(Add32(req.size, META))

EndsWith(m, end, a) == a \in HolesOf(m) /\ After(m.hdr, a) = end

Grew ==
    /\ req'.size = req.size /\ req'.align = req.align /\ req'.rounds = NextRound(req.rounds)
    /\ req' # NoRequest /\ end_address' = end_address + Extended
    /\ \E a : /\ EndsWith(mem', end_address', a)
             /\ \/ /\ EndsWith(mem, end_address, a)
                   /\ mem'.hdr[a].size = mem.hdr[a].size + Extended
                \/ /\ \A c : ~ EndsWith(mem, end_address, c)
                   /\ a = end_address /\ mem'.hdr[a].size = Extended - META

(* alloc grows the heap *)
LEMMA ExpandStep ==
    ASSUME RequestsFit, HeapInv, req # NoRequest, Expand
    PROVE  /\ HeapInv' /\ HeldStay /\ IndexFollows /\ GoesOn
           /\ UNCHANGED <<mem, end_address, req>> \/ Grew
<1> DEFINE n == req.size
           ext == AlignToPage(Add32(n, META))
           new_end == Add32(end_address, ext)
           Grown(l, b) ==
             LET where  == IF IsHole(b) THEN l ELSE end_address
                 sz     == IF IsHole(b) THEN Add32(b.size, ext) ELSE Sub32(ext, META)
                 m      == MakeBlock(mem, where, sz, IS_HOLE)
                 others == IF IsHole(b) THEN RemoveElement(index, l) ELSE index
             IN  /\ end_address' = new_end
                 /\ size' = Add32(size, ext)
                 /\ mem' = m
                 /\ index' = InsertHole(others, m, where)
                 /\ req' = [req EXCEPT !.rounds = NextRound(@)]
                 /\ ptrs' = ptrs /\ panic' = panic
           Stopped(l, b) ==
             /\ UNCHANGED <<mem, index, end_address, size, ptrs, req>>
             /\ \/ panic' = "new_end <= max_address"
                \/ IsHole(b) /\ l \notin Items(index)
<1>1. /\ Good(mem, index, end_address, ptrs) /\ size = end_address - HeapStart
      /\ req = NoRequest \/ (req.size \in Requests /\ req.align \in BOOLEAN)
  BY DEF HeapInv
<1>2. /\ end_address \in Int /\ HeapStart < end_address /\ end_address <= MaxAddress
      /\ InitialEnd <= end_address
      /\ Whole(mem, end_address)
      /\ \A c \in DOMAIN mem.hdr : c \in Int /\ mem.hdr[c].size \in Nat \ {0}
  BY <1>1, GoodFacts
<1>3. /\ n \in Nat \ {0} /\ MaxAddress + 2 * PageSize + n + META < WordSize
      /\ HeaderSize \in Nat \ {0} /\ FooterSize \in Nat \ {0} /\ PageSize \in Nat \ {0}
      /\ MaxAddress \in Nat /\ WordSize \in Nat /\ HeapStart \in Nat
  <2>1. n \in Requests
    BY <1>1
  <2>2. HeaderSize \in Nat \ {0} /\ FooterSize \in Nat \ {0} /\ PageSize \in Nat \ {0}
    BY TagAssumption
  <2>3. n \in Nat \ {0}
    <3>1. WordSize \in Nat
      BY LayoutAssumption
    <3>2. n \in 1..(WordSize - 1)
      BY <2>1, RequestAssumption
    <3> HIDE DEF n
    <3> QED
      BY <3>1, <3>2
  <2> QED
    BY <2>1, <2>2, <2>3, LayoutAssumption DEF RequestsFit
<1>4. /\ ext \in Nat /\ META < ext /\ ext < n + META + PageSize
  <2>1. Add32(n, META) = n + META
    BY <1>3 DEF Add32
  <2> HIDE DEF n
  <2>2. n + META \in Nat /\ n + META + PageSize < WordSize
    BY <1>3
  <2> QED
    BY <1>3, <2>1, <2>2, AlignFacts
<1>5. new_end = end_address + ext
  <2> HIDE DEF ext, n
  <2> QED
    BY <1>2, <1>3, <1>4 DEF Add32
<1>6. PICK last \in FooterAt(mem, end_address - FooterSize) :
        \E block \in HeaderAt(mem, last) :
          \/ Stopped(last, block)
          \/ new_end <= MaxAddress /\ Grown(last, block)
  <2> DEFINE Try(l, b) ==
               IF new_end > MaxAddress
               THEN Panic("new_end <= max_address")
               ELSE IF IsHole(b) /\ l \notin Items(index)
               THEN Panic("last hole is indexed")
               ELSE /\ end_address' = new_end
                    /\ size' = Add32(size, ext)
                    /\ mem' = MakeBlock(mem, IF IsHole(b) THEN l ELSE end_address,
                         IF IsHole(b) THEN Add32(b.size, ext) ELSE Sub32(ext, META), IS_HOLE)
                    /\ index' = InsertHole(
                         IF IsHole(b) THEN RemoveElement(index, l) ELSE index,
                         MakeBlock(mem, IF IsHole(b) THEN l ELSE end_address,
                           IF IsHole(b) THEN Add32(b.size, ext) ELSE Sub32(ext, META), IS_HOLE),
                         IF IsHole(b) THEN l ELSE end_address)
                    /\ req' = [req EXCEPT !.rounds = NextRound(@)]
                    /\ UNCHANGED <<ptrs, panic>>
  <2>1. \E last \in FooterAt(mem, end_address - FooterSize) :
          \E block \in HeaderAt(mem, last) : Try(last, block)
    BY Zenon DEF Expand
  <2>2. ASSUME NEW l, NEW b, Try(l, b)
        PROVE  Stopped(l, b) \/ (new_end <= MaxAddress /\ Grown(l, b))
    <3>1. new_end > MaxAddress \/ new_end <= MaxAddress
      BY <1>2, <1>3, <1>4, <1>5
    <3> HIDE DEF ext, new_end
    <3>2. CASE new_end > MaxAddress
      <4>1. Panic("new_end <= max_address")
        BY <2>2, <3>2
      <4> QED
        BY <4>1 DEF Panic
    <3>3. CASE ~ (new_end > MaxAddress) /\ IsHole(b) /\ l \notin Items(index)
      <4>1. Panic("last hole is indexed")
        BY <2>2, <3>3
      <4> QED
        BY <3>3, <4>1 DEF Panic
    <3>4. CASE ~ (new_end > MaxAddress) /\ ~ (IsHole(b) /\ l \notin Items(index))
      BY <2>2, <3>1, <3>4
    <3> QED
      BY <3>2, <3>3, <3>4
  <2> HIDE DEF Try, Grown, Stopped, new_end
  <2> QED
    BY <2>1, <2>2
<1>7. PICK block \in HeaderAt(mem, last) :
        Stopped(last, block) \/ (new_end <= MaxAddress /\ Grown(last, block))
  BY <1>6
<1>e. ext = Extended
  BY DEF Extended
<1> HIDE DEF ext, new_end, n
<1>8. last \in DOMAIN mem.hdr /\ After(mem.hdr, last) = end_address /\ block = mem.hdr[last]
  <2>1. last \in FooterAt(mem, end_address - FooterSize) /\ block \in HeaderAt(mem, last)
    BY <1>6, <1>7
  <2>2. IsHole(block) => block # NoMagic
    BY DEF IsHole, NoMagic, IS_HOLE, NOT_HOLE
  <2>3. \E b \in DOMAIN mem.hdr : After(mem.hdr, b) = end_address
    BY <1>2, LeftNeighbour
  <2>4. PICK b \in DOMAIN mem.hdr : After(mem.hdr, b) = end_address
    BY <2>3
  <2>5. end_address - FooterSize \in DOMAIN mem.ftr /\ mem.ftr[end_address - FooterSize] = b
    BY <1>2, <2>4, WholeFacts
  <2>6. last = b
    BY <2>1, <2>5 DEF FooterAt
  <2> QED
    BY <2>1, <2>4, <2>6 DEF HeaderAt
<1>9. CASE Stopped(last, block)
  <2>1. HeapInv' /\ HeldStay /\ IndexFollows
    BY <1>9, StutterStep
  <2>2. GoesOn
    <3>1. IsHole(block) => last \in HolesOf(mem)
      BY <1>8 DEF HolesOf
    <3> QED
      BY <1>9, <3>1 DEF GoesOn, Complete
  <2> QED
    BY <1>9, <2>1, <2>2
<1>10. CASE new_end <= MaxAddress /\ Grown(last, block)
  <2>1. size' = end_address + ext - HeapStart
    <3>1. size + ext = end_address + ext - HeapStart /\ size \in Nat
      BY <1>1, <1>2, <1>3, <1>4
    <3>2. size + ext <= MaxAddress
      BY <1>2, <1>3, <1>4, <1>5, <1>10, <3>1
    <3> QED
      BY <1>4, <1>10, <3>1, <3>2, NoWrap
  <2>2. /\ req'.size = req.size /\ req'.align = req.align
        /\ req'.rounds = NextRound(req.rounds) /\ panic' = panic
        /\ req'.size \in Requests /\ req'.align \in BOOLEAN
    BY <1>1, <1>10 DEF NoRequest
  <2>3. CASE IsHole(block)
    <3>1. last \in HolesOf(mem)
      BY <1>8, <2>3 DEF HolesOf
    <3>2. Add32(block.size, ext) = mem.hdr[last].size + ext
      <4>1. mem.hdr[last].size \in Nat /\ HeapStart <= last /\ last \in Int
        BY <1>2, <1>8, WholeFacts
      <4>2. last + mem.hdr[last].size + META = end_address
        BY <1>8 DEF After
      <4>3. mem.hdr[last].size + ext <= MaxAddress
        BY <1>2, <1>3, <1>4, <1>5, <1>10, <4>1, <4>2
      <4> QED
        BY <1>4, <1>8, <4>1, <4>3, NoWrap
    <3> DEFINE m == MakeBlock(mem, last, mem.hdr[last].size + ext, IS_HOLE)
    <3>g. m.hdr[last] = [size |-> mem.hdr[last].size + ext, is_hole |-> IS_HOLE]
          /\ last \in DOMAIN m.hdr
      BY DEF MakeBlock
    <3>3. /\ mem' = m /\ index' = InsertHole(RemoveElement(index, last), m, last)
          /\ end_address' = end_address + ext /\ ptrs' = ptrs
      BY <1>5, <1>10, <2>3, <3>2
    <3>4. /\ Good(m, InsertHole(RemoveElement(index, last), m, last),
                  end_address + ext, ptrs)
          /\ StaysComplete(mem, index, m, InsertHole(RemoveElement(index, last), m, last))
          /\ \A c \in DOMAIN mem.hdr \ HolesOf(mem) :
               c \in DOMAIN m.hdr /\ m.hdr[c] = mem.hdr[c]
      <4>1. ext \in Nat \ {0} /\ end_address + ext <= MaxAddress
        BY <1>3, <1>4, <1>5, <1>10
      <4> HIDE DEF m
      <4>2. m = MakeBlock(mem, last, mem.hdr[last].size + ext, IS_HOLE)
        BY DEF m
      <4> QED
        BY <1>1, <1>8, <3>1, <4>1, <4>2, GrowLastGood
    <3> HIDE DEF m
    <3>5. HeapInv'
      <4>1. Good(mem', index', end_address', ptrs')
        BY <3>3, <3>4
      <4>2. size' = end_address' - HeapStart
        <5>1. end_address' = end_address + ext
          BY <3>3
        <5> QED
          BY <1>2, <1>3, <1>4, <2>1, <5>1
      <4> QED
        BY <2>2, <4>1, <4>2 DEF HeapInv
    <3>6. HeldStay
      BY <1>1, <3>3, <3>4 DEF HeldStay, Good, Owners
    <3>7. IndexFollows /\ GoesOn
      BY <2>2, <3>3, <3>4 DEF IndexFollows, GoesOn
    <3>8. Grew
      <4>1. EndsWith(mem, end_address, last)
        BY <1>8, <3>1 DEF EndsWith
      <4>2. mem'.hdr[last].size = mem.hdr[last].size + Extended /\ last \in HolesOf(mem')
        BY <1>e, <3>3, <3>g DEF HolesOf, IsHole
      <4>3. After(mem'.hdr, last) = end_address'
        <5>1. end_address = last + mem.hdr[last].size + META
          BY <1>8 DEF After
        <5>2. mem.hdr[last].size \in Nat /\ last \in Int /\ Extended \in Nat
          BY <1>2, <1>4, <1>8, <1>e
        <5>3. end_address' = end_address + Extended
          BY <1>e, <3>3
        <5> QED
          BY <1>3, <4>2, <5>1, <5>2, <5>3 DEF After
      <4>4. end_address' = end_address + Extended /\ req' # NoRequest
        BY <1>e, <2>2, <3>3, RequestsArePositive DEF NoRequest
      <4> QED
        BY <2>2, <4>1, <4>2, <4>3, <4>4 DEF Grew, EndsWith
    <3> QED
      BY <3>5, <3>6, <3>7, <3>8
  <2>4. CASE ~ IsHole(block)
    <3>1. last \in DOMAIN mem.hdr \ HolesOf(mem)
      BY <1>8, <2>4 DEF HolesOf
    <3>2. Sub32(ext, META) = ext - META
      BY <1>3, <1>4 DEF Sub32
    <3> DEFINE m == MakeBlock(mem, end_address, ext - META, IS_HOLE)
    <3>g. m.hdr[end_address] = [size |-> ext - META, is_hole |-> IS_HOLE]
          /\ end_address \in DOMAIN m.hdr
      BY DEF MakeBlock
    <3>3. /\ mem' = m /\ index' = InsertHole(index, m, end_address)
          /\ end_address' = end_address + ext /\ ptrs' = ptrs
      BY <1>5, <1>10, <2>4, <3>2
    <3>4. /\ Good(m, InsertHole(index, m, end_address), end_address + ext, ptrs)
          /\ StaysComplete(mem, index, m, InsertHole(index, m, end_address))
          /\ \A c \in DOMAIN mem.hdr \ HolesOf(mem) :
               c \in DOMAIN m.hdr /\ m.hdr[c] = mem.hdr[c]
      <4>1. end_address + ext <= MaxAddress
        BY <1>5, <1>10
      <4> HIDE DEF m
      <4>2. m = MakeBlock(mem, end_address, ext - META, IS_HOLE)
        BY DEF m
      <4> QED
        BY <1>1, <1>4, <1>8, <3>1, <4>1, <4>2, AppendGood
    <3> HIDE DEF m
    <3>5. HeapInv'
      <4>1. Good(mem', index', end_address', ptrs')
        BY <3>3, <3>4
      <4>2. size' = end_address' - HeapStart
        <5>1. end_address' = end_address + ext
          BY <3>3
        <5> QED
          BY <1>2, <1>3, <1>4, <2>1, <5>1
      <4> QED
        BY <2>2, <4>1, <4>2 DEF HeapInv
    <3>6. HeldStay
      BY <1>1, <3>3, <3>4 DEF HeldStay, Good, Owners
    <3>7. IndexFollows /\ GoesOn
      BY <2>2, <3>3, <3>4 DEF IndexFollows, GoesOn
    <3>8. Grew
      <4>1. ASSUME NEW c, EndsWith(mem, end_address, c) PROVE FALSE
        <5>1. c \in DOMAIN mem.hdr /\ After(mem.hdr, c) = end_address
          BY <4>1 DEF EndsWith, HolesOf
        <5>2. c = last
          BY <1>2, <1>8, <5>1, AfterIsInjective
        <5> QED
          BY <3>1, <4>1, <5>2 DEF EndsWith
      <4>2. /\ mem'.hdr[end_address].size = Extended - META
            /\ end_address \in HolesOf(mem')
        BY <1>e, <3>3, <3>g DEF HolesOf, IsHole
      <4>3. After(mem'.hdr, end_address) = end_address'
        <5>1. Extended \in Nat /\ end_address' = end_address + Extended
          BY <1>4, <1>e, <3>3
        <5> QED
          BY <1>2, <1>3, <4>2, <5>1 DEF After
      <4>4. end_address' = end_address + Extended /\ req' # NoRequest
        BY <1>e, <2>2, <3>3, RequestsArePositive DEF NoRequest
      <4> QED
        BY <2>2, <4>1, <4>2, <4>3, <4>4 DEF Grew, EndsWith
    <3> QED
      BY <3>5, <3>6, <3>7, <3>8
  <2> QED
    BY <2>3, <2>4
<1> QED
  BY <1>7, <1>9, <1>10

(* The sizes that alloc computes when it cuts the hole of size s at a for  *)
(* a request of n bytes at pos.                                            *)
CutFits(a, s, pos, n) ==
    LET cut    == pos - HeaderSize - a
        block  == Sub32(s, cut)
        remain == Sub32(block, n)
        taken  == IF KeepsAll(remain) THEN block ELSE n
        rest   == a + cut + META + taken
        hi     == a + s + META
    IN  /\ pos = a + cut + HeaderSize /\ pos - HeaderSize = a + cut
        /\ pos - HeaderSize + META + taken = rest
        /\ taken \in Nat \ {0} /\ n <= taken /\ ~ (block < n)
        /\ rest = hi \/ rest + META < hi
        /\ KeepsAll(remain) <=> rest = hi
        /\ rest # hi => remain - META = hi - rest - META

LEMMA CutArithmetic ==
    ASSUME NEW a \in Int, NEW s \in Nat, NEW pos \in Int, NEW n \in Nat \ {0},
           pos - HeaderSize - a \in Nat, pos + n + FooterSize <= a + s + META
    PROVE  CutFits(a, s, pos, n)
<1> DEFINE cut == pos - HeaderSize - a
           block == Sub32(s, cut)
           remain == Sub32(block, n)
           taken == IF KeepsAll(remain) THEN block ELSE n
           rest == a + cut + META + taken
           hi == a + s + META
<1>1. HeaderSize \in Nat /\ FooterSize \in Nat
  BY TagAssumption
<1>2. /\ cut \in Nat /\ cut + n <= s /\ hi \in Int
      /\ pos = a + cut + HeaderSize /\ pos - HeaderSize = a + cut
  BY <1>1
<1> HIDE DEF cut
<1>3. block = s - cut /\ ~ (block < n)
  BY <1>2 DEF Sub32
<1> HIDE DEF block
<1>4. remain = s - cut - n
  BY <1>2, <1>3 DEF Sub32
<1> HIDE DEF remain
<1>5. /\ taken \in Nat \ {0} /\ n <= taken
      /\ remain <= META => taken = s - cut
      /\ remain > META => taken = n
  BY <1>1, <1>2, <1>3, <1>4 DEF KeepsAll
<1> HIDE DEF taken
<1>6. /\ pos - HeaderSize + META + taken = rest
      /\ rest = hi \/ rest + META < hi
      /\ KeepsAll(remain) <=> rest = hi
      /\ rest # hi => remain - META = hi - rest - META
  <2>1. CASE remain <= META
    BY <1>1, <1>2, <1>4, <1>5, <2>1 DEF KeepsAll
  <2>2. CASE remain > META
    BY <1>1, <1>2, <1>4, <1>5, <2>2 DEF KeepsAll
  <2> QED
    BY <1>1, <1>2, <1>4, <2>1, <2>2
<1> QED
  BY <1>2, <1>3, <1>5, <1>6 DEF CutFits, cut, block, remain, taken

(* alloc takes a hole *)
LEMMA PlaceStep ==
    ASSUME RequestsFit, HeapInv, req # NoRequest, Place
    PROVE  /\ HeapInv' /\ HeldStay /\ IndexFollows /\ GoesOn
           /\ req' = NoRequest /\ end_address' = end_address
<1>1. /\ Good(mem, index, end_address, ptrs) /\ size = end_address - HeapStart
      /\ req.size \in Requests /\ req.align \in BOOLEAN
  BY DEF HeapInv
<1>2. /\ end_address \in Int /\ HeapStart < end_address /\ end_address <= MaxAddress
      /\ Whole(mem, end_address)
      /\ \A c \in DOMAIN mem.hdr : c \in Int /\ mem.hdr[c].size \in Nat \ {0}
  BY <1>1, GoodFacts
<1>3. /\ HeaderSize \in Nat \ {0} /\ FooterSize \in Nat \ {0}
      /\ MaxAddress \in Nat /\ WordSize \in Nat /\ HeapStart \in Nat
      /\ req.size \in Nat \ {0}
  <2>1. /\ HeaderSize \in Nat \ {0} /\ FooterSize \in Nat \ {0}
        /\ MaxAddress \in Nat /\ WordSize \in Nat /\ HeapStart \in Nat
    BY TagAssumption, LayoutAssumption
  <2>2. req.size \in 1..(WordSize - 1)
    BY <1>1, RequestAssumption
  <2> QED
    BY <2>1, <2>2
<1> DEFINE Pos(a)    == AllocPos(a, req.align)
           Cut(a)    == Pos(a) - HeaderSize - a
           Block(a)  == Sub32(mem.hdr[a].size, Cut(a))
           Remain(a) == Sub32(Block(a), req.size)
           Taken2(a) == IF KeepsAll(Remain(a)) THEN Block(a) ELSE req.size
           Rest(a)   == Pos(a) - HeaderSize + META + Taken2(a)
           N1(a) == IF Cut(a) > 0 THEN MakeBlock(mem, a, Cut(a) - META, IS_HOLE) ELSE mem
           N2(a) == MakeBlock(N1(a), Pos(a) - HeaderSize, Taken2(a), NOT_HOLE)
           N3(a) == IF KeepsAll(Remain(a)) THEN N2(a)
                    ELSE MakeBlock(N2(a), Rest(a), Remain(a) - META, IS_HOLE)
           I1(i, a) == IF Cut(a) > 0 THEN InsertHole(RemoveAtPosition(index, i), N1(a), a)
                       ELSE RemoveAtPosition(index, i)
           I3(i, a) == IF KeepsAll(Remain(a)) THEN I1(i, a)
                       ELSE InsertHole(I1(i, a), N3(a), Rest(a))
           Own2(a) == [p \in DOMAIN ptrs \cup {Pos(a)} |->
                         IF p = Pos(a) THEN [size |-> req.size, align |-> req.align]
                                       ELSE ptrs[p]]
<1>4. PICK i \in 1..Len(index) :
        /\ Fits(index[i], req.size, req.align)
        /\ \/ Block(index[i]) < req.size
           \/ /\ mem' = N3(index[i]) /\ index' = I3(i, index[i])
              /\ ptrs' = Own2(index[i]) /\ req' = NoRequest
              /\ UNCHANGED <<end_address, size, panic>>
  <2> DEFINE Try(i, a) ==
               IF Block(a) < req.size
               THEN Panic("block_size >= size")
               ELSE /\ mem' = N3(a) /\ index' = I3(i, a)
                    /\ ptrs' = Own2(a)
                    /\ req' = NoRequest
                    /\ UNCHANGED <<end_address, size, panic>>
  <2>1. \E i \in 1..Len(index) : Found(i) /\ Try(i, index[i])
    BY Zenon DEF Place
  <2>2. ASSUME NEW i, NEW a, Try(i, a)
        PROVE  \/ Block(a) < req.size
               \/ /\ mem' = N3(a) /\ index' = I3(i, a)
                  /\ ptrs' = Own2(a) /\ req' = NoRequest
                  /\ UNCHANGED <<end_address, size, panic>>
    <3> HIDE DEF Block, N3, I3, Own2
    <3> QED
      BY <2>2
  <2>3. \A i : Found(i) => Fits(index[i], req.size, req.align)
    BY DEF Found
  <2> HIDE DEF Try, Block, N3, I3, Own2
  <2> QED
    BY <2>1, <2>2, <2>3
<1> DEFINE a == index[i]
           cut == Cut(a)
           hi == After(mem.hdr, a)
           taken == Taken2(a)
           rest == a + cut + META + taken
<1>5. a \in DOMAIN mem.hdr /\ a \in HolesOf(mem) /\ a \in Int /\ mem.hdr[a].size \in Nat \ {0}
  <2>1. a \in Items(index) /\ Items(index) \subseteq HolesOf(mem)
    BY <1>1 DEF Items, Good
  <2> HIDE DEF a
  <2> QED
    BY <1>2, <2>1 DEF HolesOf
<1> HIDE DEF a
<1>6. /\ Pos(a) \in Nat /\ cut \in Nat /\ (cut = 0 \/ META < cut)
      /\ Pos(a) + req.size + FooterSize <= After(mem.hdr, a)
      /\ req.align => Pos(a) % PageSize = 0
  <2>1. Fits(a, req.size, req.align)
    BY <1>4 DEF a
  <2> QED
    BY <1>1, <1>2, <1>5, <2>1, FitsFacts
<1>7. hi = a + mem.hdr[a].size + META
  BY DEF After
<1>8. CutFits(a, mem.hdr[a].size, Pos(a), req.size)
  <2>1. Pos(a) - HeaderSize - a \in Nat
    BY <1>6
  <2>2. Pos(a) + req.size + FooterSize <= a + mem.hdr[a].size + META
    BY <1>6, <1>7
  <2>3. mem.hdr[a].size \in Nat /\ req.size \in Nat \ {0} /\ Pos(a) \in Int
    BY <1>3, <1>5, <1>6
  <2> HIDE DEF Pos
  <2> QED
    BY <1>5, <2>1, <2>2, <2>3, CutArithmetic
<1> HIDE DEF Pos
<1>9. /\ Pos(a) = a + cut + HeaderSize /\ Pos(a) - HeaderSize = a + cut
      /\ taken \in Nat \ {0} /\ req.size <= taken /\ ~ (Block(a) < req.size)
      /\ Rest(a) = rest
      /\ rest = hi \/ rest + META < hi
      /\ KeepsAll(Remain(a)) <=> rest = hi
      /\ rest # hi => Remain(a) - META = hi - rest - META
  <2> HIDE DEF hi
  <2> QED
    BY <1>7, <1>8 DEF CutFits
<1> HIDE DEF hi, Block, Remain, Cut, cut
<1>10. /\ mem' = N3(a) /\ index' = I3(i, a)
       /\ ptrs' = Own2(a) /\ req' = NoRequest
       /\ UNCHANGED <<end_address, size, panic>>
  <2> HIDE DEF N3, I3, Own2
  <2> QED
    BY <1>4, <1>9 DEF a
<1>11. HeapInv' /\ HeldStay /\ IndexFollows /\ GoesOn
  <2> DEFINE m1 == N1(a)
             m2 == N2(a)
             m3 == N3(a)
             i0 == RemoveAtPosition(index, i)
             i1 == I1(i, a)
             i3 == I3(i, a)
             own2 == Own2(a)
  <2>2. /\ m1 = IF cut > 0 THEN MakeBlock(mem, a, cut - META, IS_HOLE) ELSE mem
        /\ i1 = IF cut > 0 THEN InsertHole(i0, m1, a) ELSE i0
    BY DEF cut
  <2>3. m2 = MakeBlock(m1, a + cut, taken, NOT_HOLE)
    <3> HIDE DEF N1
    <3> QED
      BY <1>9
  <2>4. /\ m3 = IF rest = hi THEN m2 ELSE MakeBlock(m2, rest, hi - rest - META, IS_HOLE)
        /\ i3 = IF rest = hi THEN i1 ELSE InsertHole(i1, m3, rest)
    <3> HIDE DEF N2, I1, taken, rest, Rest
    <3>1. CASE KeepsAll(Remain(a))
      BY <1>9, <3>1
    <3>2. CASE ~ (KeepsAll(Remain(a)))
      <4>1. rest # hi /\ Remain(a) - META = hi - rest - META
        BY <1>9, <3>2
      <4> QED
        BY <1>9, <3>2, <4>1
    <3> QED
      BY <3>1, <3>2
  <2>5. own2 = [p \in DOMAIN ptrs \cup {Pos(a)} |->
                  IF p = Pos(a) THEN [size |-> req.size, align |-> req.align] ELSE ptrs[p]]
    OBVIOUS
  <2> HIDE DEF m1, m2, m3, i0, i1, i3, own2, N1, N2, N3, I1, I3, Own2, taken, Taken2
  <2>6. /\ Good(m3, i3, end_address, own2)
        /\ StaysComplete(mem, index, m3, i3)
        /\ \A c \in DOMAIN mem.hdr \ HolesOf(mem) :
             c \in DOMAIN m3.hdr /\ m3.hdr[c] = mem.hdr[c]
    <3> HIDE DEF rest
    <3>1. rest = a + cut + META + taken /\ hi = After(mem.hdr, a) /\ a = index[i]
          /\ i0 = RemoveAtPosition(index, i)
      BY DEF rest, hi, a, i0
    <3>2. own2 = [p \in DOMAIN ptrs \cup {Pos(a)} |->
                    IF p = Pos(a) THEN [size |-> req.size, align |-> req.align]
                                  ELSE ptrs[p]]
      BY <2>5
    <3>3. /\ cut \in Nat /\ (cut = 0 \/ META < cut)
          /\ req.align => Pos(a) % PageSize = 0
      BY <1>6 DEF cut
    <3>4. /\ Good(mem, index, end_address, ptrs)
          /\ req.size \in Requests /\ req.align \in BOOLEAN
      BY <1>1
    <3>5. i \in 1..Len(index)
      BY <1>4
    <3>6. Placement(mem, index, end_address, ptrs, i, a, hi, cut, taken, rest,
                    m1, m2, m3, i0, i1, i3, req.size, Pos(a), req.align, own2)
      BY <1>9, <2>2, <2>3, <2>4, <3>1, <3>2, <3>3, <3>4, <3>5 DEF Placement
    <3> QED
      BY <3>6, PlaceGood
  <2>7. mem' = m3 /\ index' = i3 /\ ptrs' = own2
    BY <1>10 DEF m3, i3, own2
  <2>8. HeapInv'
    <3>1. Good(mem', index', end_address', ptrs')
      BY <1>10, <2>6, <2>7
    <3> QED
      BY <1>1, <1>10, <3>1 DEF HeapInv
  <2>9. HeldStay
    BY <1>1, <2>6, <2>7 DEF HeldStay, Good, Owners
  <2>10. IndexFollows /\ GoesOn
    BY <1>10, <2>6, <2>7 DEF IndexFollows, GoesOn
  <2> QED
    BY <2>8, <2>9, <2>10
<1> QED
  BY <1>10, <1>11

(* create_kheap *)
LEMMA InitGood == Init => HeapInv
<1> SUFFICES ASSUME Init PROVE HeapInv
  OBVIOUS
<1> DEFINE m0 == [hdr |-> << >>, ftr |-> << >>]
           sz == InitialEnd - HeapStart - META
<1>1. /\ HeapStart \in Int /\ InitialEnd \in Int /\ HeapStart < InitialEnd
      /\ InitialEnd <= MaxAddress /\ META \in Nat
      /\ sz \in Nat \ {0} /\ InitialEnd = HeapStart + sz + META
  BY TagAssumption, LayoutAssumption
<1>2. TilesExcept(m0, HeapStart, InitialEnd, InitialEnd) /\ Live(m0, HeapStart, InitialEnd) = {}
  <2>1. DOMAIN m0.hdr = {} /\ DOMAIN m0.ftr = {}
    OBVIOUS
  <2>2. m0 = [hdr |-> m0.hdr, ftr |-> m0.ftr]
    OBVIOUS
  <2>3. Live(m0, HeapStart, InitialEnd) = {}
    BY <2>1 DEF Live
  <2> HIDE DEF m0
  <2> QED
    BY <1>1, <2>1, <2>2, <2>3 DEF TilesExcept, WellTyped
<1>3. mem = MakeBlock(m0, HeapStart, sz, IS_HOLE)
  BY DEF Init
<1> HIDE DEF m0, sz
<1>4. Carved(m0, mem, HeapStart, InitialEnd, InitialEnd, InitialEnd,
             [size |-> sz, is_hole |-> IS_HOLE])
  <2>1. InitialEnd <= InitialEnd /\ HeapStart <= HeapStart /\ IS_HOLE \in {NOT_HOLE, IS_HOLE}
    BY <1>1
  <2> QED
    BY <1>1, <1>2, <1>3, <2>1, Carve
<1>5. /\ Whole(mem, InitialEnd)
      /\ DOMAIN mem.hdr = {HeapStart}
      /\ mem.hdr[HeapStart] = [size |-> sz, is_hole |-> IS_HOLE]
  <2>1. TilesExcept(mem, InitialEnd, InitialEnd, InitialEnd)
    BY <1>4 DEF Carved
  <2>2. Whole(mem, InitialEnd) /\ Live(mem, InitialEnd, InitialEnd) = DOMAIN mem.hdr
    BY <1>1, <2>1, CloseGap
  <2> QED
    BY <1>2, <1>4, <2>2 DEF Carved
<1>6. HolesOf(mem) = {HeapStart}
  BY <1>5 DEF HolesOf, IsHole
<1>7. NoAdj(mem)
  BY <1>1, <1>5, <1>6 DEF NoAdj, After
<1>8. Owners(mem, ptrs)
  <2>1. ptrs = << >> /\ DOMAIN ptrs = {}
    BY DEF Init
  <2> QED
    BY <1>5, <1>6, <2>1 DEF Owners
<1>9. IndexWF(mem, index) /\ Items(index) \subseteq HolesOf(mem)
  <2>1. Items(EmptyArray) = {} /\ Len(EmptyArray) = 0 /\ EmptyArray \in Seq(Int)
    BY DEF Items, EmptyArray
  <2>2. IndexWF(mem, EmptyArray)
    BY <2>1, RequestAssumption DEF IndexWF, HasNoDuplicate, IsOrdered
  <2>3. HeapStart \in DOMAIN mem.hdr /\ HeapStart \notin Items(EmptyArray)
    BY <1>5, <2>1
  <2>4. \A c \in Items(EmptyArray) \cup {HeapStart} : mem.hdr[c].size \in Int
    BY <1>1, <1>5, <2>1
  <2>5. Indexed(mem, EmptyArray, InsertHole(EmptyArray, mem, HeapStart), HeapStart)
    BY <1>1, <2>2, <2>3, <2>4, IndexInsert
  <2> QED
    BY <1>6, <2>1, <2>5 DEF Init, Indexed
<1> QED
  <2>1. /\ end_address = InitialEnd /\ size = InitialEnd - HeapStart /\ req = NoRequest
    BY DEF Init
  <2> HIDE DEF NoRequest
  <2> QED
    BY <1>1, <1>5, <1>7, <1>8, <1>9, <2>1 DEF Good, HeapInv

----------------------------------------------------------------------------
(* The invariant *)

LEMMA NextStep ==
    ASSUME RequestsFit, HeapInv, [Next]_vars
    PROVE  HeapInv' /\ HeldStay /\ IndexFollows /\ GoesOn
<1>1. CASE \E sz \in Requests, align \in BOOLEAN : Kmalloc(sz, align)
  <2>1. PICK sz \in Requests, align \in BOOLEAN : Kmalloc(sz, align)
    BY <1>1
  <2>2. /\ UNCHANGED <<mem, index, end_address, size, ptrs>>
        /\ req'.size \in Requests /\ req'.align \in BOOLEAN /\ panic' = panic
    BY <2>1 DEF Kmalloc
  <2> QED
    BY <2>2, StutterStep DEF GoesOn
<1>2. CASE Expand
  <2>1. req # NoRequest
    BY <1>2 DEF Expand, InAlloc
  <2> QED
    BY <1>2, <2>1, ExpandStep
<1>3. CASE Place
  <2>1. req # NoRequest
    BY <1>3 DEF Place, InAlloc
  <2> QED
    BY <1>3, <2>1, PlaceStep
<1>4. CASE \E p \in DOMAIN ptrs : Kfree(p)
  BY <1>4, KfreeStep
<1>5. CASE Halted \/ UNCHANGED vars
  BY <1>5, StutterStep DEF Halted, vars, GoesOn
<1> QED
  BY <1>1, <1>2, <1>3, <1>4, <1>5 DEF Next

(* The heap is well-formed in every state of every behaviour. *)
THEOREM HeapInvariant == RequestsFit => (Spec => []HeapInv)
<1> SUFFICES ASSUME RequestsFit PROVE Spec => []HeapInv
  OBVIOUS
<1>1. Init => HeapInv
  BY InitGood
<1>2. HeapInv /\ [Next]_vars => HeapInv'
  BY NextStep
<1> QED
  BY <1>1, <1>2, PTL DEF Spec

(* kheap.c keeps the heap tiled by its blocks: no two blocks overlap, none *)
(* leaves the heap, no byte is lost, and every boundary tag is where kfree *)
(* looks for it, after any sequence of kmalloc and kfree calls.            *)
THEOREM BlocksAlwaysTileTheHeap == RequestsFit => (Spec => []BlocksTileTheHeap)
<1> SUFFICES ASSUME RequestsFit PROVE Spec => []BlocksTileTheHeap
  OBVIOUS
<1>1. HeapInv => BlocksTileTheHeap
  <2> SUFFICES ASSUME HeapInv PROVE BlocksTileTheHeap
    OBVIOUS
  <2>1. Whole(mem, end_address) /\ end_address \in Int /\ HeapStart <= end_address
    BY GoodFacts DEF HeapInv
  <2>2. Tiles(mem, end_address)
    BY <2>1, WholeFacts DEF Tiles
  <2> QED
    BY <2>2 DEF HeapInv, BlocksTileTheHeap
<1> QED
  BY <1>1, HeapInvariant, PTL

(* The index lists holes only, each once, in the order of their sizes,     *)
(* although alloc and free resize holes that are in the index.             *)
THEOREM IndexIsAlwaysOrdered == RequestsFit => (Spec => []IndexIsOrdered)
<1> SUFFICES ASSUME RequestsFit PROVE Spec => []IndexIsOrdered
  OBVIOUS
<1>1. HeapInv => IndexIsOrdered
  BY DEF HeapInv, Good, IndexWF, IndexIsOrdered, Holes
<1> QED
  BY <1>1, HeapInvariant, PTL

(* free merges in both directions and alloc never leaves a hole next to a  *)
(* hole, so two holes never touch.                                         *)
THEOREM NoHolesAreEverAdjacent == RequestsFit => (Spec => []NoAdjacentHoles)
<1> SUFFICES ASSUME RequestsFit PROVE Spec => []NoAdjacentHoles
  OBVIOUS
<1>1. HeapInv => NoAdjacentHoles
  BY DEF HeapInv, Good, NoAdj, NoAdjacentHoles, Holes
<1> QED
  BY <1>1, HeapInvariant, PTL

(* The allocated blocks are the pointers that kmalloc has returned and     *)
(* kfree has not taken back, each as large and as aligned as requested.    *)
THEOREM OwnersAlwaysMatchBlocks == RequestsFit => (Spec => []OwnersMatchBlocks)
<1> SUFFICES ASSUME RequestsFit PROVE Spec => []OwnersMatchBlocks
  OBVIOUS
<1>1. HeapInv => OwnersMatchBlocks
  BY DEF HeapInv, Good, Owners, OwnersMatchBlocks, Blocks, Holes
<1> QED
  BY <1>1, HeapInvariant, PTL

(* When every pointer is freed, the heap is one single hole again: what    *)
(* kheap_killer expects at its end.                                        *)
THEOREM FreeingAllAlwaysLeavesOneHole == RequestsFit => (Spec => []FreeingAllLeavesOneHole)
<1> SUFFICES ASSUME RequestsFit PROVE Spec => []FreeingAllLeavesOneHole
  OBVIOUS
<1>1. HeapInv => FreeingAllLeavesOneHole
  <2> SUFFICES ASSUME HeapInv, ptrs = << >>
               PROVE  Cardinality(Blocks) = 1 /\ Holes = Blocks
    BY DEF FreeingAllLeavesOneHole
  <2>1. /\ Whole(mem, end_address) /\ end_address \in Int /\ HeapStart < end_address
        /\ HeapStart \in Int
    BY GoodFacts, LayoutAssumption DEF HeapInv
  <2>2. HolesOf(mem) = DOMAIN mem.hdr
    <3>1. DOMAIN ptrs = {}
      OBVIOUS
    <3> QED
      BY <3>1 DEF HeapInv, Good, Owners, HolesOf
  <2>3. PICK a \in DOMAIN mem.hdr : a <= HeapStart /\ HeapStart < After(mem.hdr, a)
    BY <2>1, WholeFacts
  <2>4. After(mem.hdr, a) = end_address
    BY <2>1, <2>2, RightNeighbour DEF HeapInv, Good, NoAdj
  <2>5. \A b \in DOMAIN mem.hdr : b = a
    <3> SUFFICES ASSUME NEW b \in DOMAIN mem.hdr, b # a PROVE FALSE
      OBVIOUS
    <3>1. /\ b \in Int /\ a \in Int /\ HeapStart <= b
          /\ After(mem.hdr, b) \in Int /\ b < After(mem.hdr, b)
          /\ After(mem.hdr, b) <= end_address
      BY <2>1, WholeFacts, TagAssumption
    <3>2. a < b \/ b < a
      BY <3>1
    <3>3. (a < b => end_address <= b) /\ (b < a => After(mem.hdr, b) <= a)
      BY <2>1, <2>4, WholeFacts
    <3> QED
      BY <2>1, <2>3, <3>1, <3>2, <3>3
  <2>6. DOMAIN mem.hdr = {a}
    BY <2>5
  <2> QED
    BY <2>2, <2>6, FS_Singleton DEF Blocks, Holes
<1> QED
  BY <1>1, HeapInvariant, PTL

(* No kmalloc or kfree touches the block of a pointer that stays held.     *)
THEOREM HeldBlocksAlwaysStay == RequestsFit => (Spec => HeldBlocksStay)
<1> SUFFICES ASSUME RequestsFit PROVE Spec => HeldBlocksStay
  OBVIOUS
<1>1. HeapInv /\ [Next]_vars =>
        [\A p \in DOMAIN ptrs \cap DOMAIN ptrs' :
           LET a == p - HeaderSize
           IN  a \in DOMAIN mem'.hdr /\ mem'.hdr[a] = mem.hdr[a]]_vars
  BY NextStep DEF HeldStay
<1> QED
  BY <1>1, HeapInvariant, PTL DEF Spec, HeldBlocksStay

----------------------------------------------------------------------------
(* Types and refinement: what each operation does to the variables,        *)
(* without the blocks                                                      *)

Failed(assertion) == panic' = assertion /\ UNCHANGED <<mem, ptrs, req>>

LEMMA ExpandEffect ==
    ASSUME Expand
    PROVE  \/ Failed("new_end <= max_address") \/ Failed("last hole is indexed")
           \/ /\ panic' = panic /\ ptrs' = ptrs
              /\ req' = [req EXCEPT !.rounds = NextRound(@)]
              /\ \E a, s : mem' = MakeBlock(mem, a, s, IS_HOLE)
<1> DEFINE Grown(l, b) ==
             /\ mem' = MakeBlock(mem, IF IsHole(b) THEN l ELSE end_address,
                  IF IsHole(b)
                  THEN Add32(b.size, AlignToPage(Add32(req.size, META)))
                  ELSE Sub32(AlignToPage(Add32(req.size, META)), META), IS_HOLE)
             /\ req' = [req EXCEPT !.rounds = NextRound(@)]
             /\ UNCHANGED <<ptrs, panic>>
<1>1. \E l, b : \/ Panic("new_end <= max_address") \/ Panic("last hole is indexed")
                \/ Grown(l, b)
  BY Zenon DEF Expand
<1>2. ASSUME NEW l, NEW b, Grown(l, b)
      PROVE  /\ panic' = panic /\ ptrs' = ptrs
             /\ req' = [req EXCEPT !.rounds = NextRound(@)]
             /\ \E a, s : mem' = MakeBlock(mem, a, s, IS_HOLE)
  BY <1>2, Zenon
<1>3. \A s : Panic(s) => Failed(s)
  BY DEF Panic, Failed
<1> HIDE DEF Grown
<1> QED
  BY <1>1, <1>2, <1>3

Granted(a) ==
    [p \in DOMAIN ptrs \cup {AllocPos(a, req.align)} |->
       IF p = AllocPos(a, req.align) THEN [size |-> req.size, align |-> req.align]
                                     ELSE ptrs[p]]

LEMMA PlaceEffect ==
    ASSUME Place
    PROVE  \/ Failed("block_size >= size")
           \/ /\ panic' = panic /\ req' = NoRequest
              /\ \E i \in 1..Len(index) : /\ Fits(index[i], req.size, req.align)
                                          /\ ptrs' = Granted(index[i])
              /\ \E m, a, s, hole : mem' = MakeBlock(m, a, s, hole)
<1> DEFINE Cut(a)    == AllocPos(a, req.align) - HeaderSize - a
           Block(a)  == Sub32(mem.hdr[a].size, Cut(a))
           Remain(a) == Sub32(Block(a), req.size)
           Taken2(a) == IF KeepsAll(Remain(a)) THEN Block(a) ELSE req.size
           N1(a) == IF Cut(a) > 0 THEN MakeBlock(mem, a, Cut(a) - META, IS_HOLE) ELSE mem
           N2(a) == MakeBlock(N1(a), AllocPos(a, req.align) - HeaderSize, Taken2(a), NOT_HOLE)
           N3(a) == IF KeepsAll(Remain(a)) THEN N2(a)
                    ELSE MakeBlock(N2(a),
                           AllocPos(a, req.align) - HeaderSize + META + Taken2(a),
                           Remain(a) - META, IS_HOLE)
           Done(a) == /\ mem' = N3(a) /\ ptrs' = Granted(a)
                      /\ req' = NoRequest
                      /\ UNCHANGED <<end_address, size, panic>>
<1>1. \E i \in 1..Len(index) :
         Found(i) /\ (Panic("block_size >= size") \/ Done(index[i]))
  BY Zenon DEF Place, Granted
<1>2. ASSUME NEW a, Done(a)
      PROVE  /\ panic' = panic /\ req' = NoRequest /\ ptrs' = Granted(a)
             /\ \E m, b, s, hole : mem' = MakeBlock(m, b, s, hole)
  <2>1. panic' = panic /\ req' = NoRequest /\ ptrs' = Granted(a) /\ mem' = N3(a)
    BY <1>2
  <2>2. \E m, b, s, hole : N3(a) = MakeBlock(m, b, s, hole)
    <3> HIDE DEF Remain, Taken2, N1
    <3>1. CASE KeepsAll(Remain(a))
      BY <3>1, Zenon
    <3>2. CASE ~ (KeepsAll(Remain(a)))
      <4> HIDE DEF N2
      <4> QED
        BY <3>2, Zenon
    <3> QED
      BY <3>1, <3>2
  <2> HIDE DEF N3
  <2> QED
    BY <2>1, <2>2
<1>3. \A s : Panic(s) => Failed(s)
  BY DEF Panic, Failed
<1>4. \A i : Found(i) => Fits(index[i], req.size, req.align)
  BY DEF Found
<1> HIDE DEF Done
<1>5. PICK i \in 1..Len(index) :
        Found(i) /\ (Panic("block_size >= size") \/ Done(index[i]))
  BY <1>1
<1>6. CASE Panic("block_size >= size")
  BY <1>3, <1>6
<1>7. CASE Done(index[i])
  <2>1. /\ panic' = panic /\ req' = NoRequest /\ ptrs' = Granted(index[i])
        /\ \E m, b, s, hole : mem' = MakeBlock(m, b, s, hole)
    BY <1>2, <1>7
  <2>2. Fits(index[i], req.size, req.align)
    BY <1>4, <1>5
  <2> QED
    BY <2>1, <2>2, Zenon
<1> QED
  BY <1>5, <1>6, <1>7

LEMMA KfreeEffect ==
    ASSUME NEW p, Kfree(p)
    PROVE  \/ Failed("footer->magic") \/ Failed("right hole is indexed")
           \/ Failed("left hole is indexed")
           \/ /\ panic' = panic /\ req' = req
              /\ ptrs' = [q \in DOMAIN ptrs \ {p} |-> ptrs[q]]
              /\ \/ mem' = MarkHole(mem, p - HeaderSize)
                 \/ \E m, a, s : mem' = MakeBlock(m, a, s, IS_HOLE)
<1> DEFINE h == p - HeaderSize
           freed == MarkHole(mem, h)
           R1(r) == IF IsHole(r)
                    THEN MakeBlock(freed, h,
                           Joined(mem.hdr[h].size, r.size), IS_HOLE)
                    ELSE freed
           M2(m, l, b) == IF IsHole(b)
                          THEN MakeBlock(m, l,
                                 Joined(b.size, m.hdr[h].size), IS_HOLE)
                          ELSE m
           Done(r, l, b) ==
             /\ mem' = M2(R1(r), l, b)
             /\ ptrs' = [q \in DOMAIN ptrs \ {p} |-> ptrs[q]]
             /\ UNCHANGED <<end_address, size, req, panic>>
<1>1. \E r, l, b :
         \/ Panic("footer->magic") \/ Panic("right hole is indexed")
         \/ Panic("left hole is indexed") \/ Done(r, l, b)
  BY ZenonT(30) DEF Kfree
<1>2. ASSUME NEW r, NEW l, NEW b, Done(r, l, b)
      PROVE  /\ panic' = panic /\ req' = req
             /\ ptrs' = [q \in DOMAIN ptrs \ {p} |-> ptrs[q]]
             /\ \/ mem' = freed
                \/ \E m, a, s : mem' = MakeBlock(m, a, s, IS_HOLE)
  <2>1. /\ panic' = panic /\ req' = req /\ mem' = M2(R1(r), l, b)
        /\ ptrs' = [q \in DOMAIN ptrs \ {p} |-> ptrs[q]]
    BY <1>2
  <2>2. R1(r) = freed \/ \E m, a, s : R1(r) = MakeBlock(m, a, s, IS_HOLE)
    <3> HIDE DEF freed
    <3> QED
      BY Zenon
  <2>3. \/ M2(R1(r), l, b) = R1(r)
        \/ \E m, a, s : M2(R1(r), l, b) = MakeBlock(m, a, s, IS_HOLE)
    <3> HIDE DEF R1, freed
    <3> QED
      BY Zenon
  <2> HIDE DEF R1, M2, freed
  <2> QED
    BY <2>1, <2>2, <2>3
<1>3. \A s : Panic(s) => Failed(s)
  BY DEF Panic, Failed
<1> HIDE DEF Done
<1> QED
  BY <1>1, <1>2, <1>3

----------------------------------------------------------------------------
(* Types *)

LEMMA RequestsAreSizes == \A n \in Requests : n \in Nat \ {0}
<1>1. WordSize \in Nat
  BY LayoutAssumption
<1>2. Requests \subseteq 1..(WordSize - 1)
  BY RequestAssumption
<1> QED
  BY <1>1, <1>2

TypeInv ==
    /\ mem.hdr = [a \in DOMAIN mem.hdr |-> mem.hdr[a]]
    /\ mem.ftr = [f \in DOMAIN mem.ftr |-> mem.ftr[f]]
    /\ ptrs \in [DOMAIN ptrs -> [size : Requests, align : BOOLEAN]]
    /\ req \in [size : Requests, align : BOOLEAN, rounds : 1..MaxRounds] \cup {NoRequest}
    /\ panic \in Assertions \cup {Running}

FunctionTags(m) ==
    /\ m.hdr = [a \in DOMAIN m.hdr |-> m.hdr[a]]
    /\ m.ftr = [f \in DOMAIN m.ftr |-> m.ftr[f]]

LEMMA TagsStayFunctions ==
    ASSUME NEW m, NEW a, NEW s, NEW hole
    PROVE  /\ FunctionTags(MakeBlock(m, a, s, hole))
           /\ FunctionTags(m) => FunctionTags(MarkHole(m, a))
BY DEF FunctionTags, MakeBlock, MarkHole

LEMMA InitTypes == Init => TypeInv
<1> SUFFICES ASSUME Init PROVE TypeInv
  OBVIOUS
<1>1. FunctionTags(mem)
  BY TagsStayFunctions DEF Init
<1>2. ptrs \in [DOMAIN ptrs -> [size : Requests, align : BOOLEAN]]
  BY DEF Init
<1>3. req = NoRequest /\ panic = Running
  BY DEF Init
<1>4. panic \in Assertions \cup {Running}
  BY <1>3
<1> HIDE DEF NoRequest
<1> QED
  BY <1>1, <1>2, <1>3, <1>4 DEF TypeInv, FunctionTags

LEMMA NextTypes ==
    ASSUME TypeInv, [Next]_vars
    PROVE  TypeInv'
<1> DEFINE Pointers(p) == p \in [DOMAIN p -> [size : Requests, align : BOOLEAN]]
           Reqs == [size : Requests, align : BOOLEAN, rounds : 1..MaxRounds]
<1>1. /\ FunctionTags(mem) /\ Pointers(ptrs) /\ req \in Reqs \cup {NoRequest}
      /\ panic \in Assertions \cup {Running}
  BY DEF TypeInv, FunctionTags
<1> SUFFICES /\ FunctionTags(mem') /\ Pointers(ptrs') /\ req' \in Reqs \cup {NoRequest}
             /\ panic' \in Assertions \cup {Running}
  BY DEF TypeInv, FunctionTags
<1> HIDE DEF Pointers, Reqs
<1> DEFINE Typed == /\ FunctionTags(mem') /\ Pointers(ptrs')
                    /\ req' \in Reqs \cup {NoRequest} /\ panic' \in Assertions \cup {Running}
<1>2. ASSUME NEW s \in Assertions, Failed(s) PROVE Typed
  BY <1>1, <1>2 DEF Failed
<1>9. \/ Failed("new_end <= max_address") \/ Failed("last hole is indexed")
      \/ Failed("block_size >= size") \/ Failed("footer->magic")
      \/ Failed("right hole is indexed") \/ Failed("left hole is indexed")
      => Typed
  <2> HIDE DEF Typed
  <2> QED
    BY <1>2 DEF Assertions
<1>3. CASE \E sz \in Requests, align \in BOOLEAN : Kmalloc(sz, align)
  <2>1. PICK sz \in Requests, align \in BOOLEAN : Kmalloc(sz, align)
    BY <1>3
  <2>2. /\ mem' = mem /\ ptrs' = ptrs /\ panic' = panic
        /\ req' = [size |-> sz, align |-> align, rounds |-> 1]
    BY <2>1 DEF Kmalloc
  <2>3. 1 \in 1..MaxRounds
    BY RequestAssumption
  <2>4. req' \in Reqs
    BY <2>2, <2>3 DEF Reqs
  <2> QED
    BY <1>1, <2>2, <2>4
<1>4. CASE Expand
  <2>1. req \in Reqs
    BY <1>1, <1>4 DEF Expand, InAlloc
  <2>2. CASE /\ panic' = panic /\ ptrs' = ptrs
             /\ req' = [req EXCEPT !.rounds = NextRound(@)]
             /\ \E a, s : mem' = MakeBlock(mem, a, s, IS_HOLE)
    <3>1. NextRound(req.rounds) \in 1..MaxRounds
      BY <2>1, RequestAssumption DEF Reqs, NextRound
    <3>2. req' \in Reqs
      BY <2>1, <2>2, <3>1 DEF Reqs
    <3>3. FunctionTags(mem')
      BY <2>2, TagsStayFunctions
    <3> QED
      BY <1>1, <2>2, <3>2, <3>3
  <2> QED
    BY <1>4, <1>9, <2>2, ExpandEffect, Zenon
<1>5. CASE Place
  <2>1. req \in Reqs
    BY <1>1, <1>5 DEF Place, InAlloc
  <2>2. CASE /\ panic' = panic /\ req' = NoRequest
             /\ \E i \in 1..Len(index) : /\ Fits(index[i], req.size, req.align)
                                         /\ ptrs' = Granted(index[i])
             /\ \E m, a, s, hole : mem' = MakeBlock(m, a, s, hole)
    <3>1. FunctionTags(mem')
      BY <2>2, TagsStayFunctions
    <3>2. PICK a : ptrs' = Granted(a)
      BY <2>2
    <3>3. Pointers(Granted(a))
      <4> DEFINE pos == AllocPos(a, req.align)
                 new == [size |-> req.size, align |-> req.align]
      <4>1. new \in [size : Requests, align : BOOLEAN]
        BY <2>1 DEF Reqs
      <4>2. \A p \in DOMAIN ptrs : ptrs[p] \in [size : Requests, align : BOOLEAN]
        BY <1>1 DEF Pointers
      <4>3. /\ Granted(a) = [p \in DOMAIN ptrs \cup {pos} |-> IF p = pos THEN new ELSE ptrs[p]]
            /\ DOMAIN Granted(a) = DOMAIN ptrs \cup {pos}
        BY DEF Granted
      <4> HIDE DEF pos, new
      <4> QED
        BY <4>1, <4>2, <4>3 DEF Pointers
    <3> QED
      BY <1>1, <2>2, <3>1, <3>2, <3>3
  <2> QED
    BY <1>5, <1>9, <2>2, PlaceEffect, Zenon
<1>6. CASE \E p \in DOMAIN ptrs : Kfree(p)
  <2>1. PICK p \in DOMAIN ptrs : Kfree(p)
    BY <1>6
  <2>2. CASE /\ panic' = panic /\ req' = req
             /\ ptrs' = [q \in DOMAIN ptrs \ {p} |-> ptrs[q]]
             /\ \/ mem' = MarkHole(mem, p - HeaderSize)
                \/ \E m, a, s : mem' = MakeBlock(m, a, s, IS_HOLE)
    <3>1. FunctionTags(mem')
      BY <1>1, <2>2, TagsStayFunctions
    <3>2. Pointers(ptrs')
      BY <1>1, <2>2 DEF Pointers
    <3> QED
      BY <1>1, <2>2, <3>1, <3>2
  <2> QED
    BY <1>9, <2>1, <2>2, KfreeEffect, Zenon
<1>7. CASE Halted \/ UNCHANGED vars
  BY <1>1, <1>7 DEF Halted, vars
<1> QED
  BY <1>3, <1>4, <1>5, <1>6, <1>7 DEF Next

(* Addresses stay inside the heap, sizes positive, and index entries and   *)
(* footers point to headers.                                               *)
THEOREM TypeCorrectness == RequestsFit => (Spec => []TypeOK)
<1> SUFFICES ASSUME RequestsFit PROVE Spec => []TypeOK
  OBVIOUS
<1>1. HeapInv /\ TypeInv => TypeOK
  <2> SUFFICES ASSUME HeapInv, TypeInv PROVE TypeOK
    OBVIOUS
  <2>1. /\ Whole(mem, end_address) /\ end_address \in Int /\ HeapStart < end_address
        /\ end_address \in InitialEnd..MaxAddress
        /\ IndexWF(mem, index)
        /\ HeapStart \in Nat /\ MaxAddress \in Nat /\ InitialEnd \in Nat
        /\ HeaderSize \in Nat \ {0} /\ FooterSize \in Nat \ {0}
    BY GoodFacts, LayoutAssumption, TagAssumption DEF HeapInv, Good
  <2>2. ASSUME NEW a \in DOMAIN mem.hdr
        PROVE  /\ a \in HeapStart..(MaxAddress - 1)
               /\ mem.hdr[a] \in [size : 1..MaxAddress, is_hole : {NOT_HOLE, IS_HOLE}]
    <3>1. /\ a \in Int /\ mem.hdr[a] \in BlockType /\ HeapStart <= a
          /\ After(mem.hdr, a) <= end_address
      BY <2>1, WholeFacts
    <3>2. mem.hdr[a].size \in Nat \ {0} /\ a + mem.hdr[a].size + META <= end_address
      BY <3>1 DEF BlockType, After
    <3> DEFINE s == mem.hdr[a].size
    <3>3. a <= MaxAddress - 1 /\ s \in 1..MaxAddress
      <4>1. s \in Nat \ {0} /\ a + s + META <= end_address /\ a \in Int /\ HeapStart <= a
        BY <3>1, <3>2
      <4>2. end_address <= MaxAddress
        BY <2>1
      <4> HIDE DEF s
      <4> QED
        BY <2>1, <4>1, <4>2
    <3> QED
      BY <2>1, <3>1, <3>3 DEF BlockType
  <2>3. mem.hdr \in [DOMAIN mem.hdr -> [size : 1..MaxAddress, is_hole : {NOT_HOLE, IS_HOLE}]]
    BY <2>2 DEF TypeInv
  <2>4. mem.ftr \in [DOMAIN mem.ftr -> DOMAIN mem.hdr]
    <3>1. \A f \in DOMAIN mem.ftr : mem.ftr[f] \in DOMAIN mem.hdr
      BY <2>1, WholeFacts
    <3> QED
      BY <3>1 DEF TypeInv
  <2>5. index \in [1..Len(index) -> DOMAIN mem.hdr]
    <3>1. index \in Seq(Int) /\ \A i \in 1..Len(index) : index[i] \in DOMAIN mem.hdr
      BY <2>1 DEF IndexWF, Items
    <3> QED
      BY <3>1
  <2>6. size \in 0..MaxAddress
    BY <2>1 DEF HeapInv
  <2>7. DOMAIN mem.hdr \subseteq HeapStart..(MaxAddress - 1)
    BY <2>2
  <2> QED
    BY <2>1, <2>3, <2>4, <2>5, <2>6, <2>7 DEF TypeOK, TypeInv
<1>2. Spec => []TypeInv
  BY InitTypes, NextTypes, PTL DEF Spec
<1> QED
  BY <1>1, <1>2, HeapInvariant, PTL

----------------------------------------------------------------------------
(* The refinement *)

LEMMA InitRefines == Init => Promise!Init
BY DEF Init, Promise!Init, Running

(* The bytes that alloc grants lie in the hole that it has taken, so no    *)
(* block of a held pointer has any of them.                                *)
LEMMA GrantUsable ==
    ASSUME RequestsFit, HeapInv, req # NoRequest, NEW i \in 1..Len(index),
           Fits(index[i], req.size, req.align),
           NEW pos, pos = AllocPos(index[i], req.align)
    PROVE  /\ pos \in HeapStart..(MaxAddress - 1)
           /\ Promise!Usable(pos, req.size, req.align)
<1> DEFINE a == index[i]
           n == req.size
<1>1. /\ Good(mem, index, end_address, ptrs)
      /\ n \in Requests /\ req.align \in BOOLEAN
  BY DEF HeapInv
<1>2. /\ end_address \in Int /\ end_address <= MaxAddress /\ Whole(mem, end_address)
      /\ \A c \in DOMAIN mem.hdr : c \in Int /\ mem.hdr[c].size \in Nat \ {0}
  BY <1>1, GoodFacts
<1>3. /\ HeaderSize \in Nat \ {0} /\ FooterSize \in Nat \ {0}
      /\ MaxAddress \in Nat /\ HeapStart \in Nat /\ n \in Nat \ {0}
  BY <1>1, TagAssumption, LayoutAssumption, RequestsAreSizes
<1>4. a \in HolesOf(mem) /\ a \in DOMAIN mem.hdr /\ a \in Int
  <2>1. a \in Items(index) /\ Items(index) \subseteq HolesOf(mem)
    BY <1>1 DEF Items, Good
  <2> HIDE DEF a
  <2> QED
    BY <1>2, <2>1 DEF HolesOf
<1>5. /\ pos \in Nat /\ pos - HeaderSize - a \in Nat
      /\ pos + n + FooterSize <= After(mem.hdr, a)
      /\ req.align => pos % PageSize = 0
  BY <1>1, <1>2, <1>4, FitsFacts
<1> HIDE DEF a, n
<1>6. /\ HeapStart <= a /\ After(mem.hdr, a) \in Int
      /\ After(mem.hdr, a) <= end_address
      /\ a + HeaderSize <= pos /\ pos + n < After(mem.hdr, a)
  BY SMTT(30), <1>2, <1>3, <1>4, <1>5, WholeFacts
<1>7. pos \in HeapStart..(MaxAddress - 1)
  BY SMTT(30), <1>2, <1>3, <1>4, <1>5, <1>6
<1>8. pos..(pos + n - 1) \subseteq HeapStart..(MaxAddress - 1)
  <2>1. HeapStart <= pos /\ pos + n - 1 <= MaxAddress - 1
    BY SMTT(30), <1>2, <1>3, <1>4, <1>5, <1>6
  <2> QED
    BY SMTT(30), <1>3, <1>5, <2>1
<1>9. ASSUME NEW q \in DOMAIN ptrs, NEW x \in Int,
             pos <= x, x <= pos + n - 1, q <= x, x <= q + ptrs[q].size - 1
      PROVE  FALSE
  <2> DEFINE b == q - HeaderSize
  <2>1. /\ q \in Int /\ b \in DOMAIN mem.hdr \ HolesOf(mem)
        /\ ptrs[q].size \in Requests /\ ptrs[q].size <= mem.hdr[b].size
    BY <1>1 DEF Good, Owners
  <2>2. ptrs[q].size \in Int
    BY <2>1, RequestsAreSizes
  <2>3. /\ b \in Int /\ q = b + HeaderSize /\ mem.hdr[b].size \in Nat
        /\ After(mem.hdr, b) = b + mem.hdr[b].size + META
    BY <1>2, <1>3, <2>1 DEF After
  <2> HIDE DEF b
  <2>4. a # b
    BY <1>4, <2>1
  <2>5. (a < b => After(mem.hdr, a) <= b) /\ (b < a => After(mem.hdr, b) <= a)
    BY <1>2, <1>4, <2>1, WholeFacts
  <2>6. b < x /\ x < After(mem.hdr, b)
    BY SMTT(30), <1>3, <1>9, <2>1, <2>2, <2>3
  <2>7. a < x /\ x < After(mem.hdr, a)
    <3>1. pos \in Int /\ n \in Int /\ After(mem.hdr, a) \in Int
      BY <1>3, <1>5, <1>6
    <3>2. a + HeaderSize <= pos /\ pos + n < After(mem.hdr, a)
      BY <1>6
    <3>3. pos <= x /\ x <= pos + n - 1
      BY <1>9
    <3> QED
      BY <1>3, <1>4, <3>1, <3>2, <3>3
  <2>8. After(mem.hdr, a) \in Int /\ After(mem.hdr, b) \in Int
    BY <1>2, <1>4, <2>1, WholeFacts
  <2>9. a < b \/ b < a
    BY <1>4, <2>3, <2>4
  <2> QED
    BY <1>4, <2>3, <2>5, <2>6, <2>7, <2>8, <2>9
<1>10. ASSUME NEW q \in DOMAIN ptrs
       PROVE  pos..(pos + n - 1) \cap q..(q + ptrs[q].size - 1) = {}
  <2>1. q \in Int /\ ptrs[q].size \in Int
    BY <1>1, RequestsAreSizes DEF Good, Owners
  <2> QED
    BY <1>3, <1>5, <1>9, <2>1
<1> QED
  BY <1>5, <1>7, <1>8, <1>10 DEF Promise!Usable, Promise!Bytes, n

LEMMA StepRefines ==
    ASSUME RequestsFit, HeapInv, TypeInv, [Next]_vars
    PROVE  [Promise!Next]_(Promise!heapVars)
<1> DEFINE Stutter == ptrs' = ptrs /\ panic' = panic
<1>1. ASSUME Stutter PROVE UNCHANGED Promise!heapVars
  BY <1>1 DEF Promise!heapVars
<1>2. ASSUME NEW s, Failed(s), s # Running PROVE Promise!Next
  <2>1. (panic # Running)' = TRUE /\ ptrs' = ptrs
    BY <1>2 DEF Failed
  <2> QED
    BY <2>1, Zenon DEF Promise!Next, Promise!Stop
<1>3. /\ "new_end <= max_address" # Running /\ "last hole is indexed" # Running
      /\ "block_size >= size" # Running /\ "footer->magic" # Running
      /\ "right hole is indexed" # Running /\ "left hole is indexed" # Running
  BY DEF Running
<1> HIDE DEF Stutter
<1>4. CASE \E sz \in Requests, align \in BOOLEAN : Kmalloc(sz, align)
  BY <1>1, <1>4 DEF Kmalloc, Stutter
<1>5. CASE Expand
  BY <1>1, <1>2, <1>3, <1>5, ExpandEffect DEF Stutter
<1>6. CASE Place
  <2>1. req # NoRequest /\ panic = Running
    BY <1>6 DEF Place, InAlloc
  <2>2. CASE /\ panic' = panic /\ req' = NoRequest
             /\ \E i \in 1..Len(index) : /\ Fits(index[i], req.size, req.align)
                                         /\ ptrs' = Granted(index[i])
             /\ \E m, a, s, hole : mem' = MakeBlock(m, a, s, hole)
    <3>1. PICK i \in 1..Len(index) : /\ Fits(index[i], req.size, req.align)
                                     /\ ptrs' = Granted(index[i])
      BY <2>2
    <3> DEFINE pos == AllocPos(index[i], req.align)
    <3>2. pos \in HeapStart..(MaxAddress - 1) /\ Promise!Usable(pos, req.size, req.align)
      BY <2>1, <3>1, GrantUsable
    <3>3. ptrs' = [q \in DOMAIN ptrs \cup {pos} |->
                     IF q = pos THEN [size |-> req.size, align |-> req.align] ELSE ptrs[q]]
      BY <3>1 DEF Granted
    <3> HIDE DEF pos
    <3>4. ~ (panic # Running) /\ (panic # Running)' = (panic # Running)
      BY <2>1, <2>2
    <3>5. Promise!Malloc(req.size, req.align)
      BY <3>2, <3>3, <3>4, Zenon DEF Promise!Malloc
    <3>6. req.size \in Requests /\ req.align \in BOOLEAN
      BY <2>1 DEF HeapInv
    <3> QED
      BY <3>5, <3>6, Zenon DEF Promise!Next
  <2> QED
    BY <1>2, <1>3, <1>6, <2>2, PlaceEffect
<1>7. CASE \E p \in DOMAIN ptrs : Kfree(p)
  <2>1. PICK p \in DOMAIN ptrs : Kfree(p)
    BY <1>7
  <2>2. CASE /\ panic' = panic /\ req' = req
             /\ ptrs' = [q \in DOMAIN ptrs \ {p} |-> ptrs[q]]
             /\ \/ mem' = MarkHole(mem, p - HeaderSize)
                \/ \E m, a, s : mem' = MakeBlock(m, a, s, IS_HOLE)
    <3>1. panic = Running
      BY <2>1 DEF Kfree
    <3>2. ~ (panic # Running) /\ (panic # Running)' = (panic # Running)
      BY <2>2, <3>1
    <3>3. Promise!Free(p)
      BY <2>1, <2>2, <3>2, Zenon DEF Promise!Free
    <3> QED
      BY <2>1, <3>3, Zenon DEF Promise!Next
  <2> QED
    BY <1>2, <1>3, <2>1, <2>2, KfreeEffect
<1>8. CASE Halted \/ UNCHANGED vars
  BY <1>1, <1>8 DEF Halted, vars, Stutter
<1> QED
  BY <1>4, <1>5, <1>6, <1>7, <1>8 DEF Next

(* kmalloc and kfree do what kheap.h promises: the bytes of a pointer are  *)
(* its owner's alone until kfree, inside the heap and aligned as asked.    *)
THEOREM HeapImplementsHeapSpec == RequestsFit => (Spec => ImplementsHeapSpec)
<1> SUFFICES ASSUME RequestsFit PROVE Spec => Promise!Spec
  BY DEF ImplementsHeapSpec
<1>1. Spec => []TypeInv
  BY InitTypes, NextTypes, PTL DEF Spec
<1>2. HeapInv /\ TypeInv /\ [Next]_vars => [Promise!Next]_(Promise!heapVars)
  BY StepRefines
<1> QED
  BY <1>1, <1>2, InitRefines, HeapInvariant, PTL DEF Spec, Promise!Spec
----------------------------------------------------------------------------
(* A step of the heap while the index has room *)

(* A sum of multiples of the page size is one. *)
LEMMA PagesAdd ==
    ASSUME NEW x \in Nat, NEW y \in Nat, NEW P \in Nat \ {0}, x % P = 0, y % P = 0
    PROVE  (x + y) % P = 0
<1>1. /\ x = P * (x \div P) + (x % P) /\ x \div P \in Int
      /\ y = P * (y \div P) + (y % P) /\ y \div P \in Int
  OBVIOUS
<1> DEFINE a == x \div P
           b == y \div P
<1>2. x = P * a /\ y = P * b /\ a \in Int /\ b \in Int
  BY <1>1
<1> HIDE DEF a, b
<1>3. x + y = (a + b) * P
  BY <1>2
<1>4. ((a + b) * P) % P = 0
  BY <1>2, Multiple
<1> QED
  BY <1>3, <1>4

LEMMA AtLeastAPage ==
    ASSUME NEW x \in Nat \ {0}, NEW P \in Nat \ {0}, x % P = 0
    PROVE  x >= P
BY x < P => x % P = x

(* The pages that alloc adds for its request. *)
LEMMA ExtendedFacts ==
    ASSUME RequestsFit, req.size \in Requests
    PROVE  /\ Extended \in Nat /\ Extended % PageSize = 0
           /\ req.size + META <= Extended /\ PageSize <= Extended
<1>1. /\ req.size \in Nat \ {0} /\ MaxAddress + 2 * PageSize + req.size + META < WordSize
      /\ HeaderSize \in Nat \ {0} /\ FooterSize \in Nat \ {0} /\ PageSize \in Nat \ {0}
      /\ MaxAddress \in Nat /\ WordSize \in Nat
  BY RequestsAreSizes, TagAssumption, LayoutAssumption DEF RequestsFit
<1> DEFINE x == Add32(req.size, META)
<1>2. x = req.size + META
  BY <1>1 DEF Add32
<1> HIDE DEF x
<1>3. x \in Nat \ {0} /\ x + PageSize < WordSize
  BY <1>1, <1>2
<1>4. /\ AlignToPage(x) \in Nat /\ x <= AlignToPage(x) /\ AlignToPage(x) % PageSize = 0
  BY <1>3, AlignFacts
<1>5. Extended = AlignToPage(x)
  BY DEF Extended, x
<1>6. Extended \in Nat \ {0}
  BY <1>3, <1>4, <1>5
<1> QED
  BY <1>1, <1>2, <1>4, <1>5, <1>6, AtLeastAPage

AtPage(x) == x % PageSize = 0

(* The last hole after alloc has grown the heap k times. *)
Grown(a, k) ==
    /\ EndsWith(mem, end_address, a)
    /\ \/ mem.hdr[a].size >= k * Extended
       \/ AtPage(a) /\ mem.hdr[a].size + META >= k * Extended

(* Twice is enough, wherever the last hole begins. *)
LEMMA FitsAfterTwo ==
    ASSUME RequestsFit, HeapInv, req # NoRequest, NEW a, Grown(a, 2)
    PROVE  Fits(a, req.size, req.align)
<1> DEFINE n     == req.size
           start == a + HeaderSize
           s     == mem.hdr[a].size
           last  == start + s
           q     == AlignToPage(start)
           p     == FirstCut(start)
<1>1. req.size \in Requests /\ req.align \in BOOLEAN
  BY DEF HeapInv
<1>2. /\ Extended \in Nat /\ n + META <= Extended /\ PageSize <= Extended
  BY <1>1, ExtendedFacts
<1>3. /\ n \in Nat \ {0} /\ MaxAddress + 2 * PageSize + n + META < WordSize
      /\ HeaderSize \in Nat \ {0} /\ FooterSize \in Nat \ {0} /\ PageSize \in Nat \ {0}
      /\ MaxAddress \in Nat /\ WordSize \in Nat /\ HeapStart \in Nat
      /\ PageSize > HeaderSize + META
  BY <1>1, RequestsAreSizes, TagAssumption, LayoutAssumption DEF RequestsFit
<1>4. /\ a \in Nat /\ s \in Nat \ {0} /\ a + s + META <= MaxAddress
  <2>1. /\ Whole(mem, end_address) /\ end_address \in Int /\ end_address <= MaxAddress
        /\ a \in DOMAIN mem.hdr /\ After(mem.hdr, a) = end_address
    BY GoodFacts DEF HeapInv, Grown, EndsWith, HolesOf
  <2>2. a \in Int /\ HeapStart <= a /\ mem.hdr[a] \in BlockType
    BY <2>1, WholeFacts
  <2>3. s \in Nat \ {0}
    BY <2>2 DEF BlockType
  <2> QED
    BY <1>3, <2>1, <2>2, <2>3 DEF After
<1>5. s >= 2 * Extended \/ (AtPage(a) /\ s + META >= 2 * Extended)
  BY DEF Grown
<1>6. n <= s
  <2> HIDE DEF n, s
  <2> QED
    BY <1>2, <1>3, <1>4, <1>5
<1>7. /\ start \in Nat /\ start + PageSize < WordSize
  BY <1>3, <1>4
<1>8. q \in Nat /\ start <= q /\ q < start + PageSize /\ q % PageSize = 0
  BY <1>7, AlignFacts
<1>9. p = IF q - start > META THEN q ELSE q + PageSize
  BY DEF FirstCut
<1>10. q <= p /\ p \in Nat /\ p + n <= last /\ p <= MaxAddress
  <2>1. CASE s >= 2 * Extended
    <3> HIDE DEF n, s, q, p
    <3>1. q <= p /\ p \in Nat /\ p <= start + PageSize + META
      BY <1>3, <1>7, <1>8, <1>9
    <3> HIDE DEF start
    <3>2. PageSize + META + n <= s
      BY <1>2, <1>3, <1>4, <2>1
    <3>3. p + n <= start + s
      BY <1>3, <1>4, <1>7, <3>1, <3>2
    <3>4. p <= MaxAddress
      BY <1>3, <1>4, <3>1, <3>3 DEF start
    <3> QED
      BY <3>1, <3>3, <3>4
  <2>2. CASE AtPage(a) /\ s + META >= 2 * Extended
    <3>1. q = a + PageSize
      <4>1. a % PageSize = 0 /\ (a + PageSize) % PageSize = 0
        BY <1>3, <1>4, <2>2, NextPage DEF AtPage
      <4>2. a < q /\ q < a + 2 * PageSize
        BY <1>3, <1>4, <1>8
      <4> HIDE DEF q
      <4>3. q = PageSize * (q \div PageSize) /\ q \div PageSize \in Int
        BY <1>3, <1>8
      <4>4. a = PageSize * (a \div PageSize) /\ a \div PageSize \in Int
        BY <1>3, <1>4, <4>1
      <4> DEFINE i == q \div PageSize
                 j == a \div PageSize
      <4>5. i \in Int /\ j \in Int /\ q = PageSize * i /\ a = PageSize * j
        BY <4>3, <4>4
      <4> HIDE DEF i, j
      <4>6. PageSize * (i - j) = q - a
        BY <1>3, <4>5
      <4>7. i - j >= 1
        BY <1>3, <1>4, <1>8, <4>2, <4>5, <4>6
      <4>8. i - j < 2
        <5>1. SUFFICES ASSUME i - j >= 2 PROVE FALSE
          BY <4>5
        <5>2. PageSize * (i - j) >= PageSize * 2
          BY <1>3, <4>5, <5>1
        <5> QED
          BY <1>3, <1>4, <1>8, <4>2, <4>6, <5>2
      <4>9. i - j = 1
        BY <4>5, <4>7, <4>8
      <4> QED
        BY <1>3, <1>4, <1>8, <4>6, <4>9
    <3> HIDE DEF n, s, q, p
    <3>2. p = q
      BY <1>3, <1>4, <1>9, <3>1
    <3>3. a + PageSize + n <= a + HeaderSize + s
      BY <1>2, <1>3, <1>4, <2>2
    <3> QED
      BY <1>3, <1>4, <3>1, <3>2, <3>3
  <2> QED
    BY <1>5, <2>1, <2>2
<1>11. Add32(p, n) = p + n /\ Add32(q, n) = q + n /\ q + n <= last
  <2> HIDE DEF n, s, q, p
  <2> QED
    BY <1>3, <1>4, <1>8, <1>10 DEF Add32
<1>12. \A x \in {AlignToPage(start), FirstCut(start)} : Add32(x, req.size) <= last
  BY <1>10, <1>11
<1> QED
  BY <1>6, <1>12 DEF Fits

(* That alloc never grows the heap a third time for one request: what it   *)
(* has grown is in the last hole.                                          *)
GrownEnough ==
    /\ AtPage(end_address)
    /\ req # NoRequest =>
         /\ req.rounds \in 1..3
         /\ req.rounds > 1 => \E a : Grown(a, req.rounds - 1)

RoomInv == Complete(mem, index) /\ AssertionsHold /\ GrownEnough

LEMMA InitRoom == Init => RoomInv
<1> SUFFICES ASSUME Init PROVE RoomInv
  OBVIOUS
<1>1. HeapStart \in Int /\ IndexCapacity \in Nat \ {0} /\ AtPage(InitialEnd)
  BY LayoutAssumption, RequestAssumption DEF AtPage
<1>2. DOMAIN mem.hdr = {HeapStart}
  BY DEF Init, MakeBlock
<1>3. HeapStart \in Items(index)
  <2> DEFINE key == Sizes(mem)
  <2>1. EmptyArray \in Seq(Int) /\ Len(EmptyArray) = 0
    BY DEF EmptyArray
  <2>2. index = Insert(EmptyArray, IndexCapacity, key, HeapStart)
    BY DEF Init, InsertHole
  <2> HIDE DEF key
  <2>3. IndexCapacity \in Nat /\ Len(EmptyArray) <= IndexCapacity
        /\ Len(EmptyArray) < IndexCapacity
    BY <1>1, <2>1
  <2>4. HeapStart \in Items(Insert(EmptyArray, IndexCapacity, key, HeapStart))
    BY <1>1, <2>1, <2>3, InsertItems
  <2> QED
    BY <2>2, <2>4
<1>4. Complete(mem, index)
  BY <1>2, <1>3 DEF Complete, HolesOf
<1>5. req = NoRequest /\ panic = Running /\ end_address = InitialEnd
  BY DEF Init
<1> HIDE DEF NoRequest
<1> QED
  BY <1>1, <1>4, <1>5 DEF RoomInv, AssertionsHold, GrownEnough

LEMMA GrownStays ==
    ASSUME GrownEnough, UNCHANGED <<mem, end_address, req>>
    PROVE  GrownEnough'
BY DEF GrownEnough, Grown, EndsWith, Extended

(* After two rounds of growth the request fits, and the index tells. *)
LEMMA NoThirdGrowth ==
    ASSUME RequestsFit, HeapInv, Complete(mem, index), GrownEnough, Expand
    PROVE  req.rounds \in {1, 2}
<1>1. req # NoRequest /\ NotFound
  BY DEF Expand, InAlloc
<1>2. req.rounds \in 1..3 /\ (req.rounds > 1 => \E a : Grown(a, req.rounds - 1))
  BY <1>1 DEF GrownEnough
<1>3. ASSUME req.rounds = 3 PROVE FALSE
  <2>1. PICK a : Grown(a, 2)
    BY <1>2, <1>3
  <2>2. Fits(a, req.size, req.align)
    BY <1>1, <2>1, FitsAfterTwo
  <2>3. a \in Items(index)
    BY <2>1 DEF Grown, EndsWith, Complete
  <2>4. PICK i \in 1..Len(index) : index[i] = a
    BY <2>3 DEF Items
  <2> QED
    BY <1>1, <2>2, <2>4 DEF NotFound
<1> QED
  BY <1>2, <1>3

LEMMA GrewEnough ==
    ASSUME RequestsFit, HeapInv, TypeInv, Complete(mem, index), GrownEnough, Expand, Grew
    PROVE  GrownEnough'
<1>1. req # NoRequest /\ req.size \in Requests
  BY DEF Expand, InAlloc, HeapInv
<1>2. req.rounds \in {1, 2} /\ (req.rounds > 1 => \E a : Grown(a, req.rounds - 1))
  BY <1>1, NoThirdGrowth DEF GrownEnough
<1>3. /\ Extended \in Nat /\ Extended % PageSize = 0 /\ Extended' = Extended
      /\ HeaderSize \in Nat /\ FooterSize \in Nat /\ PageSize \in Nat \ {0}
  BY <1>1, ExtendedFacts, TagAssumption DEF Grew, Extended
<1>4. /\ Whole(mem, end_address) /\ end_address \in Nat
      /\ \A c \in DOMAIN mem.hdr : c \in Int /\ mem.hdr[c].size \in Nat \ {0}
  BY GoodFacts, LayoutAssumption DEF HeapInv
<1>5. AtPage(end_address)'
  <2>1. (end_address + Extended) % PageSize = 0
    BY <1>3, <1>4, PagesAdd DEF GrownEnough, AtPage
  <2> QED
    BY <2>1 DEF Grew, AtPage
<1>6. req'.rounds \in 1..(req.rounds + 1) /\ req' # NoRequest
  <2>1. req'.rounds = NextRound(req.rounds)
    BY DEF Grew
  <2> QED
    BY <1>2, <2>1 DEF Grew, NextRound
<1>7. PICK a : /\ EndsWith(mem', end_address', a)
               /\ \/ /\ EndsWith(mem, end_address, a)
                     /\ mem'.hdr[a].size = mem.hdr[a].size + Extended
                  \/ /\ \A c : ~ EndsWith(mem, end_address, c)
                     /\ a = end_address /\ mem'.hdr[a].size = Extended - META
  BY DEF Grew
<1> DEFINE Enough(sz, k) == sz >= k * Extended \/ (AtPage(a) /\ sz + META >= k * Extended)
<1>8. Enough(mem'.hdr[a].size, req.rounds)
  <2>1. CASE EndsWith(mem, end_address, a) /\ mem'.hdr[a].size = mem.hdr[a].size + Extended
    <3>1. mem.hdr[a].size \in Nat
      BY <1>4, <2>1 DEF EndsWith, HolesOf
    <3>2. CASE req.rounds = 1
      BY <1>3, <2>1, <3>1, <3>2
    <3>3. CASE req.rounds = 2
      <4>1. PICK b : Grown(b, 1)
        BY <1>2, <3>3
      <4>2. a = b
        BY <1>4, <2>1, <4>1, AfterIsInjective DEF Grown, EndsWith, HolesOf
      <4>3. Enough(mem.hdr[a].size, 1)
        BY <4>1, <4>2 DEF Grown
      <4> QED
        BY <1>3, <2>1, <3>1, <3>3, <4>3
    <3> QED
      BY <1>2, <3>2, <3>3
  <2>2. CASE /\ \A c : ~ EndsWith(mem, end_address, c)
             /\ a = end_address /\ mem'.hdr[a].size = Extended - META
    <3>1. req.rounds = 1
      BY <1>2, <2>2 DEF Grown
    <3>2. AtPage(a)
      BY <2>2 DEF GrownEnough
    <3> QED
      BY <1>3, <2>2, <3>1, <3>2
  <2> QED
    BY <1>7, <2>1, <2>2
<1>9. ASSUME req'.rounds > 1 PROVE \E b : Grown(b, req.rounds - 1)'
  <2>1. req'.rounds - 1 = req.rounds \/ (req'.rounds - 1 = 1 /\ req.rounds = 2)
    BY <1>2, <1>6, <1>9
  <2>2. mem'.hdr[a].size \in Int
    BY <1>3, <1>4, <1>7 DEF EndsWith, HolesOf
  <2>3. Enough(mem'.hdr[a].size, req'.rounds - 1)
    BY <1>2, <1>3, <1>8, <2>1, <2>2
  <2>4. Grown(a, req.rounds - 1)'
    BY <1>3, <1>7, <2>3 DEF Grown, AtPage
  <2> QED
    BY <2>4
<1> QED
  BY <1>2, <1>5, <1>6, <1>9 DEF GrownEnough

LEMMA NextRoom ==
    ASSUME RequestsFit, HeapInv, TypeInv, RoomInv, HasRoom(index), [Next]_vars
    PROVE  RoomInv'
<1>1. IndexFollows /\ GoesOn
  BY NextStep
<1>2. Complete(mem, index)'
  BY <1>1 DEF RoomInv, IndexFollows, StaysComplete
<1>3. AssertionsHold'
  BY <1>1 DEF RoomInv, GoesOn, AssertionsHold
<1>4. GrownEnough /\ Complete(mem, index)
  BY DEF RoomInv
<1>5. GrownEnough'
  <2>1. CASE \E sz \in Requests, align \in BOOLEAN : Kmalloc(sz, align)
    <3>1. end_address' = end_address /\ req'.rounds = 1
      BY <2>1 DEF Kmalloc
    <3> QED
      BY <1>4, <3>1 DEF GrownEnough, AtPage
  <2>2. CASE Expand
    <3>1. UNCHANGED <<mem, end_address, req>> \/ Grew
      <4>1. req # NoRequest
        BY <2>2 DEF Expand, InAlloc
      <4> QED
        BY <2>2, <4>1, ExpandStep
    <3> QED
      BY <1>4, <2>2, <3>1, GrownStays, GrewEnough
  <2>3. CASE Place
    <3>1. req # NoRequest
      BY <2>3 DEF Place, InAlloc
    <3>2. req' = NoRequest /\ end_address' = end_address
      BY <2>3, <3>1, PlaceStep
    <3> QED
      BY <1>4, <3>2 DEF GrownEnough, AtPage
  <2>4. CASE \E p \in DOMAIN ptrs : Kfree(p)
    <3>1. PICK p \in DOMAIN ptrs : Kfree(p)
      BY <2>4
    <3>2. req' = NoRequest /\ end_address' = end_address
      <4>1. req = NoRequest
        BY <3>1 DEF Kfree
      <4> QED
        BY <3>1, <4>1, KfreeStep
    <3> QED
      BY <1>4, <3>2 DEF GrownEnough, AtPage
  <2>5. CASE Halted \/ UNCHANGED vars
    BY <1>4, <2>5, GrownStays DEF Halted, vars
  <2> QED
    BY <2>1, <2>2, <2>3, <2>4, <2>5 DEF Next
<1> QED
  BY <1>2, <1>3, <1>5 DEF RoomInv

----------------------------------------------------------------------------
(* The index has room *)

(* A capacity that the pointers held at a time cannot exhaust: holes never *)
(* touch, so each but the last is followed by a block of its own.          *)
RoomForAll == MaxLive + 1 < IndexCapacity

Pending == IF req = NoRequest THEN 0 ELSE 1

LiveInv ==
    /\ IsFiniteSet(DOMAIN ptrs)
    /\ Cardinality(DOMAIN ptrs) + Pending <= MaxLive

(* One element more or less. *)
LEMMA CountAdds ==
    ASSUME NEW S, NEW x, IsFiniteSet(S)
    PROVE  /\ IsFiniteSet(S \cup {x}) /\ Cardinality(S \cup {x}) \in Nat
           /\ Cardinality(S \cup {x}) <= Cardinality(S) + 1
<1>1. Cardinality(S) \in Nat
  BY FS_CardinalityType
<1>2. /\ IsFiniteSet(S \cup {x})
      /\ Cardinality(S \cup {x}) = IF x \in S THEN Cardinality(S) ELSE Cardinality(S) + 1
  BY FS_AddElement
<1> QED
  BY <1>1, <1>2

LEMMA CountRemoves ==
    ASSUME NEW S, NEW x, IsFiniteSet(S)
    PROVE  /\ IsFiniteSet(S \ {x}) /\ Cardinality(S \ {x}) \in Nat
           /\ Cardinality(S \ {x}) <= Cardinality(S)
<1>1. Cardinality(S) \in Nat
  BY FS_CardinalityType
<1>2. /\ IsFiniteSet(S \ {x})
      /\ Cardinality(S \ {x}) = IF x \in S THEN Cardinality(S) - 1 ELSE Cardinality(S)
  BY FS_RemoveElement
<1>3. Cardinality(S \ {x}) \in Nat
  BY <1>2, FS_CardinalityType
<1> QED
  BY <1>1, <1>2, <1>3

LEMMA LiveCount == ASSUME LiveInv PROVE Cardinality(DOMAIN ptrs) \in Nat
BY FS_CardinalityType DEF LiveInv

LEMMA InitLive == Init => LiveInv
<1> SUFFICES ASSUME Init PROVE LiveInv
  OBVIOUS
<1>1. DOMAIN ptrs = {} /\ Pending = 0 /\ MaxLive \in Nat
  BY RequestAssumption DEF Init, Pending
<1> QED
  BY <1>1, FS_EmptySet DEF LiveInv

LEMMA NextLive ==
    ASSUME RequestsFit, HeapInv, LiveInv, [Next]_vars
    PROVE  LiveInv'
<1> DEFINE D == DOMAIN ptrs
<1>1. IsFiniteSet(D) /\ Cardinality(D) \in Nat /\ Cardinality(D) + Pending <= MaxLive
      /\ MaxLive \in Nat /\ Pending \in {0, 1} /\ Pending' \in {0, 1}
  BY LiveCount, RequestAssumption DEF LiveInv, Pending
<1>2. ASSUME DOMAIN ptrs' = D, Pending' <= Pending PROVE LiveInv'
  <2> HIDE DEF D
  <2>1. Cardinality(DOMAIN ptrs') = Cardinality(D) /\ IsFiniteSet(DOMAIN ptrs')
    BY <1>1, <1>2
  <2> QED
    BY <1>1, <1>2, <2>1 DEF LiveInv
<1>3. ASSUME NEW s, Failed(s) PROVE LiveInv'
  <2>1. ptrs' = ptrs /\ req' = req
    BY <1>3 DEF Failed
  <2>2. Pending' = Pending
    BY <2>1 DEF Pending
  <2> QED
    BY <1>1, <1>2, <2>1, <2>2
<1>4. CASE \E sz \in Requests, align \in BOOLEAN : Kmalloc(sz, align)
  <2>1. ptrs' = ptrs /\ Cardinality(D) < MaxLive
    BY <1>4 DEF Kmalloc
  <2> HIDE DEF D
  <2>2. Cardinality(D) + Pending' <= MaxLive
    BY <1>1, <2>1
  <2>3. DOMAIN ptrs' = D
    BY <2>1 DEF D
  <2>4. Cardinality(DOMAIN ptrs') + Pending' <= MaxLive /\ IsFiniteSet(DOMAIN ptrs')
    BY <1>1, <2>2, <2>3
  <2> QED
    BY <2>4, Zenon DEF LiveInv
<1>5. CASE Expand
  <2>1. Pending = 1
    BY <1>5 DEF Expand, InAlloc, Pending
  <2>2. CASE ptrs' = ptrs
    <3>1. Pending' <= Pending
      BY <1>1, <2>1
    <3> QED
      BY <1>2, <2>2, <3>1
  <2> QED
    BY <1>3, <1>5, <2>2, ExpandEffect
<1>6. CASE Place
  <2>1. Pending = 1
    BY <1>6 DEF Place, InAlloc, Pending
  <2>2. CASE req' = NoRequest /\ \E a : ptrs' = Granted(a)
    <3>1. PICK a : ptrs' = Granted(a)
      BY <2>2
    <3> DEFINE pos == AllocPos(a, req.align)
    <3>2. DOMAIN ptrs' = D \cup {pos}
      BY <3>1 DEF Granted
    <3>3. Pending' = 0
      BY <2>2 DEF Pending
    <3> HIDE DEF D, pos
    <3>4. /\ IsFiniteSet(D \cup {pos})
          /\ Cardinality(D \cup {pos}) <= Cardinality(D) + 1
          /\ Cardinality(D \cup {pos}) \in Nat
      BY <1>1, CountAdds
    <3>5. Cardinality(D \cup {pos}) + 0 <= MaxLive
      BY <1>1, <2>1, <3>4
    <3> QED
      BY <3>2, <3>3, <3>4, <3>5 DEF LiveInv
  <2> QED
    BY <1>3, <1>6, <2>2, PlaceEffect
<1>7. CASE \E p \in DOMAIN ptrs : Kfree(p)
  <2>1. PICK p \in DOMAIN ptrs : Kfree(p)
    BY <1>7
  <2>2. CASE req' = req /\ ptrs' = [q \in DOMAIN ptrs \ {p} |-> ptrs[q]]
    <3>1. DOMAIN ptrs' = D \ {p} /\ Pending' = Pending
      BY <2>2 DEF Pending
    <3> HIDE DEF D
    <3>2. /\ IsFiniteSet(D \ {p})
          /\ Cardinality(D \ {p}) <= Cardinality(D)
          /\ Cardinality(D \ {p}) \in Nat
      BY <1>1, CountRemoves
    <3>3. Cardinality(D \ {p}) + Pending <= MaxLive
      BY <1>1, <3>2
    <3> QED
      BY <3>1, <3>2, <3>3 DEF LiveInv
  <2> QED
    BY <1>3, <2>1, <2>2, KfreeEffect
<1>8. CASE Halted \/ UNCHANGED vars
  <2>1. ptrs' = ptrs /\ req' = req
    BY <1>8 DEF Halted, vars
  <2>2. Pending' = Pending
    BY <2>1 DEF Pending
  <2> QED
    BY <1>1, <1>2, <2>1, <2>2
<1> QED
  BY <1>4, <1>5, <1>6, <1>7, <1>8 DEF Next

(* No more holes than pointers, and one. *)
LEMMA HolesAreFew ==
    ASSUME HeapInv, LiveInv
    PROVE  /\ IsFiniteSet(Holes) /\ Cardinality(Holes) \in Nat
           /\ Cardinality(Holes) <= Cardinality(DOMAIN ptrs) + 1
<1> DEFINE D == DOMAIN ptrs
           next(a) == After(mem.hdr, a)
           T == {a \in Holes : next(a) # end_address}
           f == [a \in T |-> next(a) + HeaderSize]
<1>1. /\ Whole(mem, end_address) /\ end_address \in Int /\ NoAdj(mem)
      /\ Owners(mem, ptrs) /\ HeaderSize \in Int
      /\ Holes = HolesOf(mem) /\ Holes \subseteq DOMAIN mem.hdr
      /\ IsFiniteSet(D) /\ Cardinality(D) \in Nat
  BY LiveCount, TagAssumption DEF HeapInv, Good, Holes, HolesOf, LiveInv
<1>2. ASSUME NEW a \in T PROVE next(a) \in Int /\ next(a) + HeaderSize \in D
  <2>1. a \in DOMAIN mem.hdr /\ next(a) # end_address /\ a \in HolesOf(mem)
    BY <1>1
  <2>2. next(a) \in DOMAIN mem.hdr
    BY <1>1, <2>1, RightNeighbour
  <2>3. next(a) \in DOMAIN mem.hdr \ HolesOf(mem)
    BY <1>1, <2>1, <2>2 DEF NoAdj
  <2> QED
    BY <1>1, <2>1, <2>3, WholeFacts DEF Owners
<1>3. ASSUME NEW a \in Holes, NEW b \in Holes, next(a) = next(b) PROVE a = b
  BY <1>1, <1>3, AfterIsInjective
<1>4. ASSUME NEW a \in T, NEW b \in T, f[a] = f[b] PROVE a = b
  <2>1. next(a) + HeaderSize = next(b) + HeaderSize
    BY <1>4
  <2>2. next(a) = next(b)
    BY <1>1, <1>2, <2>1
  <2> QED
    BY <1>3, <2>2
<1>5. f \in Injection(T, D)
  <2>1. f \in [T -> D]
    BY <1>2
  <2>2. \A a, b \in T : f[a] = f[b] => a = b
    BY <1>4
  <2> HIDE DEF f, T, D
  <2> QED
    BY <2>1, <2>2 DEF Injection, IsInjective
<1>6. IsFiniteSet(T) /\ Cardinality(T) <= Cardinality(D) /\ Cardinality(T) \in Nat
  <2> HIDE DEF f, T, D
  <2> QED
    BY <1>1, <1>5, FS_Injection, FS_CardinalityType
<1>7. CASE \E l \in Holes : next(l) = end_address
  <2>1. PICK l \in Holes : next(l) = end_address
    BY <1>7
  <2>2. Holes = T \cup {l}
    BY <1>3, <2>1
  <2> HIDE DEF T, D
  <2>3. /\ IsFiniteSet(T \cup {l}) /\ Cardinality(T \cup {l}) <= Cardinality(T) + 1
        /\ Cardinality(T \cup {l}) \in Nat
    BY <1>6, CountAdds
  <2> QED
    BY <1>1, <1>6, <2>2, <2>3 DEF D
<1>8. CASE ~ \E l \in Holes : next(l) = end_address
  <2>1. Holes = T
    BY <1>8
  <2> HIDE DEF T
  <2> QED
    BY <1>1, <1>6, <2>1
<1> QED
  BY <1>7, <1>8

(* An array without duplicates has as many items as its length says. *)
LEMMA ItemsCount ==
    ASSUME NEW array \in Seq(Int), HasNoDuplicate(array)
    PROVE  IsFiniteSet(Items(array)) /\ Cardinality(Items(array)) = Len(array)
<1> DEFINE n == Len(array)
           f == [i \in 1..n |-> array[i]]
           T == Items(array)
<1>1. n \in Nat
  OBVIOUS
<1>2. f \in [1..n -> T]
  BY DEF Items
<1>3. \A i, j \in 1..n : f[i] = f[j] => i = j
  BY DEF HasNoDuplicate
<1>4. \A t \in T : \E i \in 1..n : f[i] = t
  BY DEF Items
<1> HIDE DEF f, T, n
<1>5. f \in Injection(1..n, T) /\ f \in Surjection(1..n, T)
  BY <1>2, <1>3, <1>4 DEF Injection, IsInjective, Surjection
<1>6. IsFiniteSet(1..n) /\ Cardinality(1..n) = n
  BY <1>1, FS_Interval
<1>7. IsFiniteSet(T) /\ (Cardinality(T) = Cardinality(1..n) <=> f \in Injection(1..n, T))
  BY <1>5, <1>6, FS_Surjection
<1> QED
  BY <1>5, <1>6, <1>7 DEF T, n

LEMMA RoomIsLeft ==
    ASSUME RoomForAll, HeapInv, LiveInv
    PROVE  HasRoom(index)
<1>1. /\ index \in Seq(Int) /\ HasNoDuplicate(index) /\ Items(index) \subseteq Holes
      /\ Len(index) \in Nat
  BY DEF HeapInv, Good, IndexWF, Holes
<1>2. Cardinality(Items(index)) = Len(index)
  BY <1>1, ItemsCount
<1>3. IsFiniteSet(Holes) /\ Cardinality(Holes) \in Nat
      /\ Cardinality(Holes) <= Cardinality(DOMAIN ptrs) + 1
  BY HolesAreFew
<1>4. Cardinality(Items(index)) <= Cardinality(Holes)
  BY <1>1, <1>3, FS_Subset
<1>5. /\ Cardinality(DOMAIN ptrs) \in Nat /\ Cardinality(DOMAIN ptrs) <= MaxLive
      /\ MaxLive \in Nat /\ IndexCapacity \in Nat
  BY LiveCount, RequestAssumption DEF LiveInv, Pending
<1> QED
  BY <1>1, <1>2, <1>3, <1>4, <1>5 DEF RoomForAll, HasRoom

LEMMA RoomInvariant ==
    RequestsFit /\ RoomForAll => (Spec => [](RoomInv /\ LiveInv))
<1> SUFFICES ASSUME RequestsFit, RoomForAll PROVE Spec => [](RoomInv /\ LiveInv)
  OBVIOUS
<1>1. Spec => []TypeInv
  BY InitTypes, NextTypes, PTL DEF Spec
<1>2. HeapInv /\ LiveInv /\ [Next]_vars => LiveInv'
  BY NextLive
<1>3. HeapInv /\ TypeInv /\ LiveInv /\ RoomInv /\ [Next]_vars => RoomInv'
  BY NextRoom, RoomIsLeft
<1> QED
  BY <1>1, <1>2, <1>3, InitRoom, InitLive, HeapInvariant, PTL DEF Spec

(* kheap_validate_print, when it finds no tag out of place, counts as many *)
(* holes as the index has, and finds each of them there: kmalloc and kfree *)
(* lose no hole that they split, merge or grow.                            *)
THEOREM NoHoleIsLost ==
    RequestsFit /\ RoomForAll =>
      (Spec => [](EveryHoleIsIndexed /\ Cardinality(Holes) = Len(index)))
<1> SUFFICES ASSUME RequestsFit, RoomForAll
             PROVE  Spec => [](EveryHoleIsIndexed /\ Cardinality(Holes) = Len(index))
  OBVIOUS
<1>1. HeapInv /\ RoomInv => EveryHoleIsIndexed /\ Cardinality(Holes) = Len(index)
  <2> SUFFICES ASSUME HeapInv, RoomInv
               PROVE  EveryHoleIsIndexed /\ Cardinality(Holes) = Len(index)
    OBVIOUS
  <2>1. /\ index \in Seq(Int) /\ HasNoDuplicate(index) /\ Items(index) = Holes
    BY DEF HeapInv, Good, IndexWF, Holes, RoomInv, Complete
  <2> QED
    BY <2>1, ItemsCount DEF EveryHoleIsIndexed
<1> QED
  BY <1>1, RoomInvariant, HeapInvariant, PTL

(* Every ASSERT of alloc and free that a hole is in the index, a footer in *)
(* place or a block large enough holds: only the end of the address space  *)
(* stops the kernel.                                                       *)
THEOREM AssertionsNeverFail ==
    RequestsFit /\ RoomForAll => (Spec => []AssertionsHold)
<1>1. RoomInv => AssertionsHold
  BY DEF RoomInv
<1> QED
  BY <1>1, RoomInvariant, PTL

(* alloc, which grows the heap and calls itself again, does so twice at    *)
(* most for one request: what it has added after two rounds is in the last *)
(* hole, which then holds the request however it is aligned.               *)
THEOREM AllocExpandsTwiceAtMost ==
    RequestsFit /\ RoomForAll => (Spec => []AtMostTwoExpansions)
<1>1. RoomInv => AtMostTwoExpansions
  <2> SUFFICES ASSUME RoomInv PROVE req.rounds <= 3
    BY DEF AtMostTwoExpansions
  <2>1. CASE req = NoRequest
    BY <2>1 DEF NoRequest
  <2>2. CASE req # NoRequest
    BY <2>2 DEF RoomInv, GrownEnough
  <2> QED
    BY <2>1, <2>2
<1> QED
  BY <1>1, RoomInvariant, PTL

(* The hole that alloc takes is the first in the index that fits. *)
LEMMA PlaceFinds ==
    ASSUME Place
    PROVE  ptrs' = ptrs \/ \E i \in 1..Len(index) : Found(i) /\ ptrs' = Granted(index[i])
<1>1. \E i \in 1..Len(index) :
         Found(i) /\ (Panic("block_size >= size") \/ ptrs' = Granted(index[i]))
  BY Zenon DEF Place, Granted
<1>2. Panic("block_size >= size") => ptrs' = ptrs
  BY DEF Panic
<1> QED
  BY <1>1, <1>2

LEMMA BestFit ==
    ASSUME RequestsFit, HeapInv, Complete(mem, index), req # NoRequest,
           NEW i \in 1..Len(index), Found(i),
           NEW p, p = AllocPos(index[i], req.align),
           NEW a \in Holes, NEW b \in Holes,
           a < p, p < After(mem.hdr, a), Fits(b, req.size, req.align)
    PROVE  mem.hdr[a].size <= mem.hdr[b].size
<1> DEFINE c == index[i]
<1>1. /\ Good(mem, index, end_address, ptrs)
      /\ req.size \in Requests /\ req.align \in BOOLEAN
  BY DEF HeapInv
<1>2. /\ end_address \in Int /\ end_address <= MaxAddress /\ Whole(mem, end_address)
      /\ \A x \in DOMAIN mem.hdr : x \in Int /\ mem.hdr[x].size \in Nat \ {0}
      /\ index \in Seq(Int) /\ Items(index) \subseteq DOMAIN mem.hdr
      /\ IsOrdered(index, Sizes(mem))
  BY <1>1, GoodFacts DEF Good, IndexWF
<1>3. /\ HeaderSize \in Nat \ {0} /\ FooterSize \in Nat \ {0} /\ req.size \in Nat \ {0}
  BY <1>1, TagAssumption, RequestsAreSizes
<1>4. c \in DOMAIN mem.hdr /\ a \in DOMAIN mem.hdr /\ b \in DOMAIN mem.hdr
  BY <1>2 DEF Items, Holes, HolesOf
<1>5. Fits(c, req.size, req.align)
  BY DEF Found
<1>6. /\ p \in Nat /\ p - HeaderSize - c \in Nat
      /\ p + req.size + FooterSize <= After(mem.hdr, c)
  BY <1>1, <1>2, <1>4, <1>5, FitsFacts
<1>7. a = c
  <2> HIDE DEF c
  <2>1. /\ a \in Int /\ c \in Int
        /\ After(mem.hdr, a) \in Int /\ After(mem.hdr, c) \in Int
        /\ (a < c => After(mem.hdr, a) <= c) /\ (c < a => After(mem.hdr, c) <= a)
    BY <1>2, <1>4, WholeFacts
  <2>2. c < p /\ p < After(mem.hdr, c)
    BY SMTT(30), <1>3, <1>6, <2>1
  <2> QED
    BY <1>6, <2>1, <2>2
<1>8. PICK j \in 1..Len(index) : index[j] = b
  BY DEF Complete, Items, Holes
<1>9. i <= j
  BY <1>8 DEF Found
<1>10. CASE i = j
  BY <1>2, <1>4, <1>7, <1>8, <1>10
<1>11. CASE i < j
  BY <1>2, <1>4, <1>7, <1>8, <1>11 DEF IsOrdered, NotAfter, Sizes
<1> QED
  BY <1>9, <1>10, <1>11

(* find_hole stops at the first hole that fits: since the index is ordered *)
(* by size and no hole is missing from it, that is the smallest one in the *)
(* heap ("Find the smallest hole that fits requested size", kheap.c:115).  *)
THEOREM AllocationIsBestFit == RequestsFit /\ RoomForAll => (Spec => TakesSmallestHole)
<1> SUFFICES ASSUME RequestsFit, RoomForAll PROVE Spec => TakesSmallestHole
  OBVIOUS
<1> DEFINE Best == \A p \in DOMAIN ptrs' \ DOMAIN ptrs : \A a, b \in Holes :
                     a < p /\ p < After(mem.hdr, a) /\ Fits(b, req.size, req.align)
                       => mem.hdr[a].size <= mem.hdr[b].size
<1>1. HeapInv /\ RoomInv /\ [Next]_vars => [Best]_vars
  <2> SUFFICES ASSUME HeapInv, RoomInv, Next PROVE Best
    OBVIOUS
  <2>1. ASSUME DOMAIN ptrs' \subseteq DOMAIN ptrs PROVE Best
    BY <2>1
  <2>2. ASSUME NEW s, Failed(s) PROVE Best
    BY <2>1, <2>2 DEF Failed
  <2> HIDE DEF Best
  <2>3. CASE \E sz \in Requests, align \in BOOLEAN : Kmalloc(sz, align)
    BY <2>1, <2>3 DEF Kmalloc
  <2>4. CASE Expand
    BY <2>1, <2>2, <2>4, ExpandEffect
  <2>5. CASE Place
    <3>1. CASE ptrs' = ptrs
      BY <2>1, <3>1
    <3>2. CASE \E i \in 1..Len(index) : Found(i) /\ ptrs' = Granted(index[i])
      <4>1. PICK i \in 1..Len(index) : Found(i) /\ ptrs' = Granted(index[i])
        BY <3>2
      <4>2. req # NoRequest /\ Complete(mem, index)
        BY <2>5 DEF Place, InAlloc, RoomInv
      <4>3. ASSUME NEW p \in DOMAIN ptrs' \ DOMAIN ptrs, NEW a \in Holes, NEW b \in Holes,
                   a < p, p < After(mem.hdr, a), Fits(b, req.size, req.align)
            PROVE  mem.hdr[a].size <= mem.hdr[b].size
        <5>1. p = AllocPos(index[i], req.align)
          BY <4>1 DEF Granted
        <5> QED
          BY <4>1, <4>2, <4>3, <5>1, BestFit
      <4> QED
        BY <4>3 DEF Best
    <3> QED
      BY <2>5, <3>1, <3>2, PlaceFinds
  <2>6. CASE \E p \in DOMAIN ptrs : Kfree(p)
    <3>1. PICK p \in DOMAIN ptrs : Kfree(p)
      BY <2>6
    <3>2. CASE ptrs' = [q \in DOMAIN ptrs \ {p} |-> ptrs[q]]
      BY <2>1, <3>2
    <3> QED
      BY <2>2, <3>1, <3>2, KfreeEffect
  <2>7. CASE Halted
    BY <2>1, <2>7 DEF Halted, vars
  <2> QED
    BY <2>3, <2>4, <2>5, <2>6, <2>7 DEF Next
<1> QED
  BY <1>1, RoomInvariant, HeapInvariant, PTL DEF Spec, TakesSmallestHole

----------------------------------------------------------------------------
(* The walk of kheap_validate_print.  It is a recursive function; that it  *)
(* exists is shown by giving it, and that there is no other by looking for *)
(* the last block at which another one would differ.                       *)

OneMore(f, a) ==
    IF a = end_address THEN [failed |-> "none", holes |-> 0, allocs |-> 0]
    ELSE LET next   == IF a \in DOMAIN mem.hdr THEN NextBlock(a) ELSE a
             failed == FailsAt(a, next)
         IN  IF failed # "none" THEN [failed |-> failed, holes |-> 0, allocs |-> 0]
             ELSE IF IsHole(mem.hdr[a])
             THEN [f[next] EXCEPT !.holes = @ + 1]
             ELSE [f[next] EXCEPT !.allocs = @ + 1]

WalksBy(f) == f = [a \in HeapStart..end_address |-> OneMore(f, a)]

(* What the walk counts from an address to the end *)
HolesFrom(a) == {h \in Holes : a <= h}
OwnedFrom(a) == {b \in Blocks \ Holes : a <= b}
Counted(a) == [failed |-> "none", holes |-> Cardinality(HolesFrom(a)),
               allocs |-> Cardinality(OwnedFrom(a))]

LEMMA BlocksAreFinite ==
    ASSUME HeapInv
    PROVE  /\ IsFiniteSet(Blocks) /\ Blocks \subseteq Int /\ end_address \in Int
           /\ \A a \in Blocks :
                  /\ HeapStart <= a /\ a < After(mem.hdr, a) /\ After(mem.hdr, a) \in Int
                  /\ After(mem.hdr, a) <= end_address
                  /\ After(mem.hdr, a) \in Blocks \cup {end_address}
           /\ \A a, b \in Blocks : a < b => After(mem.hdr, a) <= b
           /\ HeapStart \in Blocks
<1>1. Whole(mem, end_address) /\ end_address \in Int /\ InitialEnd <= end_address
  BY DEF HeapInv, Good
<1>2. /\ HeapStart \in Nat /\ HeapStart < end_address
      /\ HeaderSize \in Nat \ {0} /\ FooterSize \in Nat \ {0}
  BY <1>1, LayoutAssumption, TagAssumption
<1>3. /\ Blocks \subseteq Int
      /\ \A a \in Blocks : /\ HeapStart <= a /\ a < After(mem.hdr, a)
                           /\ After(mem.hdr, a) \in Int /\ After(mem.hdr, a) <= end_address
      /\ \A a, b \in Blocks : a < b => After(mem.hdr, a) <= b
      /\ \A x \in HeapStart..(end_address - 1) :
             \E a \in Blocks : a <= x /\ x < After(mem.hdr, a)
  BY <1>1, <1>2, WholeFacts DEF Blocks
<1>4. \A a \in Blocks : After(mem.hdr, a) \in Blocks \cup {end_address}
  BY <1>1, RightNeighbour DEF Blocks
<1>5. HeapStart \in Blocks
  <2>1. PICK a \in Blocks : a <= HeapStart
    BY <1>1, <1>2, <1>3
  <2> QED
    BY <1>2, <1>3, <2>1
<1>6. IsFiniteSet(Blocks)
  <2>1. IsFiniteSet(HeapStart..end_address)
    BY <1>1, <1>2, FS_Interval
  <2>2. Blocks \in SUBSET (HeapStart..end_address)
    BY <1>1, <1>2, <1>3
  <2> QED
    BY <2>1, <2>2, FS_Subset
<1> QED
  BY <1>1, <1>3, <1>4, <1>5, <1>6

LEMMA CountFromBlock ==
    ASSUME HeapInv, NEW S \in SUBSET Blocks, NEW a \in Blocks
    PROVE  LET from(x) == {b \in S : x <= b}
               n(x) == Cardinality(from(x))
           IN  n(a) = IF a \in S THEN n(After(mem.hdr, a)) + 1 ELSE n(After(mem.hdr, a))
<1> DEFINE next == After(mem.hdr, a)
           from(x) == {b \in S : x <= b}
           rest == from(next)
<1>1. /\ IsFiniteSet(Blocks) /\ Blocks \subseteq Int /\ a < next /\ next \in Int
      /\ \A b \in Blocks : a < b => next <= b
  BY BlocksAreFinite
<1>2. from(a) = IF a \in S THEN rest \cup {a} ELSE rest
  <2>1. ASSUME NEW b \in S PROVE a <= b <=> b = a \/ next <= b
    BY <1>1
  <2> HIDE DEF next
  <2> QED
    BY <2>1
<1>3. IsFiniteSet(rest) /\ a \notin rest
  <2>1. rest \in SUBSET Blocks
    OBVIOUS
  <2>2. a \notin rest
    BY <1>1
  <2> HIDE DEF rest
  <2> QED
    BY <1>1, <2>1, <2>2, FS_Subset
<1> HIDE DEF rest
<1>4. Cardinality(rest \cup {a}) = Cardinality(rest) + 1
  BY <1>3, FS_AddElement
<1> QED
  BY <1>2, <1>4 DEF rest

LEMMA CountedAtBlock ==
    ASSUME HeapInv, NEW a \in Blocks
    PROVE  LET rest == Counted(After(mem.hdr, a))
           IN  Counted(a) = IF IsHole(mem.hdr[a]) THEN [rest EXCEPT !.holes = @ + 1]
                                                  ELSE [rest EXCEPT !.allocs = @ + 1]
<1> DEFINE next == After(mem.hdr, a)
           h(x) == Cardinality(HolesFrom(x))
           o(x) == Cardinality(OwnedFrom(x))
<1>1. IsHole(mem.hdr[a]) <=> a \in Holes
  BY DEF Blocks, Holes, HolesOf
<1>2. Holes \in SUBSET Blocks
  BY DEF Blocks, Holes, HolesOf
<1>3. h(a) = IF a \in Holes THEN h(next) + 1 ELSE h(next)
  BY <1>2, CountFromBlock DEF HolesFrom
<1>4. o(a) = IF a \in Holes THEN o(next) ELSE o(next) + 1
  <2>1. (Blocks \ Holes) \in SUBSET Blocks
    OBVIOUS
  <2> QED
    BY <2>1, CountFromBlock DEF OwnedFrom
<1> HIDE DEF h, o
<1>5. \A x : Counted(x) = [failed |-> "none", holes |-> h(x), allocs |-> o(x)]
  BY DEF Counted, h, o
<1> QED
  BY <1>1, <1>3, <1>4, <1>5

LEMMA WalkAtBlock ==
    ASSUME HeapInv, EveryHoleIsIndexed, NEW f, NEW a \in Blocks
    PROVE  LET rest == f[After(mem.hdr, a)]
           IN  OneMore(f, a) = IF IsHole(mem.hdr[a]) THEN [rest EXCEPT !.holes = @ + 1]
                                                     ELSE [rest EXCEPT !.allocs = @ + 1]
<1>1. a # end_address /\ ~(After(mem.hdr, a) > end_address)
  BY BlocksAreFinite
<1>2. IsHole(mem.hdr[a]) => a \in Items(index)
  BY DEF EveryHoleIsIndexed, Holes, HolesOf, Blocks
<1>3. FailsAt(a, After(mem.hdr, a)) = "none"
  BY <1>1, <1>2, Zenon DEF FailsAt, Blocks
<1> QED
  BY <1>1, <1>3, Zenon DEF OneMore, NextBlock, Blocks

LEMMA WalkElsewhere ==
    ASSUME NEW f, NEW g, NEW a, a \notin Blocks
    PROVE  OneMore(f, a) = OneMore(g, a)
<1>1. FailsAt(a, a) # "none"
  BY DEF FailsAt, Blocks
<1> QED
  BY <1>1, Zenon DEF OneMore, Blocks

(* Whatever walks counts. *)
LEMMA WalkCounts ==
    ASSUME HeapInv, EveryHoleIsIndexed, NEW f, WalksBy(f)
    PROVE  \A a \in Blocks \cup {end_address} : f[a] = Counted(a)
<1> DEFINE Stops == Blocks \cup {end_address}
           Wrong == {a \in Stops : f[a] # Counted(a)}
           Left(a) == end_address - a
<1> SUFFICES ASSUME Wrong # {} PROVE FALSE
  OBVIOUS
<1>1. /\ Blocks \subseteq Int /\ end_address \in Int
      /\ \A a \in Blocks : /\ HeapStart <= a /\ a < After(mem.hdr, a)
                           /\ After(mem.hdr, a) \in Stops
                           /\ After(mem.hdr, a) <= end_address
      /\ HeapStart \in Blocks
  BY BlocksAreFinite
<1>2. \A a \in Stops : a \in Int /\ Left(a) \in Nat /\ a \in HeapStart..end_address
  <2>1. HeapStart \in Int /\ HeapStart <= end_address
    <3> DEFINE next == After(mem.hdr, HeapStart)
    <3>1. HeapStart < next /\ next \in Int /\ next <= end_address
      BY <1>1, BlocksAreFinite
    <3> HIDE DEF next
    <3> QED
      BY <1>1, <3>1, LayoutAssumption
  <2>2. \A a \in Blocks : a <= end_address
    BY <1>1, BlocksAreFinite
  <2> QED
    BY <1>1, <2>1, <2>2
<1>3. \A a \in Stops : f[a] = OneMore(f, a)
  <2> HIDE DEF Stops
  <2> QED
    BY <1>2, Zenon DEF WalksBy
<1>4. PICK a \in Wrong : \A b \in Wrong : Left(a) <= Left(b)
  <2>1. {Left(a) : a \in Wrong} \in SUBSET Nat /\ {Left(a) : a \in Wrong} # {}
    BY <1>2
  <2>2. PICK x \in {Left(a) : a \in Wrong} : \A y \in {Left(a) : a \in Wrong} : x <= y
    BY <2>1, LeastNatural
  <2> QED
    BY <2>2
<1>5. a # end_address
  <2>1. HolesFrom(end_address) = {} /\ OwnedFrom(end_address) = {}
    BY <1>1, BlocksAreFinite DEF HolesFrom, OwnedFrom, Holes, HolesOf, Blocks
  <2>2. Counted(end_address) = [failed |-> "none", holes |-> 0, allocs |-> 0]
    BY <2>1, FS_EmptySet DEF Counted
  <2>3. OneMore(f, end_address) = [failed |-> "none", holes |-> 0, allocs |-> 0]
    BY Zenon DEF OneMore
  <2> QED
    BY <1>3, <2>2, <2>3
<1>6. a \in Blocks
  BY <1>5
<1> DEFINE next == After(mem.hdr, a)
<1>7. next \in Stops /\ ~(Left(a) <= Left(next))
  <2>1. next \in Stops /\ next \in Int /\ a < next /\ a \in Int /\ end_address \in Int
    BY <1>6, BlocksAreFinite
  <2> HIDE DEF next, Stops
  <2> QED
    BY <2>1
<1>8. f[next] = Counted(next)
  BY <1>4, <1>7
<1>9. f[a] = OneMore(f, a)
  BY <1>3, <1>6
<1>10. OneMore(f, a) = Counted(a)
  <2>1. OneMore(f, a) = IF IsHole(mem.hdr[a]) THEN [f[next] EXCEPT !.holes = @ + 1]
                                              ELSE [f[next] EXCEPT !.allocs = @ + 1]
    BY <1>6, WalkAtBlock
  <2>2. Counted(a) = IF IsHole(mem.hdr[a]) THEN [Counted(next) EXCEPT !.holes = @ + 1]
                                           ELSE [Counted(next) EXCEPT !.allocs = @ + 1]
    BY <1>6, CountedAtBlock
  <2> HIDE DEF next
  <2> QED
    BY <1>8, <2>1, <2>2, Zenon
<1> QED
  BY <1>4, <1>9, <1>10

LEMMA SomethingWalks ==
    ASSUME HeapInv, EveryHoleIsIndexed
    PROVE  \E f : WalksBy(f)
<1> DEFINE D == HeapStart..end_address
           none == [x \in D |-> x]
           f == [a \in D |-> IF a \in Blocks \cup {end_address} THEN Counted(a)
                             ELSE OneMore(none, a)]
<1>1. \A a \in Blocks : After(mem.hdr, a) \in D /\ After(mem.hdr, a) \in Blocks \cup {end_address}
  BY BlocksAreFinite, LayoutAssumption
<1>2. ASSUME NEW a \in D PROVE f[a] = OneMore(f, a)
  <2>1. CASE a = end_address
    <3>1. HolesFrom(end_address) = {} /\ OwnedFrom(end_address) = {}
      BY BlocksAreFinite DEF HolesFrom, OwnedFrom, Holes, HolesOf, Blocks
    <3>2. Counted(end_address) = [failed |-> "none", holes |-> 0, allocs |-> 0]
      BY <3>1, FS_EmptySet DEF Counted
    <3>3. OneMore(f, end_address) = [failed |-> "none", holes |-> 0, allocs |-> 0]
      BY Zenon DEF OneMore
    <3>4. f[a] = Counted(a)
      BY <2>1
    <3> QED
      BY <2>1, <3>2, <3>3, <3>4
  <2>2. CASE a \in Blocks
    <3>1. f[a] = Counted(a) /\ f[After(mem.hdr, a)] = Counted(After(mem.hdr, a))
      BY <1>1, <2>2
    <3> DEFINE next == After(mem.hdr, a)
    <3> HIDE DEF f
    <3>2. OneMore(f, a) = IF IsHole(mem.hdr[a]) THEN [f[next] EXCEPT !.holes = @ + 1]
                                                ELSE [f[next] EXCEPT !.allocs = @ + 1]
      BY <2>2, WalkAtBlock
    <3>3. Counted(a) = IF IsHole(mem.hdr[a]) THEN [Counted(next) EXCEPT !.holes = @ + 1]
                                             ELSE [Counted(next) EXCEPT !.allocs = @ + 1]
      BY <2>2, CountedAtBlock
    <3> QED
      BY <3>1, <3>2, <3>3, Zenon
  <2>3. CASE a \notin Blocks \cup {end_address}
    <3>1. f[a] = OneMore(none, a)
      BY <2>3
    <3> HIDE DEF f, none
    <3> QED
      BY <2>3, <3>1, WalkElsewhere
  <2> QED
    BY <2>1, <2>2, <2>3
<1>3. f = [a \in D |-> f[a]]
  OBVIOUS
<1> HIDE DEF f
<1>4. f = [a \in D |-> OneMore(f, a)]
  BY <1>2, <1>3
<1> QED
  BY <1>4 DEF WalksBy

LEMMA WalkIsCounted ==
    ASSUME HeapInv, EveryHoleIsIndexed
    PROVE  Walk = [failed |-> "none", holes |-> Cardinality(Holes),
                   allocs |-> Cardinality(Blocks \ Holes)]
<1> DEFINE f == CHOOSE f : WalksBy(f)
<1>1. WalksBy(f)
  BY SomethingWalks
<1>2. Walk = f[HeapStart]
  BY Zenon DEF Walk, WalksBy, OneMore
<1> HIDE DEF f
<1>3. HeapStart \in Blocks /\ \A b \in Blocks : HeapStart <= b
  BY BlocksAreFinite
<1>4. f[HeapStart] = Counted(HeapStart)
  BY <1>1, <1>3, WalkCounts
<1>5. HolesFrom(HeapStart) = Holes /\ OwnedFrom(HeapStart) = Blocks \ Holes
  BY <1>3 DEF HolesFrom, OwnedFrom, Holes, HolesOf, Blocks
<1> QED
  BY <1>2, <1>4, <1>5 DEF Counted

(* As many allocated blocks as pointers *)
LEMMA PointersAreBlocks ==
    ASSUME HeapInv
    PROVE  Cardinality(Blocks \ Holes) = Cardinality(DOMAIN ptrs)
<1> DEFINE S == Blocks \ Holes
           T == DOMAIN ptrs
           f == [a \in S |-> a + HeaderSize]
<1>1. IsFiniteSet(S) /\ S \subseteq Int /\ HeaderSize \in Int
  <2>1. S \in SUBSET Blocks
    OBVIOUS
  <2> QED
    BY <2>1, BlocksAreFinite, FS_Subset, TagAssumption
<1>2. /\ T \subseteq Int
      /\ \A p \in T : p - HeaderSize \in S
      /\ \A a \in S : a + HeaderSize \in T
  BY DEF HeapInv, Good, Owners, Blocks, Holes
<1> HIDE DEF S, T
<1>3. f \in [S -> T]
  BY <1>2
<1>4. \A a, b \in S : f[a] = f[b] => a = b
  BY <1>1
<1>5. \A p \in T : \E a \in S : f[a] = p
  <2> SUFFICES ASSUME NEW p \in T PROVE \E a \in S : f[a] = p
    OBVIOUS
  <2>1. p - HeaderSize \in S /\ (p - HeaderSize) + HeaderSize = p
    BY <1>1, <1>2
  <2> QED
    BY <2>1
<1> HIDE DEF f
<1>6. ExistsBijection(S, T)
  BY <1>3, <1>4, <1>5 DEF ExistsBijection, Bijection, Injection, IsInjective, Surjection
<1>7. Cardinality(T) = Cardinality(S)
  BY <1>1, <1>6, FS_Bijection
<1> QED
  BY <1>7 DEF S, T

(* With an index large enough no call fails but for lack of addresses, and *)
(* what kheap_killer checks after each of its calls is so: the walk of     *)
(* kheap_validate_print meets no assertion and counts as many holes as the *)
(* index has and as many allocated blocks as pointers are held.            *)
THEOREM CallsAlwaysSucceed ==
    RequestsFit /\ RoomForAll => (Spec => []CallsSucceed)
<1> SUFFICES ASSUME RequestsFit, RoomForAll PROVE Spec => []CallsSucceed
  OBVIOUS
<1>1. ASSUME HeapInv, EveryHoleIsIndexed, Cardinality(Holes) = Len(index)
      PROVE  /\ KheapValidatePrint.failed = "none"
             /\ KheapValidatePrint.allocs = Cardinality(DOMAIN ptrs)
  <2>1. Walk = [failed |-> "none", holes |-> Cardinality(Holes),
                allocs |-> Cardinality(Blocks \ Holes)]
    BY <1>1, WalkIsCounted
  <2>2. KheapValidatePrint = Walk
    BY <1>1, <2>1 DEF KheapValidatePrint
  <2> QED
    BY <1>1, <2>1, <2>2, PointersAreBlocks
<1>2. HeapInv /\ EveryHoleIsIndexed /\ Cardinality(Holes) = Len(index)
          /\ AssertionsHold /\ AtMostTwoExpansions => CallsSucceed
  BY <1>1 DEF CallsSucceed
<1> QED
  BY <1>2, HeapInvariant, NoHoleIsLost, AssertionsNeverFail, AllocExpandsTwiceAtMost, PTL
=============================================================================
