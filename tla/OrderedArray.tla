---------------------------- MODULE OrderedArray ----------------------------
(***************************************************************************)
(* The fixed-capacity array of kernel/lib/ordered_array.c that the kernel  *)
(* heap uses as its index of holes.  An array is a sequence of items; its  *)
(* comparator compares the items' keys (the sizes of the holes the items   *)
(* point to), so an operation that compares takes the keys as a function.  *)
(* Positions run from 1, where the C code counts from 0.                   *)
(***************************************************************************)
EXTENDS Integers, Sequences

(* ordered_array_create: no item yet. *)
EmptyArray == << >>

Items(array) == {array[i] : i \in 1..Len(array)}

(* comparator(a, b) <= 0 *)
NotAfter(key, a, b) == key[a] <= key[b]

(* Mutant: the new item goes to the end. *)
IsLastPosition(array, key, item, p) == p = Len(array) + 1

(* The loop of ordered_array_insert stops at the first item that must come *)
(* after the new one: an item equal to it is passed.                       *)
IsInsertPosition(array, key, item, p) ==
    /\ \A i \in 1..(p - 1) : NotAfter(key, array[i], item)
    /\ p = Len(array) + 1 \/ ~ NotAfter(key, array[p], item)

InsertPosition(array, key, item) ==
    CHOOSE p \in 1..(Len(array) + 1) : IsInsertPosition(array, key, item, p)

ShiftRight(array, p, item) ==
    [i \in 1..(Len(array) + 1) |->
        IF i < p THEN array[i] ELSE IF i = p THEN item ELSE array[i - 1]]

(* ordered_array_insert: a full array stays as it is (the C function       *)
(* returns 0, a result that no caller looks at).                           *)
Insert(array, capacity, key, item) ==
    IF Len(array) >= capacity
    THEN array
    ELSE ShiftRight(array, InsertPosition(array, key, item), item)

(* Mutant: what follows the removed item is lost. *)
TruncateAtPosition(array, p) ==
    IF p \in 1..Len(array) THEN [i \in 1..(p - 1) |-> array[i]] ELSE array

(* ordered_array_remove *)
RemoveAtPosition(array, p) ==
    IF p \in 1..Len(array)
    THEN [i \in 1..(Len(array) - 1) |-> IF i < p THEN array[i] ELSE array[i + 1]]
    ELSE array

(* The first position that holds item, or Len + 1: the search loop of      *)
(* ordered_array_remove_element and of ordered_array_find_element.         *)
FindElement(array, item) ==
    CHOOSE p \in 1..(Len(array) + 1) :
        /\ \A i \in 1..(p - 1) : array[i] # item
        /\ p = Len(array) + 1 \/ array[p] = item

(* ordered_array_remove_element; it returns 1 iff item \in Items(array). *)
RemoveElement(array, item) == RemoveAtPosition(array, FindElement(array, item))

IsOrdered(array, key) ==
    \A i, j \in 1..Len(array) : i < j => NotAfter(key, array[i], array[j])

HasNoDuplicate(array) ==
    \A i, j \in 1..Len(array) : i # j => array[i] # array[j]
=============================================================================
