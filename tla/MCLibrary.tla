----------------------------- MODULE MCLibrary -----------------------------
(* Words of 6 bits and long ones of 12, units of 8 bytes: numbers of one   *)
(* to four digits, and four units below the longest number.                *)
EXTENDS Library

Edges == 0..70 \cup 500..520 \cup {99, 100, 101, 999, 1000, 1001, 2047, 2048}
         \cup 4090..4095

(* Overlapping copies, strings of unsigned characters, an empty one. *)
Bytes == { [a \in 0..5 |-> << 97, 200, 97, 98, 0, 0 >>[a + 1]],
           [a \in 0..5 |-> << 97, 0, 97, 200, 0, 0 >>[a + 1]],
           [a \in 0..5 |-> << 1, 2, 3, 4, 5, 0 >>[a + 1]],
           [a \in 0..5 |-> << 7, 7, 7, 97, 98, 0 >>[a + 1]] }

SomeSeeds == 0..70 \cup {524287, 524288, 12345678, 2147483646, 2147483647}
=============================================================================
