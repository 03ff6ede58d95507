------------------------------- MODULE Strings -------------------------------
(***************************************************************************)
(* kernel/lib: the functions of string.c on a memory of bytes, and those   *)
(* of math.c.  A memory is a function from addresses; a function of the    *)
(* library gives the memory it leaves.                                     *)
(***************************************************************************)
EXTENDS Integers, Sequences, FiniteSetsExt

Memset(mem, dest, val, len) ==
    [a \in DOMAIN mem |-> IF a \in dest..(dest + len - 1) THEN val % 256 ELSE mem[a]]

(* A byte at a time, in the order of a sequence of offsets: a byte that    *)
(* was written may be read again. *)
CopyInOrder(mem, dest, src, offset, len) ==
    LET after[n \in 0..len] ==
            IF n = 0 THEN mem
            ELSE LET before == after[n - 1]
                 IN  [before EXCEPT ![dest + offset[n]] = before[src + offset[n]]]
    IN  after[len]

Upwards(len)   == [n \in 1..len |-> n - 1]
Downwards(len) == [n \in 1..len |-> len - n]

Memcpy(mem, dest, src, len) == CopyInOrder(mem, dest, src, Upwards(len), len)

AlwaysUp(dest, src, len)  == Upwards(len)               \* mutant
Direction(dest, src, len) == IF dest < src THEN Upwards(len) ELSE Downwards(len)

Memmove(mem, dest, src, len) ==
    IF dest = src THEN mem ELSE CopyInOrder(mem, dest, src, Direction(dest, src, len), len)

(* Where the terminator of a string is; strlen is the distance. *)
Terminator(mem, s) == Min({a \in DOMAIN mem : a >= s /\ mem[a] = 0})
Strlen(mem, s)     == Terminator(mem, s) - s

Strcpy(mem, dest, src) == Memcpy(mem, dest, src, Strlen(mem, src) + 1)

ZeroBytes(n) == n

(* The rest of the n bytes is filled with zeroes. *)
Strncpy(mem, dest, src, n) ==
    LET copied == Min({n, Strlen(mem, src)})
    IN  Memset(Memcpy(mem, dest, src, copied), dest + copied, 0, ZeroBytes(n - copied))

UnsignedChar(b) == b

(* The loop stops at the end of the first string or where they differ. *)
Strcmp(mem, s1, s2) ==
    LET differs(n) == mem[s1 + n] = 0 \/ mem[s1 + n] # mem[s2 + n]
        from[n \in 0..Strlen(mem, s1)] == IF differs(n) THEN n ELSE from[n + 1]
    IN  UnsignedChar(mem[s1 + from[0]]) - UnsignedChar(mem[s2 + from[0]])

----------------------------------------------------------------------------
(* Division as C does it, towards zero, and the library's *)

Quotient(x, n)  == IF x >= 0 THEN x \div n ELSE -((-x) \div n)
Remainder(x, n) == x - Quotient(x, n) * n

DivDown(x, n)    == Quotient(x - n + 1, n)
MathDiv(x, n)    == IF x >= 0 THEN Quotient(x, n) ELSE DivDown(x, n)
MathMod(x, n)    == Remainder(Remainder(x, n) + n, n)
MathMax(x, y)    == IF x > y THEN x ELSE y
MathMin(x, y)    == IF x < y THEN x ELSE y
=============================================================================
