------------------------------- MODULE Library -------------------------------
(***************************************************************************)
(* The helpers of the kernel, called one at a time with arguments from     *)
(* small sets: what each computes is checked against a definition that     *)
(* does not follow its loops.                                              *)
(***************************************************************************)
EXTENDS Printf, Strings, Rand

CONSTANTS
    Longs,          \* 64-bit values to convert
    Sizes,          \* of the buffers
    Memories,       \* memories of bytes, each with a terminator at its end
    Seeds, Ticks

(* The values are unsigned, and the longest decimal fits the temporary     *)
(* buffer of vga_human_size, as the 20 digits of 64 bits do.               *)
ASSUME NumberAssumption ==
    /\ Longs \subseteq 0..(LongWord - 1) /\ Sizes \subseteq Nat
    /\ Len(Powers) < 32

ASSUME MemoryAssumption ==
    \A mem \in Memories : \E last \in DOMAIN mem :
        last \in Nat /\ mem \in [0..last -> 0..255] /\ mem[last] = 0

(* Seeds and ticks are unsigned words; what rand and srand promise needs   *)
(* no more of them than that they are natural numbers.                     *)
ASSUME SeedAssumption == Seeds \subseteq Nat /\ Ticks \subseteq Nat

VARIABLES call, out
vars == <<call, out>>

Nothing == [fn |-> "none"]
Init    == call = Nothing /\ out = << >>

Answer(c, value) == call' = c /\ out' = value

Return == call # Nothing /\ call' = Nothing /\ out' = << >>

----------------------------------------------------------------------------
(* The callers' directives: their characters, arguments and what they mean *)

Length(v, base) ==
    CHOOSE n \in 1..(v + 1) : Power(base, n) > v /\ (n = 1 \/ Power(base, n - 1) <= v)

(* The numeral of v: as many digits as it needs, each from its own power.  *)
Numeral(v, base) ==
    [n \in 1..Length(v, base)
        |-> Digit((v \div Power(base, Length(v, base) - n)) % base)]

SignedNumeral(v, top) ==
    IF v < top \div 2 THEN Numeral(v, 10) ELSE << Minus >> \o Numeral(top - v, 10)

Means(fmt, args, text) == [fmt |-> fmt, args |-> args, text |-> text]
Halves(v) == << v % Word, v \div Word >>

OnWord(w) ==
    { Means(<< Percent >> \o ell \o << letter >>, << w >>,
            CASE letter \in Signed       -> SignedNumeral(w, Word)
              [] letter \in Hex          -> Numeral(w, 16)
              [] letter = LowCodes.u     -> Numeral(w, 10)) :
      ell \in {<< >>, << Ell >>}, letter \in Signed \cup Hex \cup {LowCodes.u} }

OnLong(v) ==
    { Means(<< Percent, Ell, Ell, letter >>, Halves(v),
            CASE letter \in Signed       -> SignedNumeral(v, LongWord)
              [] letter \in Hex          -> Numeral(v, 16)
              [] letter = LowCodes.u     -> Numeral(v, 10)) :
      letter \in Signed \cup Hex \cup {LowCodes.u} }

Plain ==
    { Means(<< 65 >>, << >>, << 65 >>),
      Means(<< Percent, Percent >>, << >>, << Percent >>),
      Means(<< Percent, LowCodes.c >>, << 66 >>, << 66 >>),
      Means(<< Percent, LowCodes.s >>, << 0 >>, NullText),
      Means(<< Percent, LowCodes.s >>, << 1 >>, << 65 >>),
      Means(<< Percent, 90 >>, << >>, << Percent, 90 >>),
      Means(<< Percent, Ell, 90 >>, << >>, << Percent, Ell, 90 >>),
      Means(<< Percent, Ell, Ell, 90 >>, << >>, << Percent, Ell, Ell, 90 >>) }

Sized(v, text)  == Means(<< Percent, LowCodes.h >>, Halves(v), text)
Pointed(w, text) == Means(<< Percent, LowCodes.p >>, << w >>, text)

(* The directives in the order of vga_test_printf, with small arguments. *)
TestPrintf ==
    << Means(<< Percent, LowCodes.c >>, << 65 >>, << 65 >>),
       Means(<< Percent, LowCodes.s >>, << 1 >>, << 65 >>),
       Means(<< Percent, Percent >>, << >>, << Percent >>),
       Means(<< Percent, LowCodes.d >>, << Word - 12 >>, << Minus, 49, 50 >>),
       Means(<< Percent, LowCodes.u >>, << 12 >>, << 49, 50 >>),
       Means(<< Percent, LowCodes.x >>, << 30 >>, << 49, 101 >>),
       Pointed(18, << Zero, X, Zero, Zero, 49, 50 >>),
       Means(<< Percent, Ell, Ell, LowCodes.x >>, Halves(291), << 49, 50, 51 >>),
       Means(<< Percent, Ell, Ell, LowCodes.u >>, Halves(300), << 51, 48, 48 >>),
       Means(<< Percent, Ell, Ell, LowCodes.d >>, Halves(LongWord - 99), << Minus, 57, 57 >>),
       Sized(Kilo - 1, << Digit(Kilo - 1), 66 >>),
       Sized(4 * Kilo, << 52, 75 >>),
       Sized(6 * Kilo * Kilo, << 54, 77 >>),
       Sized(3 * Kilo * Kilo * Kilo, << 51, 71 >>) >>

Directives ==
    Plain \cup UNION {OnWord(w) : w \in {0, 1, Word \div 2, Word - 1}}
          \cup UNION {OnLong(v) : v \in {0, Word, LongWord \div 2, LongWord - 1}}
          \cup {TestPrintf[n] : n \in 1..Len(TestPrintf)}

----------------------------------------------------------------------------
(* Calls *)

Convert ==
    \E size \in Sizes, base \in {8, 10, 16} :
        \/ \E w \in 0..(Word - 1) :
               \/ Answer([fn |-> "utoa", v |-> w, base |-> base, size |-> size],
                         Utoa(w, base, size))
               \/ Answer([fn |-> "itoa", v |-> w, base |-> base, size |-> size],
                         Itoa(w, base, size))
        \/ \E v \in Longs :
               Answer([fn |-> "ulltoa", v |-> v, base |-> base, size |-> size],
                      Ulltoa(v, base, size))

ConvertSize ==
    \E v \in Longs, size \in Sizes \ {0} :
        Answer([fn |-> "human_size", v |-> v, size |-> size], HumanSize(v, size))

(* Directives side by side, and perhaps a lone % at the end. *)
PrintfOf(all, end) ==
    Answer([fn |-> "printf", all |-> all],
           VgaPrintf(FlattenSeq([n \in DOMAIN all |-> all[n].fmt]) \o end,
                     FlattenSeq([n \in DOMAIN all |-> all[n].args])))

(* Two directives, and a third to see that its argument is where the       *)
(* others left off. *)
CallPrintf ==
    \E one, two \in Directives : PrintfOf(<< one, two, TestPrintf[5] >>, << >>)

CallPrintfUnfinished == \E one \in Directives : PrintfOf(<< one >>, << Percent >>)

VgaTestPrintf == PrintfOf(TestPrintf, << >>)

Copy ==
    \E mem \in Memories : \E d, s \in DOMAIN mem, len \in 0..Cardinality(DOMAIN mem) :
        /\ {d + len - 1, s + len - 1} \subseteq DOMAIN mem \cup {-1}
        /\ \/ Answer([fn |-> "memmove", mem |-> mem, d |-> d, s |-> s, len |-> len],
                     Memmove(mem, d, s, len))
           \/ /\ d >= s + len \/ d <= s
              /\ Answer([fn |-> "memcpy", mem |-> mem, d |-> d, s |-> s, len |-> len],
                        Memcpy(mem, d, s, len))
           \/ Answer([fn |-> "memset", mem |-> mem, d |-> d, val |-> s + 254, len |-> len],
                     Memset(mem, d, s + 254, len))

CopyString ==
    \E mem \in Memories : \E d, s \in DOMAIN mem :
        /\ d + Strlen(mem, s) < s
        /\ \/ Answer([fn |-> "strcpy", mem |-> mem, d |-> d, s |-> s],
                     Strcpy(mem, d, s))
           \/ \E n \in 0..(s - d) :
                  Answer([fn |-> "strncpy", mem |-> mem, d |-> d, s |-> s, len |-> n],
                         Strncpy(mem, d, s, n))

CompareStrings ==
    \E mem \in Memories : \E a, b \in DOMAIN mem :
        Answer([fn |-> "strcmp", mem |-> mem, a |-> a, b |-> b], Strcmp(mem, a, b))

Divide ==
    \E x \in -9..9, n \in 1..4 :
        Answer([fn |-> "divmod", x |-> x, n |-> n],
               << MathDiv(x, n), MathMod(x, n), MathMax(x + 9, n), MathMin(x + 9, n) >>)

DrawNumbers ==
    \E seed \in Seeds, tick \in Ticks :
        Answer([fn |-> "rand", seed |-> seed, tick |-> tick],
               [n \in 1..5 |-> Draw(seed, tick, n)])

Next ==
    \/ Return
    \/ /\ call = Nothing
       /\ \/ Convert \/ ConvertSize
          \/ CallPrintf \/ CallPrintfUnfinished \/ VgaTestPrintf
          \/ Copy \/ CopyString \/ CompareStrings \/ Divide \/ DrawNumbers

Spec == Init /\ [][Next]_vars

----------------------------------------------------------------------------
(* Properties *)

(* A conversion with room writes the numeral, of the most negative int as  *)
(* well; without room vga_utoa and the hexadecimal vga_ulltoa keep its last*)
(* digits, the decimal vga_ulltoa its first ones, vga_itoa loses the sign. *)
NumbersAreWritten ==
    (call.fn \in {"utoa", "itoa", "ulltoa"} /\ call.base # 8 /\ call.size > 0) =>
        LET negative == call.fn = "itoa" /\ call.base = 10 /\ call.v >= Word \div 2
            digits   == Numeral(IF negative THEN Word - call.v ELSE call.v, call.base)
            sign     == IF negative /\ Len(digits) + 1 < call.size THEN << Minus >> ELSE << >>
            room     == call.size - 1
            kept     == IF Len(digits) <= room THEN digits
                        ELSE IF call.fn = "ulltoa" /\ call.base = 10
                        THEN SubSeq(digits, 1, room)
                        ELSE SubSeq(digits, Len(digits) - room + 1, Len(digits))
        IN  out = sign \o kept

(* vga_human_size shows the largest unit that the size reaches and its     *)
(* tenths, rounded down and without a zero: never more than there is.      *)
SizesAreRoundedDown ==
    call.fn = "human_size" =>
        \E n \in 0..4 :
            LET tenths == (10 * call.v) \div Power(Kilo, n)
                whole  == Numeral(tenths \div 10, 10)
            IN  /\ n < 4 => call.v < Power(Kilo, n + 1)
                /\ n > 0 => call.v >= Power(Kilo, n)
                /\ Len(whole) + 4 <= call.size =>
                       out = whole \o (IF tenths % 10 = 0 THEN << >>
                                       ELSE << Point, Digit(tenths % 10) >>)
                                   \o << Units[n + 1] >>

(* The conversions of vga.c write the number they are given, and with the  *)
(* terminator never more than the buffer holds.                            *)
ConversionsAreRight ==
    /\ NumbersAreWritten /\ SizesAreRoundedDown
    /\ call.fn \in {"utoa", "itoa", "ulltoa", "human_size"} =>
           out \in Seq(0..127) /\ Len(out) <= (IF call.size = 0 THEN 0 ELSE call.size - 1)

(* vga_printf writes what each directive means, and takes from the stack   *)
(* exactly the words that the caller pushed for it, so that the directives *)
(* behind it print their own arguments.                                    *)
PrintfFollowsItsFormat ==
    call.fn = "printf" =>
        out = FlattenSeq([n \in DOMAIN call.all |-> call.all[n].text])

(* A copy moves the source as it was before, even where it overlaps the    *)
(* destination, and touches nothing else; memset stores the low byte.      *)
CopiesMoveTheirSource ==
    call.fn \in {"memmove", "memcpy", "memset"} =>
        \A a \in DOMAIN out :
            out[a] = IF a \notin call.d..(call.d + call.len - 1) THEN call.mem[a]
                     ELSE IF call.fn = "memset" THEN call.val % 256
                     ELSE call.mem[call.s + (a - call.d)]

Text(mem, s) == [n \in 1..Strlen(mem, s) |-> mem[s + n - 1]]

(* strcmp is the order of the dictionary on unsigned characters, where a   *)
(* prefix comes first.                                                     *)
StringsCompare ==
    call.fn = "strcmp" =>
        LET a == Text(call.mem, call.a)
            b == Text(call.mem, call.b)
            before(p, q) == \/ \E n \in 1..MathMin(Len(p), Len(q)) :
                                   p[n] < q[n] /\ \A k \in 1..(n - 1) : p[k] = q[k]
                            \/ Len(p) < Len(q) /\ p = SubSeq(q, 1, Len(p))
        IN  /\ out < 0 <=> before(a, b)
            /\ out > 0 <=> before(b, a)

(* strcpy copies a string with its terminator; strncpy fills exactly n     *)
(* bytes and leaves out the terminator when the source has no room for it. *)
StringsAreCopied ==
    call.fn \in {"strcpy", "strncpy"} =>
        LET text == Text(call.mem, call.s)
            n    == IF call.fn = "strcpy" THEN Len(text) + 1 ELSE call.len
        IN  \A a \in DOMAIN out :
                out[a] = IF a \notin call.d..(call.d + n - 1) THEN call.mem[a]
                         ELSE IF a - call.d < Len(text) THEN text[a - call.d + 1] ELSE 0

(* div and mod round down for negative numbers, where / and % of C do not: *)
(* the remainder is never negative and belongs to the quotient.            *)
DivisionRoundsDown ==
    call.fn = "divmod" =>
        /\ out[1] * call.n + out[2] = call.x /\ out[2] \in 0..(call.n - 1)
        /\ out[3] >= call.n /\ out[4] <= call.n /\ out[3] + out[4] = call.x + 9 + call.n

(* rand_range(1, 1000), from which kheap_killer takes its request sizes,   *)
(* stays below its upper bound; and from every seed the generator repeats  *)
(* its third number for ever, so that all but the first sizes are equal.   *)
DrawsSettle ==
    call.fn = "rand" =>
        /\ \A n \in 1..5 : RandRange(out[n], 1, 1000) \in 1..999
        /\ out[4] = out[3] /\ out[5] = out[3] /\ RandRange(out[3], 1, 1000) = 485

(* string.c, math.c and rand.c compute, by loops and remainders, what the  *)
(* five parts say without them.                                            *)
HelpersAreRight ==
    CopiesMoveTheirSource /\ StringsAreCopied /\ StringsCompare /\ DivisionRoundsDown
        /\ DrawsSettle
=============================================================================
