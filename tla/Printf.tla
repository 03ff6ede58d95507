------------------------------- MODULE Printf -------------------------------
(***************************************************************************)
(* vga_printf: what it writes for a format and the words that the caller   *)
(* has pushed behind it.  A format is a sequence of codes; a string        *)
(* argument is the word that stands for it in Strings.                     *)
(***************************************************************************)
EXTENDS Format

CONSTANTS
    BufferSize,     \* sizeof(buf)
    PointerDigits   \* 8: the hexadecimal digits of a word

Percent == 37
Ell     == 108
Zero    == 48
X       == 120

LowCodes == [c |-> 99, d |-> 100, h |-> 104, i |-> 105, p |-> 112, s |-> 115,
             u |-> 117, x |-> 120, bigX |-> 88]

Signed == {LowCodes.d, LowCodes.i}
Hex    == {LowCodes.x, LowCodes.bigX}

(* The strings the callers print: NULL, which is word 0, and two others. *)
NullText  == << 40, 110, 117, 108, 108, 41 >>
StringAt(w) == IF w = 0 THEN NullText ELSE << 65 >>

(* va_arg of one word and of two, the lower first *)
Long(args, k) == args[k] + Word * args[k + 1]

Padding(s)   == [n \in 1..(IF Len(s) < PointerDigits THEN PointerDigits - Len(s) ELSE 0)
                    |-> Zero]
Pointer(w)   == LET s == Utoa(w, 16, BufferSize) IN << Zero, X >> \o Padding(s) \o s

SignedLong(v) ==
    IF v >= LongWord \div 2
    THEN << Minus >> \o Ulltoa((LongWord - v) % LongWord, 10, BufferSize)
    ELSE Ulltoa(v, 10, BufferSize)

(* What the directive at a letter writes and how many words it takes. *)
Result(text, words) == [text |-> text, words |-> words]

WordDirective(letter, args, k) ==
    CASE letter \in Signed       -> Result(Itoa(args[k], 10, BufferSize), 1)
      [] letter = LowCodes.u     -> Result(Utoa(args[k], 10, BufferSize), 1)
      [] letter \in Hex          -> Result(Utoa(args[k], 16, BufferSize), 1)

OneWordForSize(args, k) == Result(HumanSize(args[k], BufferSize), 1)    \* mutant
SizeDirective(args, k)  == Result(HumanSize(Long(args, k), BufferSize), 2)

Directive(letter, args, k) ==
    CASE letter = LowCodes.c     -> Result(<< args[k] >>, 1)
      [] letter = LowCodes.s     -> Result(StringAt(args[k]), 1)
      [] letter \in Signed \cup Hex \cup {LowCodes.u} -> WordDirective(letter, args, k)
      [] letter = LowCodes.h     -> SizeDirective(args, k)
      [] letter = LowCodes.p     -> Result(Pointer(args[k]), 1)
      [] letter = Percent        -> Result(<< Percent >>, 0)
      [] OTHER                   -> Result(<< Percent, letter >>, 0)

(* Behind "%l" *)
LongDirective(letter, args, k) ==
    IF letter \in Signed \cup Hex \cup {LowCodes.u} THEN WordDirective(letter, args, k)
    ELSE Result(<< Percent, Ell, letter >>, 0)

(* Behind "%ll" *)
LongLongDirective(letter, args, k) ==
    CASE letter \in Signed    -> Result(SignedLong(Long(args, k)), 2)
      [] letter = LowCodes.u  -> Result(Ulltoa(Long(args, k), 10, BufferSize), 2)
      [] letter \in Hex       -> Result(Ulltoa(Long(args, k), 16, BufferSize), 2)
      [] OTHER                -> Result(<< Percent, Ell, Ell, letter >>, 0)

(* The whole loop, from the format's position p and argument k on.  The    *)
(* terminator is at Len(fmt) + 1; a format that ends inside "%l" or "%ll"  *)
(* is not followed here, for the loop steps over its terminator.           *)
VgaPrintf(fmt, args) ==
    LET At(p) == IF p <= Len(fmt) THEN fmt[p] ELSE 0
        out[p \in 1..(Len(fmt) + 1), k \in 1..(Len(args) + 1)] ==
            LET ells == IF At(p) # Percent \/ At(p + 1) # Ell THEN 0
                        ELSE IF At(p + 2) # Ell THEN 1 ELSE 2
                last == p + 1 + ells
                done == CASE ells = 0 -> Directive(At(last), args, k)
                          [] ells = 1 -> LongDirective(At(last), args, k)
                          [] ells = 2 -> LongLongDirective(At(last), args, k)
            IN  IF At(p) = 0 \/ (At(p) = Percent /\ At(last) = 0) THEN << >>
                ELSE IF At(p) # Percent THEN << At(p) >> \o out[p + 1, k]
                ELSE done.text \o out[last + 1, k + done.words]
    IN  out[1, 1]
=============================================================================
