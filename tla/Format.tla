------------------------------- MODULE Format -------------------------------
(***************************************************************************)
(* The number conversions of kernel/drivers/vga.c.  A string is the        *)
(* sequence of its characters' codes without the terminator, so one that   *)
(* fits a buffer of n bytes is shorter than n.  A word of 32 bits is a     *)
(* number below Word, one of 64 bits a number below LongWord, and a unit   *)
(* of vga_human_size is Kilo times the unit before it.                     *)
(***************************************************************************)
EXTENDS Integers, Sequences, SequencesExt

CONSTANTS Word, LongWord, Kilo

ASSUME FormatAssumption ==
    /\ Word \in Nat \ {0, 1} /\ Word % 2 = 0
    /\ LongWord \in Nat /\ LongWord >= Word
    /\ Kilo \in Nat \ {0, 1}

(* With a Kilo of 1024, 1 << (10 * n) is Power(Kilo, n). *)
Power(b, n) == LET p[k \in 0..n] == IF k = 0 THEN 1 ELSE b * p[k - 1] IN p[n]

Question == 63
Minus    == 45
Point    == 46

(* '0'..'9' and 'a'..'f' *)
Digit(d) == IF d < 10 THEN 48 + d ELSE 87 + d

(* The loops that write digits from the last to the first, while there is  *)
(* room. *)
NextDigit(state, base) ==
    IF state.s # << >> /\ state.rest = 0 THEN state
    ELSE [s |-> Append(state.s, Digit(state.rest % base)), rest |-> state.rest \div base]

DigitsBackwards(value, base, room) ==
    LET after[n \in 0..room] == IF n = 0 THEN [s |-> << >>, rest |-> value]
                                ELSE NextDigit(after[n - 1], base)
    IN  after[room].s

InOrder(s)    == Reverse(s)

(* A single character, when there is room for it. *)
IfRoom(ch, size) == IF size > 1 THEN << ch >> ELSE << >>

Utoa(value, base, size) ==
    IF size = 0 THEN << >>
    ELSE IF value # 0 /\ base \notin {10, 16} THEN IfRoom(Question, size)
    ELSE InOrder(DigitsBackwards(value, base, size - 1))

(* The powers of ten of a long word, from the largest. *)
Powers ==
    LET from[p \in 1..LongWord] == IF p > (LongWord - 1) \div 10 THEN << p >>
                                   ELSE Append(from[p * 10], p)
    IN  from[1]

(* The digits of the decimal conversion come from the first to the last:   *)
(* what does not fit is cut off at the end.                                *)
TakeDigit(state, power, size) ==
    LET digit == state.rest \div power
    IN  IF Len(state.s) = size - 1 \/ (state.s = << >> /\ digit = 0) THEN state
        ELSE [s |-> Append(state.s, Digit(digit)), rest |-> state.rest % power]

ForwardDigits(value, size) ==
    LET after[n \in 0..Len(Powers)] ==
            IF n = 0 THEN [s |-> << >>, rest |-> value]
            ELSE TakeDigit(after[n - 1], Powers[n], size)
    IN  after[Len(Powers)].s

Ulltoa(value, base, size) ==
    IF size = 0 THEN << >>
    ELSE CASE base = 16  -> InOrder(DigitsBackwards(value, 16, size - 1))
           [] base = 10  -> IF value = 0 THEN IfRoom(Digit(0), size)
                            ELSE ForwardDigits(value, size)
           [] OTHER      -> IfRoom(Question, size)

(* An int is the word that holds it: the upper half are the negative ones. *)
IsNegative(w) == w >= Word \div 2
Negated(w)    == (Word - w) % Word

SignFits(s, size)   == Len(s) + 1 < size

Itoa(w, base, size) ==
    LET negative == base = 10 /\ IsNegative(w)
        s == Utoa(IF negative THEN Negated(w) ELSE w, base, size)
    IN  IF negative /\ SignFits(s, size) THEN << Minus >> \o s ELSE s

(* B, K, M, G and T *)
Units == << 66, 75, 77, 71, 84 >>

Scale(bytes) ==
    LET reached == {n \in 1..4 : bytes >= Power(Kilo, n)}
    IN  IF reached = {} THEN 0 ELSE CHOOSE n \in reached : \A k \in reached : k <= n

TenthsRounded(rest, unit) == (rest * 10 + unit \div 2) \div unit   \* mutant
TenthsOfUnit(rest, unit)  == (rest * 10) \div unit

HumanSize(bytes, size) ==
    LET unit  == Power(Kilo, Scale(bytes))
        whole == Ulltoa(bytes \div unit, 10, 32)
        frac  == TenthsOfUnit(bytes % unit, unit)
        s     == IF frac > 0 /\ Len(whole) + 3 < size
                 THEN whole \o << Point, Digit(frac) >> ELSE whole
    IN  CASE Len(whole) >= size  -> << >>
          [] Len(s) + 2 <= size  -> Append(s, Units[Scale(bytes) + 1])
          [] OTHER               -> s
=============================================================================
