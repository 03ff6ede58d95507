-------------------------------- MODULE Rand --------------------------------
(***************************************************************************)
(* kernel/lib/rand.c: a linear congruential generator modulo 2^31 with the *)
(* constants of the code.  Its 32-bit products are beyond the integers of  *)
(* the model checker; rand_a is 4096 * 8191, so that the product modulo    *)
(* 2^31 is 4096 times (8192 * seed - seed) modulo 2^19.                    *)
(***************************************************************************)
EXTENDS Naturals

TwoTo19 == 524288

(* A sum modulo 2^31, which is itself no integer of the model checker. *)
Sum31(x, y) == IF x > 2147483647 - y THEN x - 2147483647 - 1 + y ELSE x + y

RandA(s)  == 4096 * (((s % 64) * 8192 + TwoTo19 - (s % TwoTo19)) % TwoTo19)
TimesA(s) == RandA(s)
RandC     == 8128

(* A seed of 0 is replaced by the tick: rand_seed_with_time. *)
NextSeed(seed, tick) == Sum31(TimesA(IF seed = 0 THEN tick ELSE seed), RandC)

(* The n-th number of rand() after rand_seed(seed). *)
Draw(seed, tick, n) ==
    LET number[k \in 0..n] == IF k = 0 THEN seed ELSE NextSeed(number[k - 1], tick)
    IN  number[n]

(* (double)rand() / rand_m * (max - min) + min, cut to an integer; a       *)
(* double holds it exactly.  The division by 2^31 is done in two steps.    *)
Scaled(r, k) == ((r \div 65536) * k + ((r % 65536) * k) \div 65536) \div 32768
RandRange(r, low, high) == Scaled(r, high - low) + low
=============================================================================
