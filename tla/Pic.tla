-------------------------------- MODULE Pic --------------------------------
(***************************************************************************)
(* The pair of 8259A interrupt controllers as kernel/interrupt/interrupt.c *)
(* uses them: hardware, so a model of what the code relies on.  A chip is  *)
(* a record: the requests it has latched (irr), the lines in service       *)
(* (isr), the lines that are masked (imr), the vector of its line 0 (base) *)
(* and the initialisation word it waits for (icw, 0 for none).  The slave  *)
(* is connected to line 2 of the master, and lower lines come first.       *)
(***************************************************************************)
EXTENDS Integers, FiniteSets

Lines   == 0..7
Cascade == 2
Chips   == {"master", "slave"}

Least(S) == CHOOSE x \in S : \A y \in S : x <= y

(* The lines of a chip that are requested, not masked, and of a higher     *)
(* priority than what is in service.                                       *)
Eligible(chip, requests) ==
    {l \in requests \ chip.imr : chip.icw = 0 /\ \A s \in chip.isr : l < s}

SlaveEligible(pics) == Eligible(pics["slave"], pics["slave"].irr)

MasterEligible(pics) ==
    Eligible(pics["master"],
             pics["master"].irr \cup (IF SlaveEligible(pics) # {} THEN {Cascade} ELSE {}))

Acknowledged(chip, l) == [chip EXCEPT !.isr = @ \cup {l}, !.irr = @ \ {l}]
Dropped(chip, lines)  == [chip EXCEPT !.irr = @ \ lines]

(* The CPU acknowledges: the line goes into service, of a slave's line the *)
(* cascade does as well.                                                   *)
Acknowledge(pics) ==
    LET l == Least(MasterEligible(pics))
    IN  [pics EXCEPT
            !["master"] = Acknowledged(@, l),
            !["slave"]  = IF l = Cascade THEN Acknowledged(@, Least(SlaveEligible(pics))) ELSE @]

(* The number of the request that is acknowledged next. *)
NextIrq(pics) ==
    LET l == Least(MasterEligible(pics))
    IN  IF l = Cascade THEN 8 + Least(SlaveEligible(pics)) ELSE l

AcknowledgedVector(pics) ==
    LET l == Least(MasterEligible(pics))
    IN  IF l = Cascade THEN pics["slave"].base + Least(SlaveEligible(pics))
                       ELSE pics["master"].base + l

(* A request that goes away before it is acknowledged, the only one of its *)
(* chip: the chip answers with its lowest line and has nothing in service  *)
(* for it; the master takes the slave's word for it.                       *)
CanBeWithdrawn(pics) ==
    IF Least(MasterEligible(pics)) = Cascade THEN Cardinality(SlaveEligible(pics)) = 1
                                             ELSE Cardinality(MasterEligible(pics)) = 1

Withdraw(pics) ==
    LET l == Least(MasterEligible(pics))
    IN  [pics EXCEPT
            !["master"] = IF l = Cascade THEN Acknowledged(@, l) ELSE Dropped(@, {l}),
            !["slave"]  = IF l = Cascade THEN Dropped(@, SlaveEligible(pics)) ELSE @]

SpuriousVector(pics) ==
    7 + pics[IF Least(MasterEligible(pics)) = Cascade THEN "slave" ELSE "master"].base

(* Writes to the two ports of a chip. *)
EndOfInterrupt(chip) ==
    [chip EXCEPT !.isr = @ \ (IF @ = {} THEN {} ELSE {Least(@)})]

Icw1(chip) == [chip EXCEPT !.irr = {}, !.isr = {}, !.imr = {}, !.icw = 2]

WriteData(chip, value) ==
    CASE chip.icw = 0 -> [chip EXCEPT !.imr = value]
      [] chip.icw = 2 -> [chip EXCEPT !.base = value, !.icw = 3]
      [] chip.icw = 3 -> [chip EXCEPT !.icw = 4]
      [] chip.icw = 4 -> [chip EXCEPT !.icw = 0]
=============================================================================
