---------------------------- MODULE MCInterrupts ----------------------------
EXTENDS Interrupts

(* What the BIOS left masked: nothing, or the keyboard, line 10 and the coprocessor. *)
SomeMasks ==
    { [c \in Chips |-> {}],
      [c \in Chips |-> IF c = "master" THEN {1} ELSE {2, 5}] }

=============================================================================
