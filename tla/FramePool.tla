----------------------------- MODULE FramePool -----------------------------
(***************************************************************************)
(* What pmm.h promises: a pool of page frames.  A frame that is handed out *)
(* is one the firmware and the kernel left free, nobody else holds it, and *)
(* the answer is "no frame" only when every frame of the pool is held.     *)
(***************************************************************************)
EXTENDS Integers

CONSTANT NoFrame

VARIABLES
    pool,      \* the frames of this machine that may ever be handed out
    held,      \* the frames that callers hold
    answer     \* what the last call returned

poolVars == <<pool, held, answer>>

Init == held = {} /\ answer = NoFrame

Alloc(f) ==
    /\ f \in pool \ held
    /\ held' = held \cup {f}
    /\ answer' = f
    /\ UNCHANGED pool

Exhausted ==
    /\ pool \subseteq held
    /\ answer' = NoFrame
    /\ UNCHANGED <<pool, held>>

Free(f) ==
    /\ f \in held
    /\ held' = held \ {f}
    /\ UNCHANGED <<pool, answer>>

Next == (\E f \in pool : Alloc(f)) \/ Exhausted \/ \E f \in held : Free(f)

Spec == Init /\ [][Next]_poolVars
=============================================================================
