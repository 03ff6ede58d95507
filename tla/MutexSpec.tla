----------------------------- MODULE MutexSpec -----------------------------
(* What a lock promises its callers: it has one holder at a time, and only *)
(* the holder gives it back.                                               *)
EXTENDS Naturals

CONSTANTS Locks, Contexts

VARIABLE holders          \* the contexts that are inside each lock

Init == holders = [l \in Locks |-> {}]

Acquire(c, l) == holders[l] = {}  /\ holders' = [holders EXCEPT ![l] = {c}]
Release(c, l) == holders[l] = {c} /\ holders' = [holders EXCEPT ![l] = {}]

Next == \E c \in Contexts, l \in Locks : Acquire(c, l) \/ Release(c, l)

Spec == Init /\ [][Next]_holders
=============================================================================
