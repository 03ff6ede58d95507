------------------------------- MODULE Locks -------------------------------
(***************************************************************************)
(* kernel/sync: the spin lock with and without the saving of the interrupt *)
(* flag, and the yield lock, on the one processor the kernel runs on.      *)
(*                                                                         *)
(* Context 0 is the code main runs; an interrupt that the processor takes  *)
(* starts the next context on top of it, and only the topmost one runs.    *)
(* One step is one access to memory or to the interrupt flag, so an        *)
(* interrupt can come between any two of them.                             *)
(*                                                                         *)
(* Callers do what the comments of the code ask of them: a spin lock that  *)
(* handlers take too is always taken with its irqsave function, the plain  *)
(* functions are for code outside handlers, and a handler may only try a   *)
(* yield lock.  Locks are given back in the opposite order.                *)
(***************************************************************************)
EXTENDS Naturals, Sequences, SequencesExt

CONSTANTS
    SpinLocks,      \* taken with spinlock_lock_irqsave, by any context
    PlainLocks,     \* taken with spinlock_lock
    YieldLocks,     \* taken with yieldlock_lock, or tried
    MaxDepth,       \* bound: handlers on top of each other
    MaxHeld,        \* bound: locks that a context holds at a time
    HandlerWork     \* bound: what a handler begins before it returns

AllLocks == SpinLocks \cup PlainLocks \cup YieldLocks
Main     == 0
Contexts == 0..MaxDepth

ASSUME LockAssumption ==
    /\ SpinLocks \cap PlainLocks = {} /\ YieldLocks \cap (SpinLocks \cup PlainLocks) = {}
    /\ MaxDepth \in Nat \ {0} /\ MaxHeld \in Nat /\ HandlerWork \in Nat

VARIABLES
    lock,              \* the lock words
    interrupt_mask,    \* of the spin locks
    iflag,             \* the interrupt flag of the processor
    depth,             \* the context that runs
    pc,                \* what each context does next
    target,            \* the lock it is busy with
    eflags,            \* spinlock_lock_irqsave's copy of the flag
    held,              \* the locks it holds, in the order it took them
    wanted,            \* the flag as main last set it outside any lock
    work               \* what each handler may still begin

vars == <<lock, interrupt_mask, iflag, depth, pc, target, eflags, held, wanted, work>>

LOCKED_NO  == 0
LOCKED_YES == 1
NoLock     == "none"

Holds(c) == ToSet(held[c])

----------------------------------------------------------------------------
(* spinlock_init and yieldlock_init, with interrupts enabled *)
Init ==
    /\ lock = [l \in AllLocks |-> LOCKED_NO]
    /\ interrupt_mask = [l \in SpinLocks |-> 0]
    /\ iflag = 1 /\ wanted = 1
    /\ depth = Main
    /\ pc = [c \in Contexts |-> "idle"]
    /\ target = [c \in Contexts |-> NoLock]
    /\ eflags = [c \in Contexts |-> 0]
    /\ held = [c \in Contexts |-> << >>]
    /\ work = [c \in Contexts |-> 0]

Runs(c, location) == depth = c /\ pc[c] = location
Goto(c, location) == pc' = [pc EXCEPT ![c] = location]
ResetTarget(c)    == target' = [target EXCEPT ![c] = NoLock]

(* Which locks a context may wait for. *)
WaitsAnywhere(c) == AllLocks                            \* mutant: handlers too
MayWaitFor(c)    == IF c = Main THEN AllLocks ELSE SpinLocks

(* A handler is finite, main may go on for ever. *)
Begin(c) ==
    IF c = Main THEN UNCHANGED work
    ELSE work[c] > 0 /\ work' = [work EXCEPT ![c] = @ - 1]

CanTake(c, l) == l \notin Holds(c) /\ Len(held[c]) < MaxHeld

----------------------------------------------------------------------------
(* The processor *)

Interrupt ==
    /\ iflag = 1 /\ depth < MaxDepth
    /\ depth' = depth + 1 /\ iflag' = 0
    /\ work' = [work EXCEPT ![depth + 1] = HandlerWork]
    /\ UNCHANGED <<lock, interrupt_mask, pc, target, eflags, held, wanted>>

(* iret brings back the flag of the interrupted code, which was set. *)
Iret ==
    /\ depth > Main /\ Runs(depth, "idle") /\ held[depth] = << >>
    /\ depth' = depth - 1 /\ iflag' = 1
    /\ work' = [work EXCEPT ![depth] = 0]
    /\ UNCHANGED <<lock, interrupt_mask, pc, target, eflags, held, wanted>>

(* disable_interrupts and enable_interrupts in main, outside all locks *)
SetInterrupts(flag) ==
    /\ Runs(Main, "idle") /\ held[Main] = << >>
    /\ iflag' = flag /\ wanted' = flag
    /\ UNCHANGED <<lock, interrupt_mask, depth, pc, target, eflags, held, work>>

----------------------------------------------------------------------------
(* Taking a lock *)

(* The flags register: bit 1 is always set, bit 9 is the interrupt flag. *)
GetEflags == 2 + 512 * iflag

AllFlags(flags) == flags                                \* mutant
IfBit(flags)    == (flags \div 512) * 512

(* spinlock_lock_irqsave, as far as get_eflags *)
LockIrqsave(c, l) ==
    /\ Runs(c, "idle") /\ l \in SpinLocks \cap MayWaitFor(c) /\ CanTake(c, l)
    /\ Begin(c)
    /\ target' = [target EXCEPT ![c] = l]
    /\ eflags' = [eflags EXCEPT ![c] = GetEflags]
    /\ Goto(c, "cli")
    /\ UNCHANGED <<lock, interrupt_mask, iflag, depth, held, wanted>>


DisableInterrupts(c) ==
    /\ Runs(c, "cli")
    /\ iflag' = 0
    /\ Goto(c, "mask")
    /\ UNCHANGED <<lock, interrupt_mask, depth, target, eflags, held, wanted, work>>

SaveMask(c) ==
    /\ Runs(c, "mask")
    /\ interrupt_mask' = [interrupt_mask EXCEPT ![target[c]] = IfBit(eflags[c])]
    /\ Goto(c, "xchg")
    /\ UNCHANGED <<lock, iflag, depth, target, eflags, held, wanted, work>>

StartToWait(c, l) ==
    /\ Runs(c, "idle")
    /\ Begin(c)
    /\ l \in MayWaitFor(c) /\ CanTake(c, l)
    /\ target' = [target EXCEPT ![c] = l]
    /\ Goto(c, "xchg")
    /\ UNCHANGED <<lock, interrupt_mask, iflag, depth, eflags, held, wanted>>

SpinlockLock(c, l) == l \in PlainLocks /\ StartToWait(c, l)

(* Its schedule_thread_yield is only a comment. *)
YieldlockLock(c, l) == l \in YieldLocks /\ StartToWait(c, l)

(* What atomic_exchange leaves in the lock word. *)
OnlyTested(l) == lock                                   \* mutant
Exchanged(l)  == [lock EXCEPT ![l] = LOCKED_YES]

(* One round of the loop: it ends when the old value was LOCKED_NO. *)
Exchange(c) ==
    /\ Runs(c, "xchg")
    /\ lock' = Exchanged(target[c])
    /\ IF lock[target[c]] = LOCKED_NO
       THEN /\ held' = [held EXCEPT ![c] = Append(@, target[c])]
            /\ Goto(c, "idle") /\ ResetTarget(c)
       ELSE UNCHANGED <<held, pc, target>>
    /\ UNCHANGED <<interrupt_mask, iflag, depth, eflags, wanted, work>>

TakenByTrying(l) == lock[l] = LOCKED_NO

(* yieldlock_trylock *)
TryLock(c, l) ==
    /\ Runs(c, "idle") /\ l \in YieldLocks /\ CanTake(c, l)
    /\ Begin(c)
    /\ lock' = Exchanged(l)
    /\ held' = IF TakenByTrying(l) THEN [held EXCEPT ![c] = Append(@, l)] ELSE held
    /\ UNCHANGED <<interrupt_mask, iflag, depth, pc, target, eflags, wanted>>

----------------------------------------------------------------------------
(* Giving a lock back *)

(* The last lock taken is the first to be given back. *)
GiveBack(c, next) ==
    /\ Runs(c, "idle")
    /\ lock' = [lock EXCEPT ![Last(held[c])] = LOCKED_NO]
    /\ held' = [held EXCEPT ![c] = Front(@)]
    /\ Goto(c, next)
    /\ UNCHANGED <<interrupt_mask, iflag, depth, eflags, wanted, work>>

HoldsLast(c, locks) == held[c] # << >> /\ Last(held[c]) \in locks

SpinlockUnlock(c)  == HoldsLast(c, PlainLocks) /\ GiveBack(c, "idle") /\ ResetTarget(c)
YieldlockUnlock(c) == HoldsLast(c, YieldLocks) /\ GiveBack(c, "idle") /\ ResetTarget(c)

(* spinlock_unlock_irqrestore: the store, then the flag *)
UnlockIrqrestore(c) ==
    /\ HoldsLast(c, SpinLocks)
    /\ GiveBack(c, "restore")
    /\ target' = [target EXCEPT ![c] = Last(held[c])]

AlwaysSti(l)    == 1                                    \* mutant
RestoredFlag(l) == IF interrupt_mask[l] # 0 THEN 1 ELSE iflag

Irqrestore(c) ==
    /\ Runs(c, "restore")
    /\ iflag' = RestoredFlag(target[c])
    /\ Goto(c, "idle") /\ ResetTarget(c)
    /\ eflags' = [eflags EXCEPT ![c] = 0]
    /\ UNCHANGED <<lock, interrupt_mask, depth, held, wanted, work>>

----------------------------------------------------------------------------
Proceed(c) ==
    DisableInterrupts(c) \/ SaveMask(c) \/ Exchange(c) \/ Irqrestore(c)

Unlock(c) == SpinlockUnlock(c) \/ YieldlockUnlock(c) \/ UnlockIrqrestore(c)

Next ==
    \/ Interrupt
    \/ Iret
    \/ \E flag \in {0, 1} : SetInterrupts(flag)
    \/ \E c \in Contexts, l \in AllLocks :
           LockIrqsave(c, l) \/ SpinlockLock(c, l) \/ YieldlockLock(c, l) \/ TryLock(c, l)
    \/ \E c \in Contexts : Proceed(c) \/ Unlock(c)

(* The processor goes on, handlers return and a context gives back what it *)
(* holds, as the code asks of its callers.  Interrupts leave the code      *)
(* below them time to run, so the fairness is strong.                      *)
Fairness ==
    /\ SF_vars(Iret)
    /\ \A c \in Contexts : SF_vars(Proceed(c)) /\ SF_vars(Unlock(c))

Spec == Init /\ [][Next]_vars /\ Fairness

----------------------------------------------------------------------------
(* Properties *)

(* Lock words, masks and flags hold what the code stores in them: of the   *)
(* flags register only the interrupt flag gets into a mask.                *)
TypeOK ==
    /\ lock \in [AllLocks -> {LOCKED_NO, LOCKED_YES}]
    /\ interrupt_mask \in [SpinLocks -> {0, 512}]
    /\ iflag \in {0, 1} /\ wanted \in {0, 1}
    /\ depth \in Contexts
    /\ pc \in [Contexts -> {"idle", "cli", "mask", "xchg", "restore"}]
    /\ target \in [Contexts -> AllLocks \cup {NoLock}]
    /\ eflags \in [Contexts -> {0, 2, 514}]
    /\ held \in [Contexts -> Seq(AllLocks)]
    /\ work \in [Contexts -> 0..HandlerWork]

(* The lock words implement locks: a context comes in only while nobody is *)
(* inside, and nobody else's unlock lets the next one in.                  *)
Promise == INSTANCE MutexSpec WITH
    Locks <- AllLocks, holders <- [l \in AllLocks |-> {c \in Contexts : l \in Holds(c)}]
ImplementsMutex == Promise!Spec

(* "Who disables enables": the last unlock leaves the interrupt flag as    *)
(* the context had it before its first lock, and an inner unlock does not  *)
(* enable what an outer lock, or the caller, has disabled; so no handler   *)
(* runs while the code below it is inside such a lock.                     *)
FlagRestored ==
    /\ pc[depth] = "idle" =>
           iflag = IF depth > Main \/ Holds(depth) \cap SpinLocks # {} THEN 0 ELSE wanted
    /\ \A c \in Contexts : c < depth => Holds(c) \cap SpinLocks = {}

(* Every attempt to take a lock ends: no context spins on a lock that the  *)
(* code it interrupted holds.                                              *)
SpinEnds == \A c \in Contexts : pc[c] = "xchg" ~> pc[c] # "xchg"
=============================================================================
