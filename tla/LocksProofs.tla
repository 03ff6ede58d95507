---------------------------- MODULE LocksProofs ----------------------------
(***************************************************************************)
(* The locks of kernel/sync keep their promises for any number of locks    *)
(* and of handlers, under the rules their callers keep.                    *)
(*                                                                         *)
(* The heart of the invariant is what interrupts cannot do: they come to   *)
(* main only while it is at a place where its interrupt flag is set, so a  *)
(* handler never meets a half taken or half released spin lock, and never  *)
(* another handler.                                                        *)
(***************************************************************************)
EXTENDS Locks, SequenceTheorems, TLAPS

(* A lock word is taken exactly while somebody holds the lock, and that is *)
(* one context, which holds it once.                                       *)
WordsTellHolders ==
    /\ \A l \in AllLocks : lock[l] = LOCKED_YES <=> \E c \in Contexts : l \in Holds(c)
    /\ \A c, d \in Contexts : c # d => Holds(c) \cap Holds(d) = {}
    /\ \A c \in Contexts : \A i, j \in 1..Len(held[c]) : held[c][i] = held[c][j] => i = j

(* A context is described by its place p, its target t and what it holds,  *)
(* h; o is its interrupt flag outside of all spin locks.  What it is busy  *)
(* with fits its place:                                                    *)
Fits(p, t, h) ==
    /\ p \in {"cli", "mask", "restore"} => t \in SpinLocks
    /\ p = "xchg" => t \in AllLocks
    /\ p # "idle" => t \notin ToSet(h)

InSpin(h) == ToSet(h) \cap SpinLocks # {}

(* Whether it has disabled interrupts. *)
Disabled(p, t, h) ==
    InSpin(h) \/ p \in {"mask", "restore"} \/ (p = "xchg" /\ t \in SpinLocks)

Flag(h, o) == IF InSpin(h) THEN 0 ELSE o

(* The copies of the flag, in its eflags e and in the masks of the locks   *)
(* it holds: only the mask of the outermost spin lock may say "enable".    *)
FlagsFit(p, t, e, h, o, masks) ==
    /\ p \in {"cli", "mask"} => e = 2 + 512 * Flag(h, o)
    /\ (p \in {"xchg", "restore"} /\ t \in SpinLocks) => masks[t] = 512 * Flag(h, o)
    /\ \A i \in 1..Len(h) :
           h[i] \in SpinLocks =>
               masks[h[i]] = IF \E j \in 1..(i - 1) : h[j] \in SpinLocks THEN 0 ELSE 512 * o

Outer(c)    == IF c = Main THEN wanted ELSE 0
IsDisabled(c) == Disabled(pc[c], target[c], held[c])

TargetsFit == \A c \in Contexts : Fits(pc[c], target[c], held[c])

FlagsSaved ==
    \A c \in Contexts :
        FlagsFit(pc[c], target[c], eflags[c], held[c], Outer(c), interrupt_mask)

(* Contexts above the one that runs have not started; main was interrupted *)
(* with its flag set, and a handler by nothing at all.                     *)
ContextsStack ==
    /\ depth \in {0, 1}
    /\ \A c \in Contexts : c > depth => pc[c] = "idle" /\ held[c] = << >>
    /\ depth = 1 => wanted = 1 /\ iflag = 0 /\ ~ IsDisabled(Main)
    /\ depth = 0 => iflag = IF IsDisabled(Main) THEN 0 ELSE wanted

LocksInv == TypeOK /\ WordsTellHolders /\ TargetsFit /\ ContextsStack /\ FlagsSaved

----------------------------------------------------------------------------
(* Sequences and constants *)

LEMMA SetOfSequence ==
    ASSUME NEW S, NEW s \in Seq(S)
    PROVE  \A x : x \in ToSet(s) <=> \E i \in 1..Len(s) : s[i] = x
<1>1. DOMAIN s = 1..Len(s)
  BY LenProperties
<1> QED
  BY <1>1 DEF ToSet

LEMMA SetOfAppend ==
    ASSUME NEW S, NEW s \in Seq(S), NEW x \in S
    PROVE  ToSet(Append(s, x)) = ToSet(s) \cup {x}
<1>1. /\ Append(s, x) \in Seq(S) /\ Len(Append(s, x)) = Len(s) + 1 /\ Len(s) \in Nat
      /\ \A i \in 1..Len(s) : Append(s, x)[i] = s[i]
      /\ Append(s, x)[Len(s) + 1] = x
  BY AppendProperties, LenProperties
<1>2. \A y : y \in ToSet(Append(s, x)) <=> \E i \in 1..Len(Append(s, x)) : Append(s, x)[i] = y
  BY <1>1, SetOfSequence
<1>3. \A y : y \in ToSet(s) <=> \E i \in 1..Len(s) : s[i] = y
  BY SetOfSequence
<1> QED
  BY <1>1, <1>2, <1>3

LEMMA SetOfFront ==
    ASSUME NEW S, NEW s \in Seq(S), s # << >>,
           \A i, j \in 1..Len(s) : s[i] = s[j] => i = j
    PROVE  /\ Front(s) \in Seq(S)
           /\ Len(Front(s)) = Len(s) - 1
           /\ \A i \in 1..Len(Front(s)) : Front(s)[i] = s[i]
           /\ Last(s) \in S /\ Last(s) = s[Len(s)] /\ Len(s) \in 1..Len(s)
           /\ ToSet(Front(s)) = ToSet(s) \ {Last(s)}
           /\ Last(s) \in ToSet(s)
<1>1. Len(s) \in Nat \ {0} /\ \A i \in 1..Len(s) : s[i] \in S
  BY EmptySeq, ElementOfSeq
<1>2. /\ Front(s) \in Seq(S)
      /\ Len(Front(s)) = Len(s) - 1
      /\ \A i \in 1..Len(Front(s)) : Front(s)[i] = s[i]
  <2> DEFINE f == SubSeq(s, 1, Len(s) - 1)
  <2>1. \A i \in 1..(Len(s) - 1) : s[i] \in S
    BY <1>1
  <2>2. /\ f \in Seq(S)
        /\ Len(f) = IF 1 <= Len(s) - 1 THEN Len(s) - 1 - 1 + 1 ELSE 0
        /\ \A i \in 1..(Len(s) - 1 - 1 + 1) : f[i] = s[1 + i - 1]
    BY <1>1, <2>1, SubSeqProperties
  <2>3. Front(s) = f
    BY DEF Front
  <2> HIDE DEF f
  <2>4. Len(f) = Len(s) - 1
    <3>1. \A n \in Nat \ {0} : (IF 1 <= n - 1 THEN n - 1 - 1 + 1 ELSE 0) = n - 1
      OBVIOUS
    <3> QED
      BY <1>1, <2>2, <3>1, Zenon
  <2>5. \A i \in 1..(Len(s) - 1) : f[i] = s[i]
    <3> TAKE i \in 1..(Len(s) - 1)
    <3>1. i \in 1..(Len(s) - 1 - 1 + 1) /\ 1 + i - 1 = i
      BY <1>1
    <3> QED
      BY <2>2, <3>1
  <2> QED
    BY <2>2, <2>3, <2>4, <2>5
<1>3. Last(s) \in S /\ Last(s) = s[Len(s)] /\ Len(s) \in 1..Len(s)
  BY <1>1 DEF Last
<1>4. \A y : y \in ToSet(Front(s)) <=> \E i \in 1..Len(Front(s)) : Front(s)[i] = y
  BY <1>2, SetOfSequence
<1>5. \A y : y \in ToSet(s) <=> \E i \in 1..Len(s) : s[i] = y
  BY SetOfSequence
<1>6. ToSet(Front(s)) = ToSet(s) \ {Last(s)}
  BY <1>1, <1>2, <1>3, <1>4, <1>5
<1> QED
  BY <1>2, <1>3, <1>5, <1>6

LEMMA ExceptType ==
    ASSUME NEW D, NEW R, NEW f \in [D -> R], NEW x, NEW r \in R
    PROVE  [f EXCEPT ![x] = r] \in [D -> R]
  OBVIOUS

LEMMA Numbers ==
    /\ Main \in Contexts /\ 1 \in Contexts /\ Contexts \subseteq Nat
    /\ LOCKED_NO # LOCKED_YES
  BY LockAssumption DEF Main, Contexts, LOCKED_NO, LOCKED_YES

----------------------------------------------------------------------------
(* Contexts *)

LEMMA BitOfFlags ==
    /\ \A f \in {0, 1} : 2 + 512 * f \in {2, 514} /\ IfBit(2 + 512 * f) = 512 * f
    /\ \A e \in {0, 2, 514} : IfBit(e) \in {0, 512}
  BY DEF IfBit

LEMMA BeginTypes ==
    ASSUME NEW c \in Contexts, work \in [Contexts -> 0..HandlerWork], Begin(c)
    PROVE  work' \in [Contexts -> 0..HandlerWork]
<1>1. CASE c = Main
  BY <1>1 DEF Begin
<1>2. CASE c # Main
  <2>1. work[c] - 1 \in 0..HandlerWork
    BY <1>2, LockAssumption DEF Begin
  <2> QED
    BY <1>2, <2>1 DEF Begin
<1> QED
  BY <1>1, <1>2

LEMMA EmptyHolds ==
    /\ ToSet(<< >>) = {} /\ ~ InSpin(<< >>)
  BY DEF ToSet, InSpin

(* Who holds no spin lock and waits for none does not look at the masks. *)
LEMMA MasksDoNotMatter ==
    ASSUME NEW p, NEW t, NEW e, NEW h \in Seq(AllLocks), NEW o, NEW m, NEW n,
           ~ Disabled(p, t, h), FlagsFit(p, t, e, h, o, m)
    PROVE  FlagsFit(p, t, e, h, o, n)
<1>1. \A i \in 1..Len(h) : h[i] \notin SpinLocks
  BY SetOfSequence DEF Disabled, InSpin
<1> QED
  BY <1>1 DEF FlagsFit, Disabled

LEMMA OthersAreEnabled ==
    ASSUME LocksInv, NEW d \in Contexts, d # depth
    PROVE  ~ IsDisabled(d)
<1>1. CASE d > depth
  BY <1>1, EmptyHolds DEF LocksInv, ContextsStack, IsDisabled, Disabled
<1>2. CASE d < depth
  BY <1>2, Numbers DEF LocksInv, ContextsStack, Main
<1> QED
  BY <1>1, <1>2, Numbers DEF LocksInv, ContextsStack

OthersStay(c) ==
    \A d \in Contexts \ {c} :
        pc'[d] = pc[d] /\ target'[d] = target[d] /\ eflags'[d] = eflags[d] /\ held'[d] = held[d]

(* A step of the running context keeps the invariant when its own part of  *)
(* it is kept.                                                             *)
LEMMA ContextStep ==
    ASSUME LocksInv, TypeOK', WordsTellHolders', NEW c \in Contexts, c = depth,
           UNCHANGED <<depth, wanted>>, OthersStay(c),
           Fits(pc'[c], target'[c], held'[c]),
           iflag' = IF c # Main \/ Disabled(pc'[c], target'[c], held'[c]) THEN 0 ELSE wanted,
           FlagsFit(pc'[c], target'[c], eflags'[c], held'[c], Outer(c), interrupt_mask')
    PROVE  LocksInv'
<1>1. TargetsFit'
  BY DEF LocksInv, TargetsFit, OthersStay
<1>2. FlagsSaved'
  <2> SUFFICES ASSUME NEW d \in Contexts
               PROVE  FlagsFit(pc'[d], target'[d], eflags'[d], held'[d], Outer(d)', interrupt_mask')
    BY DEF FlagsSaved
  <2>1. Outer(d)' = Outer(d)
    BY DEF Outer
  <2>2. CASE d = c
    BY <2>1, <2>2
  <2>3. CASE d # c
    <3>1. ~ Disabled(pc[d], target[d], held[d])
      BY <2>3, OthersAreEnabled DEF IsDisabled
    <3>2. FlagsFit(pc[d], target[d], eflags[d], held[d], Outer(d), interrupt_mask)
      BY DEF LocksInv, FlagsSaved
    <3>3. held[d] \in Seq(AllLocks)
      BY DEF LocksInv, TypeOK
    <3>4. FlagsFit(pc[d], target[d], eflags[d], held[d], Outer(d), interrupt_mask')
      BY <3>1, <3>2, <3>3, MasksDoNotMatter
    <3> QED
      BY <2>1, <2>3, <3>4 DEF OthersStay
  <2> QED
    BY <2>2, <2>3
<1>3. ContextsStack'
  <2>1. depth' \in {0, 1}
    BY DEF LocksInv, ContextsStack
  <2>2. \A d \in Contexts : d > depth' => pc'[d] = "idle" /\ held'[d] = << >>
    BY Numbers DEF LocksInv, ContextsStack, OthersStay
  <2>3. depth' = 1 => wanted' = 1 /\ iflag' = 0 /\ ~ IsDisabled(Main)'
    <3> SUFFICES ASSUME depth = 1 PROVE wanted' = 1 /\ iflag' = 0 /\ ~ IsDisabled(Main)'
      OBVIOUS
    <3>1. c # Main
      BY DEF Main
    <3>2. IsDisabled(Main)' = IsDisabled(Main)
      BY <3>1, Numbers DEF IsDisabled, OthersStay
    <3> QED
      BY <3>1, <3>2 DEF LocksInv, ContextsStack
  <2>4. depth' = 0 => iflag' = IF IsDisabled(Main)' THEN 0 ELSE wanted'
    BY DEF IsDisabled, Main
  <2> QED
    BY <2>1, <2>2, <2>3, <2>4 DEF ContextsStack
<1> QED
  BY <1>1, <1>2, <1>3 DEF LocksInv

LEMMA WordsStay ==
    ASSUME WordsTellHolders, UNCHANGED <<lock, held>>
    PROVE  WordsTellHolders'
  BY DEF WordsTellHolders, Holds

LEMMA FlagOfRunning ==
    ASSUME LocksInv
    PROVE  iflag = IF depth # Main \/ IsDisabled(depth) THEN 0 ELSE wanted
  BY Numbers DEF LocksInv, ContextsStack, Main

(* The flag of the running context when it is at no place in a call. *)
LEMMA FlagOutside ==
    ASSUME LocksInv, pc[depth] = "idle"
    PROVE  /\ depth \in Contexts
           /\ iflag = Flag(held[depth], Outer(depth)) /\ iflag \in {0, 1}
           /\ iflag = IF depth # Main \/ InSpin(held[depth]) THEN 0 ELSE wanted
           /\ Outer(depth) \in {0, 1}
  BY Numbers DEF LocksInv, ContextsStack, TypeOK, IsDisabled, Disabled, Flag, Outer, Main

----------------------------------------------------------------------------
(* The steps that leave the locks alone *)

LEMMA InterruptKeeps ==
    ASSUME LocksInv, Interrupt
    PROVE  LocksInv'
<1>1. depth = 0 /\ depth' = 1 /\ iflag' = 0 /\ wanted = 1 /\ ~ IsDisabled(Main)
  BY DEF LocksInv, ContextsStack, Interrupt
<1>2. UNCHANGED <<lock, interrupt_mask, pc, target, eflags, held, wanted>>
  BY DEF Interrupt
<1>3. TypeOK'
  <2>1. work' = [work EXCEPT ![1] = HandlerWork]
    BY <1>1 DEF Interrupt
  <2>2. work' \in [Contexts -> 0..HandlerWork]
    <3>1. HandlerWork \in 0..HandlerWork /\ 0 \in 0..HandlerWork
      BY LockAssumption
    <3> QED
      BY <2>1, <3>1, ExceptType DEF LocksInv, TypeOK
  <2> QED
    BY <1>1, <1>2, <2>2, Numbers DEF LocksInv, TypeOK
<1>4. WordsTellHolders'
  BY <1>2, WordsStay DEF LocksInv
<1>5. TargetsFit' /\ FlagsSaved'
  BY <1>2 DEF LocksInv, TargetsFit, FlagsSaved, Outer
<1>6. ContextsStack'
  BY <1>1, <1>2, Numbers DEF LocksInv, ContextsStack, IsDisabled
<1> QED
  BY <1>3, <1>4, <1>5, <1>6 DEF LocksInv

LEMMA IretKeeps ==
    ASSUME LocksInv, Iret
    PROVE  LocksInv'
<1>1. depth = 1 /\ depth' = 0 /\ iflag' = 1 /\ pc[1] = "idle" /\ held[1] = << >>
  BY Numbers DEF LocksInv, ContextsStack, Iret, Runs, Main
<1>2. UNCHANGED <<lock, interrupt_mask, pc, target, eflags, held, wanted>>
  BY DEF Iret
<1>3. TypeOK'
  <2>1. work' = [work EXCEPT ![1] = 0]
    BY <1>1 DEF Iret
  <2>2. work' \in [Contexts -> 0..HandlerWork]
    <3>1. HandlerWork \in 0..HandlerWork /\ 0 \in 0..HandlerWork
      BY LockAssumption
    <3> QED
      BY <2>1, <3>1, ExceptType DEF LocksInv, TypeOK
  <2> QED
    BY <1>1, <1>2, <2>2, Numbers DEF LocksInv, TypeOK, Main
<1>4. WordsTellHolders'
  BY <1>2, WordsStay DEF LocksInv
<1>5. TargetsFit' /\ FlagsSaved'
  BY <1>2 DEF LocksInv, TargetsFit, FlagsSaved, Outer
<1>6. ContextsStack'
  <2>1. wanted' = 1 /\ ~ IsDisabled(Main)'
    BY <1>1, <1>2 DEF LocksInv, ContextsStack, IsDisabled
  <2>2. \A c \in Contexts : c > 0 => pc'[c] = "idle" /\ held'[c] = << >>
    <3> TAKE c \in Contexts
    <3>1. c \in Nat
      BY Numbers
    <3>2. CASE c = 1
      BY <1>1, <1>2, <3>2
    <3>3. CASE c # 1
      <4>1. c > 0 => c > depth
        BY <1>1, <3>1, <3>3
      <4> QED
        BY <1>2, <4>1 DEF LocksInv, ContextsStack
    <3> QED
      BY <3>2, <3>3
  <2> QED
    BY <1>1, <2>1, <2>2 DEF ContextsStack
<1> QED
  BY <1>3, <1>4, <1>5, <1>6 DEF LocksInv

LEMMA SetInterruptsKeeps ==
    ASSUME LocksInv, NEW flag \in {0, 1}, SetInterrupts(flag)
    PROVE  LocksInv'
<1>1. depth = 0 /\ pc[0] = "idle" /\ held[0] = << >> /\ iflag' = flag /\ wanted' = flag
  BY DEF SetInterrupts, Runs, Main
<1>2. UNCHANGED <<lock, interrupt_mask, depth, pc, target, eflags, held, work>>
  BY DEF SetInterrupts
<1>3. TypeOK'
  BY <1>1, <1>2 DEF LocksInv, TypeOK
<1>4. WordsTellHolders'
  BY <1>2, WordsStay DEF LocksInv
<1>5. TargetsFit'
  BY <1>2 DEF LocksInv, TargetsFit
<1>6. FlagsSaved'
  <2> SUFFICES ASSUME NEW d \in Contexts
               PROVE  FlagsFit(pc[d], target[d], eflags[d], held[d], Outer(d)', interrupt_mask)
    BY <1>2 DEF FlagsSaved
  <2>1. CASE d = 0
    BY <1>1, <2>1 DEF FlagsFit
  <2>2. CASE d # 0
    BY <2>2 DEF LocksInv, FlagsSaved, Outer, Main
  <2> QED
    BY <2>1, <2>2
<1>7. ContextsStack'
  <2>1. ~ IsDisabled(Main)'
    BY <1>1, <1>2, EmptyHolds DEF IsDisabled, Disabled, Main
  <2> QED
    BY <1>1, <1>2, <2>1 DEF LocksInv, ContextsStack
<1> QED
  BY <1>3, <1>4, <1>5, <1>6, <1>7 DEF LocksInv

LEMMA LockIrqsaveKeeps ==
    ASSUME LocksInv, NEW c \in Contexts, NEW l \in AllLocks, LockIrqsave(c, l)
    PROVE  LocksInv'
<1>1. /\ depth = c /\ pc[c] = "idle" /\ l \in SpinLocks /\ l \notin Holds(c) /\ Begin(c)
      /\ target' = [target EXCEPT ![c] = l]
      /\ eflags' = [eflags EXCEPT ![c] = GetEflags]
      /\ pc' = [pc EXCEPT ![c] = "cli"]
      /\ UNCHANGED <<lock, interrupt_mask, iflag, depth, held, wanted>>
  BY DEF LockIrqsave, Runs, CanTake, Goto
<1>2. /\ iflag = Flag(held[c], Outer(c)) /\ iflag \in {0, 1}
      /\ iflag = IF c # Main \/ InSpin(held[c]) THEN 0 ELSE wanted
  BY <1>1, FlagOutside
<1>3. GetEflags = 2 + 512 * iflag /\ GetEflags \in {2, 514}
  BY <1>2, BitOfFlags DEF GetEflags
<1>4. TypeOK'
  <2>1. work' \in [Contexts -> 0..HandlerWork]
    BY <1>1, BeginTypes DEF LocksInv, TypeOK
  <2>2. eflags' \in [Contexts -> {0, 2, 514}]
    BY <1>1, <1>3 DEF LocksInv, TypeOK
  <2>3. target' \in [Contexts -> AllLocks \cup {NoLock}]
    BY <1>1 DEF LocksInv, TypeOK
  <2> QED
    BY <1>1, <2>1, <2>2, <2>3 DEF LocksInv, TypeOK
<1>5. WordsTellHolders'
  BY <1>1, WordsStay DEF LocksInv
<1>6. /\ pc'[c] = "cli" /\ target'[c] = l /\ eflags'[c] = GetEflags /\ held'[c] = held[c]
      /\ OthersStay(c)
  BY <1>1 DEF LocksInv, TypeOK, OthersStay
<1>7. Fits("cli", l, held[c])
  BY <1>1 DEF Fits, Holds
<1>8. iflag = IF c # Main \/ Disabled("cli", l, held[c]) THEN 0 ELSE wanted
  BY <1>2 DEF Disabled
<1>9. FlagsFit("cli", l, GetEflags, held[c], Outer(c), interrupt_mask)
  <2>1. FlagsFit("idle", target[c], eflags[c], held[c], Outer(c), interrupt_mask)
    BY <1>1 DEF LocksInv, FlagsSaved
  <2> QED
    BY <1>2, <1>3, <2>1 DEF FlagsFit
<1> QED
  BY <1>1, <1>4, <1>5, <1>6, <1>7, <1>8, <1>9, ContextStep

LEMMA DisableInterruptsKeeps ==
    ASSUME LocksInv, NEW c \in Contexts, DisableInterrupts(c)
    PROVE  LocksInv'
<1>1. /\ depth = c /\ pc[c] = "cli" /\ iflag' = 0 /\ pc' = [pc EXCEPT ![c] = "mask"]
      /\ UNCHANGED <<lock, interrupt_mask, depth, target, eflags, held, wanted, work>>
  BY DEF DisableInterrupts, Runs, Goto
<1>2. TypeOK'
  BY <1>1 DEF LocksInv, TypeOK
<1>3. WordsTellHolders'
  BY <1>1, WordsStay DEF LocksInv
<1>4. /\ pc'[c] = "mask" /\ target'[c] = target[c] /\ eflags'[c] = eflags[c]
      /\ held'[c] = held[c] /\ OthersStay(c)
  BY <1>1 DEF LocksInv, TypeOK, OthersStay
<1>5. Fits("cli", target[c], held[c])
  BY <1>1 DEF LocksInv, TargetsFit
<1>6. Fits("mask", target[c], held[c])
  BY <1>5 DEF Fits
<1>7. FlagsFit("cli", target[c], eflags[c], held[c], Outer(c), interrupt_mask)
  BY <1>1 DEF LocksInv, FlagsSaved
<1>8. FlagsFit("mask", target[c], eflags[c], held[c], Outer(c), interrupt_mask)
  BY <1>7 DEF FlagsFit
<1>9. Disabled("mask", target[c], held[c])
  BY DEF Disabled
<1> QED
  BY <1>1, <1>2, <1>3, <1>4, <1>6, <1>8, <1>9, ContextStep

LEMMA OuterIsBit ==
    ASSUME LocksInv, NEW c
    PROVE  Outer(c) \in {0, 1} /\ \A h : Flag(h, Outer(c)) \in {0, 1}
  BY DEF LocksInv, TypeOK, Outer, Flag

LEMMA SaveMaskKeeps ==
    ASSUME LocksInv, NEW c \in Contexts, SaveMask(c)
    PROVE  LocksInv'
<1> DEFINE t == target[c]
<1>1. /\ depth = c /\ pc[c] = "mask" /\ pc' = [pc EXCEPT ![c] = "xchg"]
      /\ interrupt_mask' = [interrupt_mask EXCEPT ![t] = IfBit(eflags[c])]
      /\ UNCHANGED <<lock, iflag, depth, target, eflags, held, wanted, work>>
  BY DEF SaveMask, Runs, Goto
<1>2. Fits("mask", t, held[c])
  BY <1>1 DEF LocksInv, TargetsFit
<1>3. t \in SpinLocks /\ t \in AllLocks /\ t \notin ToSet(held[c])
  BY <1>2 DEF Fits, AllLocks
<1>4. FlagsFit("mask", t, eflags[c], held[c], Outer(c), interrupt_mask)
  BY <1>1 DEF LocksInv, FlagsSaved
<1>5. IfBit(eflags[c]) = 512 * Flag(held[c], Outer(c))
  BY <1>4, OuterIsBit, BitOfFlags DEF FlagsFit
<1>6. /\ interrupt_mask'[t] = 512 * Flag(held[c], Outer(c))
      /\ \A l \in SpinLocks \ {t} : interrupt_mask'[l] = interrupt_mask[l]
  BY <1>1, <1>3, <1>5 DEF LocksInv, TypeOK
<1>7. TypeOK'
  <2>1. IfBit(eflags[c]) \in {0, 512}
    <3>1. eflags[c] \in {0, 2, 514}
      BY DEF LocksInv, TypeOK
    <3> QED
      BY <3>1, BitOfFlags
  <2>2. interrupt_mask' \in [SpinLocks -> {0, 512}]
    BY <1>1, <2>1 DEF LocksInv, TypeOK
  <2> QED
    BY <1>1, <2>2 DEF LocksInv, TypeOK
<1>8. WordsTellHolders'
  BY <1>1, WordsStay DEF LocksInv
<1>9. /\ pc'[c] = "xchg" /\ target'[c] = t /\ eflags'[c] = eflags[c]
      /\ held'[c] = held[c] /\ OthersStay(c)
  BY <1>1 DEF LocksInv, TypeOK, OthersStay
<1>10. Fits("xchg", t, held[c])
  BY <1>3 DEF Fits
<1>11. iflag' = 0 /\ Disabled("xchg", t, held[c])
  <2>1. IsDisabled(Main) \/ c # Main
    BY <1>1 DEF IsDisabled, Disabled
  <2> QED
    BY <1>1, <1>3, <2>1, Numbers DEF LocksInv, ContextsStack, Disabled, Main
<1>12. FlagsFit("xchg", t, eflags[c], held[c], Outer(c), interrupt_mask')
  <2>1. \A i \in 1..Len(held[c]) : held[c][i] # t
    BY <1>3, SetOfSequence DEF LocksInv, TypeOK
  <2> QED
    BY <1>4, <1>6, <2>1 DEF FlagsFit
<1> QED
  BY <1>1, <1>7, <1>8, <1>9, <1>10, <1>11, <1>12, ContextStep

LEMMA StartToWaitKeeps ==
    ASSUME LocksInv, NEW c \in Contexts, NEW l \in PlainLocks \cup YieldLocks, StartToWait(c, l)
    PROVE  LocksInv'
<1>1. /\ depth = c /\ pc[c] = "idle" /\ l \notin Holds(c) /\ Begin(c)
      /\ target' = [target EXCEPT ![c] = l]
      /\ pc' = [pc EXCEPT ![c] = "xchg"]
      /\ UNCHANGED <<lock, interrupt_mask, iflag, depth, eflags, held, wanted>>
  BY DEF StartToWait, Runs, CanTake, Goto
<1>2. l \in AllLocks /\ l \notin SpinLocks
  BY LockAssumption DEF AllLocks
<1>3. TypeOK'
  <2>1. work' \in [Contexts -> 0..HandlerWork]
    BY <1>1, BeginTypes DEF LocksInv, TypeOK
  <2>2. target' \in [Contexts -> AllLocks \cup {NoLock}]
    BY <1>1, <1>2 DEF LocksInv, TypeOK
  <2> QED
    BY <1>1, <2>1, <2>2 DEF LocksInv, TypeOK
<1>4. WordsTellHolders'
  BY <1>1, WordsStay DEF LocksInv
<1>5. /\ pc'[c] = "xchg" /\ target'[c] = l /\ eflags'[c] = eflags[c]
      /\ held'[c] = held[c] /\ OthersStay(c)
  BY <1>1 DEF LocksInv, TypeOK, OthersStay
<1>6. Fits("xchg", l, held[c])
  BY <1>1, <1>2 DEF Fits, Holds
<1>7. iflag = IF c # Main \/ Disabled("xchg", l, held[c]) THEN 0 ELSE wanted
  BY <1>1, <1>2, FlagOutside DEF Disabled
<1>8. FlagsFit("xchg", l, eflags[c], held[c], Outer(c), interrupt_mask)
  <2>1. FlagsFit("idle", target[c], eflags[c], held[c], Outer(c), interrupt_mask)
    BY <1>1 DEF LocksInv, FlagsSaved
  <2> QED
    BY <1>2, <2>1 DEF FlagsFit
<1> QED
  BY <1>1, <1>3, <1>4, <1>5, <1>6, <1>7, <1>8, ContextStep

LEMMA IrqrestoreKeeps ==
    ASSUME LocksInv, NEW c \in Contexts, Irqrestore(c)
    PROVE  LocksInv'
<1> DEFINE t == target[c]
<1>1. /\ depth = c /\ pc[c] = "restore" /\ iflag' = RestoredFlag(t)
      /\ pc' = [pc EXCEPT ![c] = "idle"] /\ target' = [target EXCEPT ![c] = NoLock]
      /\ eflags' = [eflags EXCEPT ![c] = 0]
      /\ UNCHANGED <<lock, interrupt_mask, depth, held, wanted, work>>
  BY DEF Irqrestore, Runs, Goto, ResetTarget
<1>2. FlagsFit("restore", t, eflags[c], held[c], Outer(c), interrupt_mask)
  BY <1>1 DEF LocksInv, FlagsSaved
<1>3. Fits("restore", t, held[c])
  BY <1>1 DEF LocksInv, TargetsFit
<1>4. interrupt_mask[t] = 512 * Flag(held[c], Outer(c))
  BY <1>2, <1>3 DEF FlagsFit, Fits
<1>5. iflag = 0
  <2>1. IsDisabled(Main) \/ c # Main
    BY <1>1 DEF IsDisabled, Disabled
  <2> QED
    BY <1>1, <2>1, Numbers DEF LocksInv, ContextsStack, Main
<1>6. iflag' = Flag(held[c], Outer(c))
  BY <1>1, <1>4, <1>5, OuterIsBit DEF RestoredFlag
<1>7. TypeOK'
  BY <1>1, <1>6, OuterIsBit DEF LocksInv, TypeOK
<1>8. WordsTellHolders'
  BY <1>1, WordsStay DEF LocksInv
<1>9. /\ pc'[c] = "idle" /\ target'[c] = NoLock /\ eflags'[c] = 0
      /\ held'[c] = held[c] /\ OthersStay(c)
  BY <1>1 DEF LocksInv, TypeOK, OthersStay
<1>10. Fits("idle", NoLock, held[c])
  BY DEF Fits
<1>11. iflag' = IF c # Main \/ Disabled("idle", NoLock, held[c]) THEN 0 ELSE wanted
  BY <1>6 DEF Disabled, Flag, Outer
<1>12. FlagsFit("idle", NoLock, 0, held[c], Outer(c), interrupt_mask')
  BY <1>1, <1>2 DEF FlagsFit
<1> QED
  BY <1>1, <1>7, <1>8, <1>9, <1>10, <1>11, <1>12, ContextStep

----------------------------------------------------------------------------
(* Taking a lock *)

Takes(c, l) ==
    /\ lock[l] = LOCKED_NO
    /\ lock' = [lock EXCEPT ![l] = LOCKED_YES]
    /\ held' = [held EXCEPT ![c] = Append(@, l)]

LEMMA HeldIsSequence ==
    ASSUME LocksInv, NEW c \in Contexts
    PROVE  /\ held[c] \in Seq(AllLocks) /\ Len(held[c]) \in Nat
           /\ \A i, j \in 1..Len(held[c]) : held[c][i] = held[c][j] => i = j
  BY LenProperties DEF LocksInv, TypeOK, WordsTellHolders

(* What a context has when it took a lock that was free. *)
LEMMA HeldAfterTaking ==
    ASSUME LocksInv, NEW c \in Contexts, NEW l \in AllLocks, Takes(c, l)
    PROVE  /\ held'[c] = Append(held[c], l) /\ held'[c] \in Seq(AllLocks)
           /\ \A d \in Contexts \ {c} : held'[d] = held[d]
           /\ Len(held'[c]) = Len(held[c]) + 1
           /\ \A i \in 1..Len(held[c]) : held'[c][i] = held[c][i]
           /\ held'[c][Len(held[c]) + 1] = l
           /\ ToSet(held'[c]) = ToSet(held[c]) \cup {l}
           /\ \A d \in Contexts : l \notin Holds(d)
<1>1. held'[c] = Append(held[c], l) /\ \A d \in Contexts \ {c} : held'[d] = held[d]
  BY DEF Takes, LocksInv, TypeOK
<1>2. \A d \in Contexts : l \notin Holds(d)
  BY Numbers DEF Takes, LocksInv, WordsTellHolders
<1> QED
  BY <1>1, <1>2, HeldIsSequence, AppendProperties, SetOfAppend

LEMMA TypesAfterTaking ==
    ASSUME LocksInv, NEW c \in Contexts, NEW l \in AllLocks, Takes(c, l)
    PROVE  /\ lock' \in [AllLocks -> {LOCKED_NO, LOCKED_YES}]
           /\ held' \in [Contexts -> Seq(AllLocks)]
<1>1. Append(held[c], l) \in Seq(AllLocks)
  BY HeldAfterTaking
<1> QED
  BY <1>1, ExceptType DEF Takes, LocksInv, TypeOK

LEMMA WordsAfterTaking ==
    ASSUME LocksInv, NEW c \in Contexts, NEW l \in AllLocks, Takes(c, l)
    PROVE  WordsTellHolders'
<1>1. /\ Holds(c)' = Holds(c) \cup {l} /\ \A d \in Contexts \ {c} : Holds(d)' = Holds(d)
      /\ \A d \in Contexts : l \notin Holds(d)
  BY HeldAfterTaking DEF Holds
<1>2. lock'[l] = LOCKED_YES /\ \A k \in AllLocks \ {l} : lock'[k] = lock[k]
  BY DEF Takes, LocksInv, TypeOK
<1>3. \A k \in AllLocks : lock'[k] = LOCKED_YES <=> \E d \in Contexts : k \in Holds(d)'
  BY <1>1, <1>2 DEF LocksInv, WordsTellHolders
<1>4. \A d, e \in Contexts : d # e => Holds(d)' \cap Holds(e)' = {}
  BY <1>1 DEF LocksInv, WordsTellHolders
<1>5. ASSUME NEW d \in Contexts, NEW i \in 1..Len(held'[d]), NEW j \in 1..Len(held'[d]),
             held'[d][i] = held'[d][j]
      PROVE  i = j
  <2>1. CASE d # c
    BY <1>5, <2>1, HeldAfterTaking DEF LocksInv, WordsTellHolders
  <2>2. CASE d = c
    <3>1. \A n \in 1..Len(held[c]) : held[c][n] # l
      BY <1>1, HeldIsSequence, SetOfSequence DEF Holds
    <3> QED
      BY <1>5, <2>2, <3>1, HeldAfterTaking, HeldIsSequence
  <2> QED
    BY <2>1, <2>2
<1> QED
  BY <1>3, <1>4, <1>5 DEF WordsTellHolders

(* The copies of the flag, when the lock that was waited for is taken. *)
LEMMA FlagsAfterTaking ==
    ASSUME LocksInv, NEW c \in Contexts, NEW l \in AllLocks, Takes(c, l), NEW t, NEW e,
           l \in SpinLocks => interrupt_mask[l] = 512 * Flag(held[c], Outer(c))
    PROVE  FlagsFit("idle", t, e, held'[c], Outer(c), interrupt_mask)
<1>1. FlagsFit(pc[c], target[c], eflags[c], held[c], Outer(c), interrupt_mask)
  BY DEF LocksInv, FlagsSaved
<1> SUFFICES ASSUME NEW i \in 1..Len(held'[c]), held'[c][i] \in SpinLocks
             PROVE  interrupt_mask[held'[c][i]] =
                      IF \E j \in 1..(i - 1) : held'[c][j] \in SpinLocks
                      THEN 0 ELSE 512 * Outer(c)
  BY DEF FlagsFit
<1>2. Len(held[c]) \in Nat
  BY HeldIsSequence
<1>3. CASE i \in 1..Len(held[c])
  <2>1. \A j \in 1..i : held'[c][j] = held[c][j]
    BY <1>2, <1>3, HeldAfterTaking
  <2> QED
    BY <1>1, <1>2, <1>3, <2>1 DEF FlagsFit
<1>4. CASE i = Len(held[c]) + 1
  <2>1. \A j \in 1..(i - 1) : held'[c][j] = held[c][j]
    BY <1>2, <1>4, HeldAfterTaking
  <2>2. held'[c][i] = l
    BY <1>4, HeldAfterTaking
  <2>3. InSpin(held[c]) <=> \E j \in 1..(i - 1) : held[c][j] \in SpinLocks
    BY <1>2, <1>4, HeldIsSequence, SetOfSequence DEF InSpin
  <2> QED
    BY <2>1, <2>2, <2>3 DEF Flag
<1> QED
  BY <1>2, <1>3, <1>4, HeldAfterTaking

LEMMA AlreadyTaken ==
    ASSUME LocksInv, NEW l \in AllLocks, lock[l] # LOCKED_NO, lock' = Exchanged(l)
    PROVE  lock' = lock
<1>1. lock[l] = LOCKED_YES
  BY DEF LocksInv, TypeOK
<1> QED
  BY <1>1 DEF Exchanged, LocksInv, TypeOK

LEMMA ExchangeKeeps ==
    ASSUME LocksInv, NEW c \in Contexts, Exchange(c)
    PROVE  LocksInv'
<1> DEFINE t == target[c]
<1>1. /\ depth = c /\ pc[c] = "xchg" /\ lock' = Exchanged(t)
      /\ UNCHANGED <<interrupt_mask, iflag, depth, eflags, wanted, work>>
  BY DEF Exchange, Runs
<1>2. t \in AllLocks
  BY <1>1 DEF LocksInv, TargetsFit, Fits
<1>3. CASE lock[t] # LOCKED_NO
  <2>1. UNCHANGED vars
    BY <1>1, <1>2, <1>3, AlreadyTaken DEF Exchange, vars
  <2> QED
    BY <2>1 DEF vars, LocksInv, TypeOK, WordsTellHolders, Holds, TargetsFit, ContextsStack,
                IsDisabled, FlagsSaved, Outer
<1>4. CASE lock[t] = LOCKED_NO
  <2>1. /\ Takes(c, t) /\ pc' = [pc EXCEPT ![c] = "idle"]
        /\ target' = [target EXCEPT ![c] = NoLock]
    BY <1>1, <1>4 DEF Exchange, Takes, Exchanged, Goto, ResetTarget
  <2>2. TypeOK'
    BY <1>1, <1>2, <2>1, TypesAfterTaking DEF LocksInv, TypeOK
  <2>3. WordsTellHolders'
    BY <1>2, <2>1, WordsAfterTaking
  <2>4. /\ pc'[c] = "idle" /\ target'[c] = NoLock /\ OthersStay(c)
    BY <1>1, <1>2, <2>1, HeldAfterTaking DEF LocksInv, TypeOK, OthersStay
  <2>5. Fits("idle", NoLock, held'[c])
    BY DEF Fits
  <2>6. iflag = IF c # Main \/ Disabled("idle", NoLock, held'[c]) THEN 0 ELSE wanted
    <3>1. Disabled("xchg", t, held[c]) <=> Disabled("idle", NoLock, held'[c])
      BY SMTT(30), <1>2, <2>1, HeldAfterTaking DEF Disabled, InSpin
    <3> QED
      BY <1>1, <3>1, FlagOfRunning DEF IsDisabled
  <2>7. FlagsFit("idle", NoLock, eflags'[c], held'[c], Outer(c), interrupt_mask)
    <3>1. t \in SpinLocks => interrupt_mask[t] = 512 * Flag(held[c], Outer(c))
      BY <1>1 DEF LocksInv, FlagsSaved, FlagsFit
    <3> QED
      BY <1>2, <2>1, <3>1, FlagsAfterTaking
  <2> QED
    BY <1>1, <2>2, <2>3, <2>4, <2>5, <2>6, <2>7, ContextStep
<1> QED
  BY <1>3, <1>4

LEMMA TryLockKeeps ==
    ASSUME LocksInv, NEW c \in Contexts, NEW l \in YieldLocks, TryLock(c, l)
    PROVE  LocksInv'
<1>1. /\ depth = c /\ pc[c] = "idle" /\ lock' = Exchanged(l) /\ Begin(c)
      /\ UNCHANGED <<interrupt_mask, iflag, depth, pc, target, eflags, wanted>>
  BY DEF TryLock, Runs
<1>2. l \in AllLocks /\ l \notin SpinLocks
  BY LockAssumption DEF AllLocks
<1>3. work' \in [Contexts -> 0..HandlerWork]
  BY <1>1, BeginTypes DEF LocksInv, TypeOK
<1>4. FlagsFit("idle", target[c], eflags[c], held[c], Outer(c), interrupt_mask)
  BY <1>1 DEF LocksInv, FlagsSaved
<1>5. CASE lock[l] # LOCKED_NO
  <2>1. lock' = lock /\ held' = held
    BY <1>1, <1>2, <1>5, AlreadyTaken DEF TryLock, TakenByTrying
  <2>2. TypeOK'
    BY <1>1, <1>3, <2>1 DEF LocksInv, TypeOK
  <2>3. WordsTellHolders' /\ OthersStay(c)
    BY <1>1, <2>1, WordsStay DEF LocksInv, OthersStay
  <2>4. Fits("idle", target[c], held[c])
    BY DEF Fits
  <2>5. iflag = IF c # Main \/ Disabled("idle", target[c], held[c]) THEN 0 ELSE wanted
    BY <1>1, FlagOfRunning DEF IsDisabled
  <2> QED
    BY <1>1, <1>4, <2>1, <2>2, <2>3, <2>4, <2>5, ContextStep
<1>6. CASE lock[l] = LOCKED_NO
  <2>1. Takes(c, l)
    BY <1>1, <1>6 DEF TryLock, TakenByTrying, Takes, Exchanged
  <2>2. TypeOK'
    BY <1>1, <1>2, <1>3, <2>1, TypesAfterTaking DEF LocksInv, TypeOK
  <2>3. WordsTellHolders' /\ OthersStay(c)
    BY <1>1, <1>2, <2>1, WordsAfterTaking, HeldAfterTaking DEF OthersStay
  <2>4. Fits("idle", target[c], held'[c])
    BY DEF Fits
  <2>5. iflag = IF c # Main \/ Disabled("idle", target[c], held'[c]) THEN 0 ELSE wanted
    <3>1. Disabled("idle", target[c], held[c]) <=> Disabled("idle", target[c], held'[c])
      BY SMTT(30), <1>2, <2>1, HeldAfterTaking DEF Disabled, InSpin
    <3> QED
      BY <1>1, <3>1, FlagOfRunning DEF IsDisabled
  <2>6. FlagsFit("idle", target[c], eflags[c], held'[c], Outer(c), interrupt_mask)
    BY <1>2, <2>1, FlagsAfterTaking
  <2> QED
    BY <1>1, <2>2, <2>3, <2>4, <2>5, <2>6, ContextStep
<1> QED
  BY <1>5, <1>6

----------------------------------------------------------------------------
(* Giving a lock back *)

Gives(c, l) ==
    /\ held[c] # << >> /\ l = Last(held[c])
    /\ lock' = [lock EXCEPT ![l] = LOCKED_NO]
    /\ held' = [held EXCEPT ![c] = Front(@)]

LEMMA HeldAfterGiving ==
    ASSUME LocksInv, NEW c \in Contexts, NEW l, Gives(c, l)
    PROVE  /\ l \in AllLocks /\ l \in Holds(c) /\ l = held[c][Len(held[c])]
           /\ held'[c] = Front(held[c]) /\ held'[c] \in Seq(AllLocks)
           /\ \A d \in Contexts \ {c} : held'[d] = held[d]
           /\ Len(held'[c]) = Len(held[c]) - 1 /\ Len(held[c]) \in Nat \ {0}
           /\ \A i \in 1..Len(held'[c]) : held'[c][i] = held[c][i]
           /\ ToSet(held'[c]) = ToSet(held[c]) \ {l}
<1>1. held'[c] = Front(held[c]) /\ \A d \in Contexts \ {c} : held'[d] = held[d]
  BY DEF Gives, LocksInv, TypeOK
<1>2. held[c] \in Seq(AllLocks) /\ held[c] # << >> /\ l = Last(held[c])
  BY DEF Gives, LocksInv, TypeOK
<1>3. Len(held[c]) \in Nat \ {0}
  BY <1>2, EmptySeq
<1> QED
  BY <1>1, <1>2, <1>3, HeldIsSequence, SetOfFront DEF Holds

LEMMA TypesAfterGiving ==
    ASSUME LocksInv, NEW c \in Contexts, NEW l, Gives(c, l)
    PROVE  /\ lock' \in [AllLocks -> {LOCKED_NO, LOCKED_YES}]
           /\ held' \in [Contexts -> Seq(AllLocks)]
<1>1. Front(held[c]) \in Seq(AllLocks)
  BY HeldAfterGiving
<1> QED
  BY <1>1, ExceptType DEF Gives, LocksInv, TypeOK

LEMMA WordsAfterGiving ==
    ASSUME LocksInv, NEW c \in Contexts, NEW l, Gives(c, l)
    PROVE  WordsTellHolders'
<1>1. /\ Holds(c)' = Holds(c) \ {l} /\ \A d \in Contexts \ {c} : Holds(d)' = Holds(d)
      /\ l \in Holds(c) /\ l \in AllLocks
  BY HeldAfterGiving DEF Holds
<1>2. lock'[l] = LOCKED_NO /\ \A k \in AllLocks \ {l} : lock'[k] = lock[k]
  BY <1>1 DEF Gives, LocksInv, TypeOK
<1>3. \A d \in Contexts \ {c} : l \notin Holds(d)
  BY <1>1 DEF LocksInv, WordsTellHolders
<1>4. \A k \in AllLocks : lock'[k] = LOCKED_YES <=> \E d \in Contexts : k \in Holds(d)'
  BY <1>1, <1>2, <1>3, Numbers DEF LocksInv, WordsTellHolders
<1>5. \A d, e \in Contexts : d # e => Holds(d)' \cap Holds(e)' = {}
  BY <1>1 DEF LocksInv, WordsTellHolders
<1>6. ASSUME NEW d \in Contexts, NEW i \in 1..Len(held'[d]), NEW j \in 1..Len(held'[d]),
             held'[d][i] = held'[d][j]
      PROVE  i = j
  <2>1. CASE d # c
    BY <1>6, <2>1, HeldAfterGiving DEF LocksInv, WordsTellHolders
  <2>2. CASE d = c
    BY <1>6, <2>2, HeldAfterGiving, HeldIsSequence
  <2> QED
    BY <2>1, <2>2
<1> QED
  BY <1>4, <1>5, <1>6 DEF WordsTellHolders

LEMMA FlagsAfterGiving ==
    ASSUME LocksInv, NEW c \in Contexts, NEW l, Gives(c, l), NEW e, NEW p, NEW t,
           p = "idle" \/ (p = "restore" /\ t = l /\ l \in SpinLocks)
    PROVE  FlagsFit(p, t, e, held'[c], Outer(c), interrupt_mask)
<1>1. FlagsFit(pc[c], target[c], eflags[c], held[c], Outer(c), interrupt_mask)
  BY DEF LocksInv, FlagsSaved
<1> DEFINE n == Len(held[c])
<1>2. n \in Nat \ {0} /\ held[c][n] = l /\ Len(held'[c]) = n - 1
  BY HeldAfterGiving
<1>3. \A i \in 1..(n - 1) : held'[c][i] = held[c][i]
  BY <1>2, HeldAfterGiving
<1>4. ASSUME NEW i \in 1..Len(held'[c]), held'[c][i] \in SpinLocks
      PROVE  interrupt_mask[held'[c][i]] =
               IF \E j \in 1..(i - 1) : held'[c][j] \in SpinLocks THEN 0 ELSE 512 * Outer(c)
  <2>1. i \in 1..n /\ \A j \in 1..i : held'[c][j] = held[c][j]
    BY <1>2, <1>3
  <2> QED
    BY <1>1, <1>2, <1>4, <2>1 DEF FlagsFit
<1>5. l \in SpinLocks => interrupt_mask[l] = 512 * Flag(held'[c], Outer(c))
  <2>1. InSpin(held'[c]) <=> \E j \in 1..(n - 1) : held'[c][j] \in SpinLocks
    BY <1>2, HeldAfterGiving, SetOfSequence DEF InSpin
  <2>2. n \in 1..n
    BY <1>2
  <2> QED
    BY SMTT(30), <1>1, <1>2, <1>3, <2>1, <2>2 DEF FlagsFit, Flag
<1> QED
  BY <1>4, <1>5 DEF FlagsFit

LEMMA PlainUnlockKeeps ==
    ASSUME LocksInv, NEW c \in Contexts, SpinlockUnlock(c) \/ YieldlockUnlock(c)
    PROVE  LocksInv'
<1> DEFINE l == Last(held[c])
<1>1. /\ depth = c /\ pc[c] = "idle" /\ l \in PlainLocks \cup YieldLocks
      /\ pc' = [pc EXCEPT ![c] = "idle"] /\ target' = [target EXCEPT ![c] = NoLock]
      /\ UNCHANGED <<interrupt_mask, iflag, depth, eflags, wanted, work>>
  BY DEF SpinlockUnlock, YieldlockUnlock, GiveBack, HoldsLast, Runs, Goto, ResetTarget
<1>2. Gives(c, l)
  BY DEF SpinlockUnlock, YieldlockUnlock, GiveBack, HoldsLast, Gives
<1>3. l \notin SpinLocks
  BY <1>1, LockAssumption
<1> HIDE DEF l
<1>4. TypeOK'
  BY <1>1, <1>2, TypesAfterGiving DEF LocksInv, TypeOK
<1>5. WordsTellHolders'
  BY <1>2, WordsAfterGiving
<1>6. pc'[c] = "idle" /\ target'[c] = NoLock /\ OthersStay(c)
  BY <1>1, <1>2, HeldAfterGiving DEF LocksInv, TypeOK, OthersStay
<1>7. Fits("idle", NoLock, held'[c])
  BY DEF Fits
<1>8. iflag = IF c # Main \/ Disabled("idle", NoLock, held'[c]) THEN 0 ELSE wanted
  <2>1. Disabled("idle", target[c], held[c]) <=> Disabled("idle", NoLock, held'[c])
    BY <1>2, <1>3, HeldAfterGiving DEF Disabled, InSpin
  <2> QED
    BY <1>1, <2>1, FlagOfRunning DEF IsDisabled
<1>9. FlagsFit("idle", NoLock, eflags'[c], held'[c], Outer(c), interrupt_mask)
  BY <1>2, FlagsAfterGiving
<1> QED
  BY <1>1, <1>4, <1>5, <1>6, <1>7, <1>8, <1>9, ContextStep

LEMMA UnlockIrqrestoreKeeps ==
    ASSUME LocksInv, NEW c \in Contexts, UnlockIrqrestore(c)
    PROVE  LocksInv'
<1> DEFINE l == Last(held[c])
<1>1. /\ depth = c /\ pc[c] = "idle" /\ l \in SpinLocks
      /\ pc' = [pc EXCEPT ![c] = "restore"] /\ target' = [target EXCEPT ![c] = l]
      /\ UNCHANGED <<interrupt_mask, iflag, depth, eflags, wanted, work>>
  BY DEF UnlockIrqrestore, GiveBack, HoldsLast, Runs, Goto
<1>2. Gives(c, l)
  BY DEF UnlockIrqrestore, GiveBack, HoldsLast, Gives
<1> HIDE DEF l
<1>3. l \in AllLocks /\ l \in ToSet(held[c])
  BY <1>2, HeldAfterGiving DEF Holds
<1>4. TypeOK'
  <2>1. target' \in [Contexts -> AllLocks \cup {NoLock}]
    BY <1>1, <1>3 DEF LocksInv, TypeOK
  <2> QED
    BY <1>1, <1>2, <2>1, TypesAfterGiving DEF LocksInv, TypeOK
<1>5. WordsTellHolders'
  BY <1>2, WordsAfterGiving
<1>6. pc'[c] = "restore" /\ target'[c] = l /\ OthersStay(c)
  BY <1>1, <1>2, HeldAfterGiving DEF LocksInv, TypeOK, OthersStay
<1>7. Fits("restore", l, held'[c])
  BY <1>1, <1>2, HeldAfterGiving DEF Fits
<1>8. iflag = 0 /\ Disabled("restore", l, held'[c])
  <2>1. IsDisabled(c)
    BY <1>1, <1>3 DEF IsDisabled, Disabled, InSpin
  <2> QED
    BY <1>1, <2>1, FlagOfRunning DEF Disabled
<1>9. FlagsFit("restore", l, eflags'[c], held'[c], Outer(c), interrupt_mask)
  BY <1>1, <1>2, FlagsAfterGiving
<1> QED
  BY <1>1, <1>4, <1>5, <1>6, <1>7, <1>8, <1>9, ContextStep

----------------------------------------------------------------------------
(* The invariant *)

LEMMA InitLocks == Init => LocksInv
<1> SUFFICES ASSUME Init PROVE LocksInv
  OBVIOUS
<1>1. TypeOK
  BY Numbers, LockAssumption, EmptySeq DEF Init, TypeOK
<1>2. \A c \in Contexts : held[c] = << >> /\ Holds(c) = {} /\ pc[c] = "idle"
  BY EmptyHolds DEF Init, Holds
<1>3. WordsTellHolders
  BY <1>2, Numbers DEF Init, WordsTellHolders
<1>4. TargetsFit
  BY <1>2 DEF TargetsFit, Fits
<1>5. FlagsSaved
  BY <1>2 DEF FlagsSaved, FlagsFit
<1>6. ContextsStack
  BY <1>2, EmptyHolds, Numbers DEF Init, ContextsStack, IsDisabled, Disabled, Main
<1> QED
  BY <1>1, <1>3, <1>4, <1>5, <1>6 DEF LocksInv

LEMMA NextLocks ==
    ASSUME LocksInv, [Next]_vars
    PROVE  LocksInv'
<1>1. CASE Interrupt
  BY <1>1, InterruptKeeps
<1>2. CASE Iret
  BY <1>2, IretKeeps
<1>3. CASE \E flag \in {0, 1} : SetInterrupts(flag)
  BY <1>3, SetInterruptsKeeps
<1>4. ASSUME NEW c \in Contexts, NEW l \in AllLocks,
             LockIrqsave(c, l) \/ SpinlockLock(c, l) \/ YieldlockLock(c, l) \/ TryLock(c, l)
      PROVE  LocksInv'
  <2>1. CASE LockIrqsave(c, l)
    BY <2>1, LockIrqsaveKeeps
  <2>2. CASE SpinlockLock(c, l)
    BY <2>2, StartToWaitKeeps DEF SpinlockLock
  <2>3. CASE YieldlockLock(c, l)
    BY <2>3, StartToWaitKeeps DEF YieldlockLock
  <2>4. CASE TryLock(c, l)
    BY <2>4, TryLockKeeps DEF TryLock
  <2> QED
    BY <1>4, <2>1, <2>2, <2>3, <2>4
<1>5. ASSUME NEW c \in Contexts, Proceed(c) PROVE LocksInv'
  BY <1>5, DisableInterruptsKeeps, SaveMaskKeeps, ExchangeKeeps, IrqrestoreKeeps DEF Proceed
<1>6. ASSUME NEW c \in Contexts, Unlock(c) PROVE LocksInv'
  BY <1>6, PlainUnlockKeeps, UnlockIrqrestoreKeeps DEF Unlock
<1>7. CASE UNCHANGED vars
  BY <1>7 DEF vars, LocksInv, TypeOK, WordsTellHolders, Holds, TargetsFit, ContextsStack,
              IsDisabled, FlagsSaved, Outer
<1> QED
  BY <1>1, <1>2, <1>3, <1>4, <1>5, <1>6, <1>7 DEF Next

(* The locks' variables are always consistent: each lock word with its one *)
(* holder, each saved flag with what it must restore, the running context  *)
(* with what it interrupted.                                               *)
THEOREM LocksInvariant == Spec => []LocksInv
  BY InitLocks, NextLocks, PTL DEF Spec

(* The variables of the locks keep their types; of the flags register only *)
(* the interrupt flag gets into a mask.                                    *)
THEOREM LocksTypeCorrectness == Spec => []TypeOK
<1>1. LocksInv => TypeOK
  BY DEF LocksInv
<1> QED
  BY <1>1, LocksInvariant, PTL

(* "Who disables enables": when no call is under way the interrupt flag is *)
(* as the context left it outside of all spin locks, and 0 inside one, and *)
(* code that holds a spin lock of spinlock_lock_irqsave is not interrupted.*)
THEOREM FlagIsAlwaysRestored == Spec => []FlagRestored
<1>1. LocksInv => FlagRestored
  <2> SUFFICES ASSUME LocksInv PROVE FlagRestored
    OBVIOUS
  <2>1. pc[depth] = "idle" =>
          iflag = IF depth > Main \/ Holds(depth) \cap SpinLocks # {} THEN 0 ELSE wanted
    <3>1. depth > Main <=> depth # Main
      BY Numbers DEF LocksInv, ContextsStack, Main
    <3> QED
      BY <3>1, FlagOutside DEF InSpin, Holds
  <2>2. \A c \in Contexts : c < depth => Holds(c) \cap SpinLocks = {}
    BY OthersAreEnabled, Numbers DEF IsDisabled, Disabled, InSpin, Holds, LocksInv, ContextsStack
  <2> QED
    BY <2>1, <2>2 DEF FlagRestored
<1> QED
  BY <1>1, LocksInvariant, PTL

(* Interrupt handlers never run on top of each other: nothing in a handler *)
(* that uses the locks ever sets the interrupt flag.                       *)
THEOREM HandlersNeverNest == Spec => [](depth <= 1 /\ (depth > Main => iflag = 0))
<1>1. LocksInv => depth <= 1 /\ (depth > Main => iflag = 0)
  BY DEF LocksInv, ContextsStack, Main
<1> QED
  BY <1>1, LocksInvariant, PTL

----------------------------------------------------------------------------
(* The lock words implement locks *)

Holders == [l \in AllLocks |-> {c \in Contexts : l \in Holds(c)}]

LEMMA HoldersStay ==
    ASSUME UNCHANGED held
    PROVE  Holders' = Holders
  BY DEF Holders, Holds

LEMMA TakingAcquires ==
    ASSUME LocksInv, NEW c \in Contexts, NEW l \in AllLocks, Takes(c, l)
    PROVE  Holders[l] = {} /\ Holders' = [Holders EXCEPT ![l] = {c}]
<1>1. /\ Holds(c)' = Holds(c) \cup {l} /\ \A d \in Contexts \ {c} : Holds(d)' = Holds(d)
      /\ \A d \in Contexts : l \notin Holds(d)
  BY HeldAfterTaking DEF Holds
<1>2. Holders[l] = {}
  BY <1>1 DEF Holders
<1>3. \A k \in AllLocks : {d \in Contexts : k \in Holds(d)'} =
                           IF k = l THEN {c} ELSE {d \in Contexts : k \in Holds(d)}
  BY <1>1
<1> QED
  BY <1>2, <1>3 DEF Holders

LEMMA GivingReleases ==
    ASSUME LocksInv, NEW c \in Contexts, NEW l, Gives(c, l)
    PROVE  /\ l \in AllLocks /\ Holders[l] = {c}
           /\ Holders' = [Holders EXCEPT ![l] = {}]
<1>1. /\ Holds(c)' = Holds(c) \ {l} /\ \A d \in Contexts \ {c} : Holds(d)' = Holds(d)
      /\ l \in Holds(c) /\ l \in AllLocks
  BY HeldAfterGiving DEF Holds
<1>2. \A d \in Contexts \ {c} : l \notin Holds(d)
  BY <1>1 DEF LocksInv, WordsTellHolders
<1>3. Holders[l] = {c}
  BY <1>1, <1>2 DEF Holders
<1>4. \A k \in AllLocks : {d \in Contexts : k \in Holds(d)'} =
                           IF k = l THEN {} ELSE {d \in Contexts : k \in Holds(d)}
  BY <1>1, <1>2
<1> QED
  BY <1>1, <1>3, <1>4 DEF Holders

LEMMA StepKeepsPromise ==
    ASSUME LocksInv, [Next]_vars
    PROVE  \/ \E c \in Contexts, l \in AllLocks : \/ Takes(c, l) \/ Gives(c, l)
           \/ UNCHANGED held
<1>1. CASE Interrupt \/ Iret \/ (\E flag \in {0, 1} : SetInterrupts(flag)) \/ UNCHANGED vars
  BY <1>1 DEF Interrupt, Iret, SetInterrupts, vars
<1>2. ASSUME NEW c \in Contexts, NEW l \in AllLocks,
             LockIrqsave(c, l) \/ SpinlockLock(c, l) \/ YieldlockLock(c, l)
      PROVE  UNCHANGED held
  BY <1>2 DEF LockIrqsave, SpinlockLock, YieldlockLock, StartToWait
<1>3. ASSUME NEW c \in Contexts, NEW l \in AllLocks, TryLock(c, l)
      PROVE  Takes(c, l) \/ UNCHANGED held
  BY <1>3 DEF TryLock, TakenByTrying, Takes, Exchanged
<1>4. ASSUME NEW c \in Contexts, DisableInterrupts(c) \/ SaveMask(c) \/ Irqrestore(c)
      PROVE  UNCHANGED held
  BY <1>4 DEF DisableInterrupts, SaveMask, Irqrestore
<1>5. ASSUME NEW c \in Contexts, Exchange(c)
      PROVE  (target[c] \in AllLocks /\ Takes(c, target[c])) \/ UNCHANGED held
  <2>1. target[c] \in AllLocks
    BY <1>5 DEF Exchange, Runs, LocksInv, TargetsFit, Fits
  <2> QED
    BY <1>5, <2>1 DEF Exchange, Takes, Exchanged
<1>6. ASSUME NEW c \in Contexts, Unlock(c)
      PROVE  Last(held[c]) \in AllLocks /\ Gives(c, Last(held[c]))
  BY <1>6 DEF Unlock, SpinlockUnlock, YieldlockUnlock, UnlockIrqrestore, GiveBack, HoldsLast,
              Gives, AllLocks
<1> QED
  BY <1>1, <1>2, <1>3, <1>4, <1>5, <1>6 DEF Next, Proceed

(* Both kinds of lock are locks: a context comes in only while nobody is   *)
(* inside, and only who is inside lets the next one in, whatever comes     *)
(* between the accesses of spinlock.c and yieldlock.c.                     *)
THEOREM LocksImplementMutex == Spec => ImplementsMutex
<1>1. Init => Promise!Init
  BY EmptyHolds DEF Init, Promise!Init, Holds
<1>2. LocksInv /\ [Next]_vars => [Promise!Next]_Holders
  <2> SUFFICES ASSUME LocksInv, [Next]_vars PROVE Promise!Next \/ Holders' = Holders
    OBVIOUS
  <2>1. ASSUME NEW c \in Contexts, NEW l \in AllLocks, Takes(c, l) PROVE Promise!Next
    <3>1. Promise!Acquire(c, l)
      BY <2>1, TakingAcquires DEF Promise!Acquire, Holders
    <3> QED
      BY <3>1 DEF Promise!Next
  <2>2. ASSUME NEW c \in Contexts, NEW l \in AllLocks, Gives(c, l) PROVE Promise!Next
    <3>1. Promise!Release(c, l)
      BY <2>2, GivingReleases DEF Promise!Release, Holders
    <3> QED
      BY <3>1 DEF Promise!Next
  <2> QED
    BY <2>1, <2>2, StepKeepsPromise, HoldersStay
<1>3. LocksInv /\ [Next]_vars => [Promise!Next]_([l \in AllLocks |-> {c \in Contexts : l \in Holds(c)}])
  BY <1>2 DEF Holders
<1> SUFFICES Spec => Promise!Spec
  BY DEF ImplementsMutex
<1> QED
  BY <1>1, <1>3, LocksInvariant, PTL DEF Spec, Promise!Spec
=============================================================================
