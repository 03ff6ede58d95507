-------------------------- MODULE InterruptsProofs --------------------------
(***************************************************************************)
(* Whatever interrupts whatever, the stack stays made of whole frames, no  *)
(* line stays blocked and the controllers are as pic_init set them up: for *)
(* all devices, exceptions and masks of the firmware, and for any number   *)
(* of requests and non-maskable interrupts.                                *)
(*                                                                         *)
(* The heart of the invariant is the shape of the stack.  Every gate is an *)
(* interrupt gate, so a handler runs on top of main or, if it is that of   *)
(* an NMI, on top of one other handler; and what lies on the stack tells   *)
(* where main is, and with it how far the controllers are set up.          *)
(***************************************************************************)
EXTENDS Interrupts, SequenceTheorems, FiniteSetTheorems, TLAPS

HandlerPlaces == {"set_flag", "eoi_slave", "eoi_master", "call",
                  "panic", "clear_flag", "return"}

(* Where main is, now or to return to, and the place of its sti. *)
MainPc == Pc(IF stack = << >> THEN at ELSE stack[3][2])
Sti    == 13

(* The words that pic_init writes to the master are at 2, 4, ... of main,  *)
(* those to the slave one place later.                                     *)
SetUpChip(chip, old, base, pc) ==
    /\ pc \in 3..4 => chip.icw = 2
    /\ pc \in 5..6 => chip.icw = 3
    /\ pc \in 7..8 => chip.icw = 4
    /\ pc \notin 3..8 => chip.icw = 0
    /\ chip.imr = IF pc \in 3..10 THEN {} ELSE old
    /\ pc >= 5 => chip.base = base

SetUp(pc) ==
    /\ pc > 1 => masks = firmware
    /\ SetUpChip(pics["master"], firmware["master"], PIC1_VECTOR_OFFSET, pc)
    /\ SetUpChip(pics["slave"], firmware["slave"], PIC2_VECTOR_OFFSET, pc - 1)
    /\ idt_loaded <=> pc >= Sti

(* What is in service, while the handler of an interrupt is at a place: at *)
(* most one line of each chip, until its EOI.                              *)
NoService == pics["master"].isr = {} /\ pics["slave"].isr = {}

ServiceFits(vector, place) ==
    /\ \E l \in Lines : pics["master"].isr \subseteq {l}
    /\ \E l \in Lines : pics["slave"].isr \subseteq {l}
    /\ pics["slave"].isr # {} => vector >= 40 /\ place \in {"set_flag", "eoi_slave"}
    /\ pics["master"].isr # {} => place \in {"set_flag", "eoi_slave", "eoi_master"}

(* What an exception or an NMI leaves on the stack s above its first b     *)
(* words, and a device on the empty one.                                   *)
ExceptionFrame(s, b, vectors, flag, place) ==
    /\ s[b + 1] = <<"eflags", flag>> /\ s[b + 2] = <<"cs", 8>> /\ s[b + 3] = <<"eip", place>>
    /\ s[b + 4][1] = "err" /\ s[b + 6] = <<"regs", 0>>
    /\ s[b + 5][1] = "int_no" /\ s[b + 5][2] \in vectors

DeviceFrame(s, place) ==
    /\ s[1] = <<"eflags", TRUE>> /\ s[2] = <<"cs", 8>> /\ s[3] = <<"eip", place>>
    /\ s[4][1] = "int_no" /\ s[4][2] \in 32..47 /\ s[5] = <<"regs", 0>>

InMain ==
    /\ at = Main(MainPc) /\ stack = << >>
    /\ interrupts_enabled <=> MainPc > Sti
    /\ NoService

OnException ==
    /\ MainPc >= Sti
    /\ ExceptionFrame(stack, 0, Exceptions \cup {INT_NMI}, MainPc > Sti, Main(MainPc))
    /\ NoService

OnDevice(place) ==
    /\ MainPc > Sti
    /\ DeviceFrame(stack, Main(MainPc))
    /\ ServiceFits(stack[4][2], place)

(* A handler at a place, alone on top of main, or under that of an NMI. *)
Alone(place) ==
    \/ at = Isr(place) /\ Len(stack) = 6 /\ OnException
    \/ at = Irq(place) /\ Len(stack) = 5 /\ OnDevice(place)

UnderNmi(place) ==
    \/ /\ Len(stack) = 12 /\ OnException
       /\ ExceptionFrame(stack, 6, {INT_NMI}, FALSE, Isr(place))
    \/ /\ Len(stack) = 11 /\ OnDevice(place)
       /\ ExceptionFrame(stack, 5, {INT_NMI}, FALSE, Irq(place))

InHandler ==
    /\ ~ interrupts_enabled
    /\ \/ \E place \in HandlerPlaces : Alone(place)
       \/ \E place, top \in HandlerPlaces : UnderNmi(place) /\ at = Isr(top) /\ nmi_blocked

Chip == [irr : SUBSET Lines, isr : SUBSET Lines, imr : SUBSET Lines,
         base : 0..255, icw : {0, 2, 3, 4}]
Timer == [mode : {"bios", "bcd"}, low : 0..255, high : 0..255]

Typed ==
    /\ pics \in [Chips -> Chip] /\ Cascade \notin pics["master"].irr
    /\ pit \in Timer

InterruptsInv ==
    /\ TypeOK /\ Typed
    /\ MainPc \in 1..Loop /\ SetUp(MainPc)
    /\ NeverReset
    /\ InMain \/ InHandler

----------------------------------------------------------------------------
(* The code and the gates *)

(* Two sequences one after the other. *)
Joined(st, s, t, S) ==
    /\ st \in Seq(S) /\ Len(st) = Len(s) + Len(t)
    /\ \A i \in 1..(Len(s) + Len(t)) : st[i] = IF i <= Len(s) THEN s[i] ELSE t[i - Len(s)]

LEMMA Concatenation ==
    ASSUME NEW S, NEW s \in Seq(S), NEW t \in Seq(S)
    PROVE  Joined(s \o t, s, t, S)
  BY ConcatProperties DEF Joined

(* The first words of pic_init, those of InitWords and the rest of main. *)
LEMMA TheCode ==
    /\ Len(MainCode) = 18 /\ Loop = 19
    /\ MainCode[1] = ReadMasks
    /\ MainCode[2] = Command("master") /\ MainCode[3] = Command("slave")
    /\ MainCode[4] = Data("master", PIC1_VECTOR_OFFSET)
    /\ MainCode[5] = Data("slave", PIC2_VECTOR_OFFSET)
    /\ MainCode[6] = Data("master", 4) /\ MainCode[7] = Data("slave", 2)
    /\ MainCode[8] = Data("master", 1) /\ MainCode[9] = Data("slave", 1)
    /\ MainCode[10] = RestoreMask("master") /\ MainCode[11] = RestoreMask("slave")
    /\ MainCode[12] = Simple("lidt") /\ MainCode[13] = Simple("sti")
    /\ MainCode[14] = Register(INT_IRQ0) /\ MainCode[15] = Simple("pit_command")
    /\ MainCode[16] = Simple("pit_low") /\ MainCode[17] = Simple("pit_high")
    /\ MainCode[18] = Register(INT_PAGE_FAULT)
<1> DEFINE first == << ReadMasks, Command("master"), Command("slave") >>
           words == InitWords(PIC1_VECTOR_OFFSET, PIC2_VECTOR_OFFSET)
           rest  == << Simple("lidt"), Simple("sti"), Register(INT_IRQ0), Simple("pit_command"),
                       Simple("pit_low"), Simple("pit_high"), Register(INT_PAGE_FAULT) >>
           S == {ReadMasks, Command("master"), Command("slave"),
                 Data("master", PIC1_VECTOR_OFFSET), Data("slave", PIC2_VECTOR_OFFSET),
                 Data("master", 4), Data("slave", 2), Data("master", 1), Data("slave", 1),
                 RestoreMask("master"), RestoreMask("slave"), Simple("lidt"), Simple("sti"),
                 Register(INT_IRQ0), Simple("pit_command"), Simple("pit_low"),
                 Simple("pit_high"), Register(INT_PAGE_FAULT)}
<1>1. first \in Seq(S) /\ Len(first) = 3
  OBVIOUS
<1>2. words \in Seq(S) /\ Len(words) = 8
  BY DEF InitWords
<1>3. rest \in Seq(S) /\ Len(rest) = 7
  OBVIOUS
<1>4. /\ first[1] = ReadMasks /\ first[2] = Command("master") /\ first[3] = Command("slave")
  OBVIOUS
<1>5. /\ words[1] = Data("master", PIC1_VECTOR_OFFSET)
      /\ words[2] = Data("slave", PIC2_VECTOR_OFFSET)
      /\ words[3] = Data("master", 4) /\ words[4] = Data("slave", 2)
      /\ words[5] = Data("master", 1) /\ words[6] = Data("slave", 1)
      /\ words[7] = RestoreMask("master") /\ words[8] = RestoreMask("slave")
  BY DEF InitWords
<1>6. /\ rest[1] = Simple("lidt") /\ rest[2] = Simple("sti") /\ rest[3] = Register(INT_IRQ0)
      /\ rest[4] = Simple("pit_command") /\ rest[5] = Simple("pit_low")
      /\ rest[6] = Simple("pit_high") /\ rest[7] = Register(INT_PAGE_FAULT)
  OBVIOUS
<1> HIDE DEF first, words, rest, S
<1> DEFINE pic == first \o words
<1>7. Joined(pic, first, words, S)
  BY <1>1, <1>2, Concatenation
<1> HIDE DEF pic
<1>8. /\ pic \in Seq(S) /\ Len(pic) = 11
      /\ \A i \in 1..11 : pic[i] = IF i <= 3 THEN first[i] ELSE words[i - 3]
  BY <1>1, <1>2, <1>7 DEF Joined
<1>9. Joined(pic \o rest, pic, rest, S)
  BY <1>3, <1>8, Concatenation
<1>14. MainCode = pic \o rest
  BY DEF MainCode, PicInitCode, pic, first, words, rest
<1> DEFINE all == pic \o rest
<1>12. /\ Len(all) = Len(pic) + Len(rest)
       /\ \A i \in 1..(Len(pic) + Len(rest)) :
              all[i] = IF i <= Len(pic) THEN pic[i] ELSE rest[i - Len(pic)]
  BY <1>9 DEF Joined
<1> HIDE DEF all
<1>16. /\ Len(all) = 18
       /\ \A i \in 1..11 : all[i] = pic[i]
       /\ \A i \in 12..18 : all[i] = rest[i - 11]
  BY <1>3, <1>8, <1>12
<1>13. /\ Len(MainCode) = 18
       /\ \A i \in 1..11 : MainCode[i] = IF i <= 3 THEN first[i] ELSE words[i - 3]
       /\ \A i \in 12..18 : MainCode[i] = rest[i - 11]
  BY <1>8, <1>16, <1>14 DEF all
<1>11. /\ MainCode[1] = first[1] /\ MainCode[2] = first[2] /\ MainCode[3] = first[3]
       /\ MainCode[4] = words[1] /\ MainCode[5] = words[2] /\ MainCode[6] = words[3]
       /\ MainCode[7] = words[4] /\ MainCode[8] = words[5] /\ MainCode[9] = words[6]
       /\ MainCode[10] = words[7] /\ MainCode[11] = words[8]
       /\ MainCode[12] = rest[1] /\ MainCode[13] = rest[2] /\ MainCode[14] = rest[3]
       /\ MainCode[15] = rest[4] /\ MainCode[16] = rest[5] /\ MainCode[17] = rest[6]
       /\ MainCode[18] = rest[7]
  BY <1>13
<1>15. Loop = 19
  BY <1>13 DEF Loop
<1> QED
  BY <1>4, <1>5, <1>6, <1>11, <1>13, <1>15, Zenon

(* What can be executed, and where. *)
LEMMA TheInstructions ==
    ASSUME NEW pc \in 1..18
    PROVE  /\ MainCode[pc].op = "read_masks" => pc = 1
           /\ MainCode[pc].op = "icw1" =>
                  \/ pc = 2 /\ MainCode[pc].chip = "master"
                  \/ pc = 3 /\ MainCode[pc].chip = "slave"
           /\ MainCode[pc].op = "data" =>
                  \/ pc \in {4, 6, 8} /\ MainCode[pc].chip = "master"
                  \/ pc \in {5, 7, 9} /\ MainCode[pc].chip = "slave"
           /\ pc = 4 => MainCode[pc].value = PIC1_VECTOR_OFFSET
           /\ pc = 5 => MainCode[pc].value = PIC2_VECTOR_OFFSET
           /\ MainCode[pc].op = "restore" =>
                  \/ pc = 10 /\ MainCode[pc].chip = "master"
                  \/ pc = 11 /\ MainCode[pc].chip = "slave"
           /\ MainCode[pc].op = "lidt" => pc = 12
           /\ MainCode[pc].op = "sti" => pc = 13
           /\ MainCode[pc].op = "register" => pc \in {14, 18} /\ MainCode[pc].vector \in 0..47
           /\ MainCode[pc].op \in {"pit_command", "pit_low", "pit_high"} => pc \in 15..17
<1> DEFINE word == MainCode[pc]
<1>1. pc = 1 => word = ReadMasks
  BY TheCode, Zenon
<1>2. (pc = 2 => word = Command("master")) /\ (pc = 3 => word = Command("slave"))
  BY TheCode, Zenon
<1>3. /\ pc = 4 => word = Data("master", PIC1_VECTOR_OFFSET)
      /\ pc = 6 => word = Data("master", 4)
      /\ pc = 8 => word = Data("master", 1)
  BY TheCode, Zenon
<1>4. /\ pc = 5 => word = Data("slave", PIC2_VECTOR_OFFSET)
      /\ pc = 7 => word = Data("slave", 2)
      /\ pc = 9 => word = Data("slave", 1)
  BY TheCode, Zenon
<1>5. (pc = 10 => word = RestoreMask("master")) /\ (pc = 11 => word = RestoreMask("slave"))
  BY TheCode, Zenon
<1>6. (pc = 12 => word = Simple("lidt")) /\ (pc = 13 => word = Simple("sti"))
  BY TheCode, Zenon
<1>7. (pc = 14 => word = Register(INT_IRQ0)) /\ (pc = 18 => word = Register(INT_PAGE_FAULT))
  BY TheCode, Zenon
<1>8. /\ pc = 15 => word = Simple("pit_command")
      /\ pc = 16 => word = Simple("pit_low")
      /\ pc = 17 => word = Simple("pit_high")
  BY TheCode, Zenon
<1> HIDE DEF word
<1> DEFINE op     == word.op
           chip   == word.chip
           value  == word.value
           vector == word.vector
<1>11. ASSUME pc = 1 PROVE op = "read_masks"
  BY <1>1, <1>11 DEF ReadMasks
<1>12. ASSUME pc \in {2, 3}
       PROVE  op = "icw1" /\ chip = IF pc = 2 THEN "master" ELSE "slave"
  BY <1>2, <1>12 DEF Command
<1>13. ASSUME pc \in {4, 6, 8}
       PROVE  op = "data" /\ chip = "master" /\ (pc = 4 => value = PIC1_VECTOR_OFFSET)
  BY <1>3, <1>13 DEF Data
<1>14. ASSUME pc \in {5, 7, 9}
       PROVE  op = "data" /\ chip = "slave" /\ (pc = 5 => value = PIC2_VECTOR_OFFSET)
  BY <1>4, <1>14 DEF Data
<1>15. ASSUME pc \in {10, 11}
       PROVE  op = "restore" /\ chip = IF pc = 10 THEN "master" ELSE "slave"
  BY <1>5, <1>15 DEF RestoreMask
<1>16. ASSUME pc \in {12, 13} PROVE op = IF pc = 12 THEN "lidt" ELSE "sti"
  BY <1>6, <1>16 DEF Simple
<1>17. ASSUME pc \in {14, 18} PROVE op = "register" /\ vector \in 0..47
  BY <1>7, <1>17 DEF Register, INT_IRQ0, INT_PAGE_FAULT
<1>18. ASSUME pc \in 15..17 PROVE op \in {"pit_command", "pit_low", "pit_high"}
  BY <1>8, <1>18 DEF Simple
<1> HIDE DEF op, chip, value, vector
<1>19. /\ op = "read_masks" => pc = 1
       /\ op = "icw1" => \/ pc = 2 /\ chip = "master"
                         \/ pc = 3 /\ chip = "slave"
       /\ op = "data" => \/ pc \in {4, 6, 8} /\ chip = "master"
                         \/ pc \in {5, 7, 9} /\ chip = "slave"
       /\ op = "restore" => \/ pc = 10 /\ chip = "master"
                            \/ pc = 11 /\ chip = "slave"
       /\ op = "lidt" => pc = 12
       /\ op = "sti" => pc = 13
       /\ op = "register" => pc \in {14, 18} /\ vector \in 0..47
       /\ op \in {"pit_command", "pit_low", "pit_high"} => pc \in 15..17
       /\ pc = 4 => value = PIC1_VECTOR_OFFSET
       /\ pc = 5 => value = PIC2_VECTOR_OFFSET
  BY <1>11, <1>12, <1>13, <1>14, <1>15, <1>16, <1>17, <1>18
<1> QED
  BY <1>19 DEF op, chip, value, vector, word

(* Every vector that can occur has a gate, which clears the flag and leads *)
(* to a stub that pushes the vector.                                       *)
LEMMA TheGates ==
    ASSUME NEW vector \in 0..47
    PROVE  /\ HasGate(vector) /\ FlagAfter(vector) = FALSE
           /\ Idt(vector).stub = IF vector < 32 THEN <<"isr", vector>> ELSE <<"irq", vector - 32>>
           /\ StubNumber(Idt(vector).stub) = vector
<1>1. Idt(vector) = InterruptGate(IF vector < 32 THEN <<"isr", vector>> ELSE <<"irq", vector - 32>>)
  <2>1. CASE vector \in 0..31
    BY <2>1 DEF Idt
  <2>2. CASE vector \in 32..47
    BY <2>2 DEF Idt
  <2> QED
    BY <2>1, <2>2
<1>2. \A stub : /\ InterruptGate(stub).stub = stub
               /\ InterruptGate(stub).type_attr = 142
  BY DEF InterruptGate, IdtSetGate, IDT_MAKE_ATTR, IDT_PRESENT, IDT_DPL0, IDT_TYPE_INTERRUPT
<1>3. 142 \div 128 = 1 /\ 142 % 16 = 14
  OBVIOUS
<1> QED
  BY <1>1, <1>2, <1>3 DEF HasGate, FlagAfter, StubNumber, IdtLimit, IDT_ENTRIES, IDT_PRESENT,
     IDT_TYPE_TRAP

(* What is pushed: the words of the CPU, perhaps one for the error, and    *)
(* two more.                                                               *)
LEMMA ExceptionPushes ==
    ASSUME NEW vector \in 0..31, NEW return \in Places, interrupts_enabled \in BOOLEAN
    PROVE  LET f == FrameFor(vector, return)
           IN  /\ f \in Seq(Words) /\ Len(f) = 6
               /\ f[1] = <<"eflags", interrupts_enabled>> /\ f[2] = <<"cs", 8>>
               /\ f[3] = <<"eip", return>> /\ f[4][1] = "err"
               /\ f[5] = <<"int_no", vector>> /\ f[6] = <<"regs", 0>>
<1>1. StubNumber(Idt(vector).stub) = vector
  BY TheGates
<1>2. CpuErrorCode = IsrErr
  BY DEF CpuErrorCode, IsrErr
<1>3. PICK e \in 0..31 : ErrorWords(vector) = << <<"err", e>> >>
  <2>1. CASE vector \in IsrErr
    <3>1. ErrorWords(vector) = << <<"err", vector>> >> \o << >>
      BY <1>2, <2>1 DEF ErrorWords, IsrNoErr
    <3>2. << <<"err", vector>> >> \in Seq({<<"err", vector>>})
      OBVIOUS
    <3> QED
      BY <3>1, <3>2, ConcatEmptySeq
  <2>2. CASE vector \notin IsrErr
    <3>1. ErrorWords(vector) = << >> \o << <<"err", 0>> >>
      BY <1>2, <2>2 DEF ErrorWords, IsrNoErr
    <3>2. << <<"err", 0>> >> \in Seq({<<"err", 0>>})
      OBVIOUS
    <3> QED
      BY <3>1, <3>2, ConcatEmptySeq
  <2> QED
    BY <2>1, <2>2
<1> DEFINE cpu  == << <<"eflags", interrupts_enabled>>, <<"cs", 8>>, <<"eip", return>> >>
           err  == << <<"err", e>> >>
           stub == << <<"int_no", vector>>, <<"regs", 0>> >>
<1>4. /\ cpu \in Seq(Words) /\ Len(cpu) = 3
      /\ err \in Seq(Words) /\ Len(err) = 1
      /\ stub \in Seq(Words) /\ Len(stub) = 2
  BY DEF Words
<1>5. /\ cpu[1] = <<"eflags", interrupts_enabled>> /\ cpu[2] = <<"cs", 8>>
      /\ cpu[3] = <<"eip", return>> /\ err[1][1] = "err"
      /\ stub[1] = <<"int_no", vector>> /\ stub[2] = <<"regs", 0>>
  OBVIOUS
<1>6. FrameFor(vector, return) = (cpu \o err) \o stub
  BY <1>1, <1>3 DEF FrameFor
<1> HIDE DEF cpu, err, stub
<1> DEFINE low == cpu \o err
<1>7. Joined(low, cpu, err, Words)
  BY <1>4, Concatenation
<1>8. /\ low \in Seq(Words) /\ Len(low) = 4
      /\ low[1] = cpu[1] /\ low[2] = cpu[2] /\ low[3] = cpu[3] /\ low[4] = err[1]
  BY <1>4, <1>7 DEF Joined
<1> HIDE DEF low
<1>9. Joined(low \o stub, low, stub, Words)
  BY <1>4, <1>8, Concatenation
<1>10. /\ low \o stub \in Seq(Words) /\ Len(low \o stub) = 6
       /\ \A i \in 1..4 : (low \o stub)[i] = low[i]
       /\ (low \o stub)[5] = stub[1] /\ (low \o stub)[6] = stub[2]
  BY <1>4, <1>8, <1>9 DEF Joined
<1>11. (low \o stub)[4][1] = "err"
  BY <1>5, <1>8, <1>10
<1> HIDE DEF low
<1> DEFINE f == low \o stub
<1>12. /\ f \in Seq(Words) /\ Len(f) = 6 /\ f[4][1] = "err"
       /\ f[1] = cpu[1] /\ f[2] = cpu[2] /\ f[3] = cpu[3] /\ f[5] = stub[1] /\ f[6] = stub[2]
  BY <1>8, <1>10, <1>11
<1> HIDE DEF f
<1> QED
  BY <1>5, <1>6, <1>12 DEF low, f

LEMMA DevicePushes ==
    ASSUME NEW vector \in 32..47, NEW return \in Places, interrupts_enabled \in BOOLEAN
    PROVE  LET f == FrameFor(vector, return)
           IN  /\ f \in Seq(Words) /\ Len(f) = 5
               /\ f[1] = <<"eflags", interrupts_enabled>> /\ f[2] = <<"cs", 8>>
               /\ f[3] = <<"eip", return>>
               /\ f[4] = <<"int_no", vector>> /\ f[5] = <<"regs", 0>>
<1>1. StubNumber(Idt(vector).stub) = vector
  BY TheGates
<1> DEFINE cpu  == << <<"eflags", interrupts_enabled>>, <<"cs", 8>>, <<"eip", return>> >>
           stub == << <<"int_no", vector>>, <<"regs", 0>> >>
<1>2. ErrorWords(vector) = << >>
  <2>1. ErrorWords(vector) = << >> \o << >>
    BY DEF ErrorWords, CpuErrorCode, IsrErr, IsrNoErr
  <2>2. << >> \in Seq(Words)
    OBVIOUS
  <2> QED
    BY <2>1, <2>2, ConcatEmptySeq
<1>3. cpu \in Seq(Words) /\ Len(cpu) = 3 /\ stub \in Seq(Words) /\ Len(stub) = 2
  BY DEF Words
<1>4. /\ cpu[1] = <<"eflags", interrupts_enabled>> /\ cpu[2] = <<"cs", 8>>
      /\ cpu[3] = <<"eip", return>>
      /\ stub[1] = <<"int_no", vector>> /\ stub[2] = <<"regs", 0>>
  OBVIOUS
<1>5. FrameFor(vector, return) = (cpu \o << >>) \o stub
  BY <1>1, <1>2 DEF FrameFor
<1> HIDE DEF cpu, stub
<1>6. FrameFor(vector, return) = cpu \o stub
  BY <1>3, <1>5, ConcatEmptySeq
<1>7. Joined(cpu \o stub, cpu, stub, Words)
  BY <1>3, Concatenation
<1>8. /\ cpu \o stub \in Seq(Words) /\ Len(cpu \o stub) = 5
      /\ \A i \in 1..3 : (cpu \o stub)[i] = cpu[i]
      /\ (cpu \o stub)[4] = stub[1] /\ (cpu \o stub)[5] = stub[2]
  BY <1>3, <1>7 DEF Joined
<1> QED
  BY SMTT(30), <1>4, <1>6, <1>8

----------------------------------------------------------------------------
(* The controllers *)

LEMMA LeastIsLeast ==
    ASSUME NEW S \in SUBSET Lines, S # {}
    PROVE  Least(S) \in S /\ \A y \in S : Least(S) <= y
<1>1. \E x \in S : \A y \in S : x <= y
  <2>1. \A n \in Lines : n \in S /\ (\A m \in 0..(n - 1) : m \notin S)
                             => \A y \in S : n <= y
    BY DEF Lines
  <2>2. CASE 0 \in S \/ 1 \in S \/ 2 \in S \/ 3 \in S
    BY <2>1, <2>2 DEF Lines
  <2>3. CASE \A m \in 0..3 : m \notin S
    <3>1. 4 \in S \/ 5 \in S \/ 6 \in S \/ 7 \in S
      <4>1. PICK x \in S : x \in 0..7
        BY DEF Lines
      <4>2. x \notin 0..3
        BY <2>3
      <4> QED
        BY <4>1, <4>2
    <3> QED
      BY <2>1, <2>3, <3>1 DEF Lines
  <2> QED
    BY <2>2, <2>3
<1> QED
  BY <1>1 DEF Least

(* What leaves the set up of the controllers as it is: only requests and   *)
(* service change.                                                         *)
Untouched(p, q) ==
    /\ q \in [Chips -> Chip] /\ Cascade \notin q["master"].irr
    /\ \A c \in Chips : q[c].imr = p[c].imr /\ q[c].base = p[c].base /\ q[c].icw = p[c].icw

LEMMA ChipParts ==
    ASSUME NEW chip \in Chip
    PROVE  /\ chip.irr \subseteq Lines /\ chip.isr \subseteq Lines /\ chip.imr \subseteq Lines
           /\ chip.base \in 0..255 /\ chip.icw \in {0, 2, 3, 4}
  BY DEF Chip

LEMMA BothChips ==
    ASSUME NEW p, NEW m, NEW s, p \in [Chips -> Chip], m \in Chip, s \in Chip
    PROVE  LET q == [p EXCEPT !["master"] = m, !["slave"] = s]
           IN  q \in [Chips -> Chip] /\ q["master"] = m /\ q["slave"] = s
  BY DEF Chips

LEMMA AcknowledgedFits ==
    ASSUME NEW chip \in Chip, NEW l \in Lines
    PROVE  /\ Acknowledged(chip, l) \in Chip
           /\ Acknowledged(chip, l).isr = chip.isr \cup {l}
           /\ Acknowledged(chip, l).irr = chip.irr \ {l}
           /\ Acknowledged(chip, l).imr = chip.imr
           /\ Acknowledged(chip, l).base = chip.base
           /\ Acknowledged(chip, l).icw = chip.icw
  BY DEF Acknowledged, Chip

(* The line that the master reports, and that of the slave behind the      *)
(* cascade.                                                                *)
LEMMA EligibleLines ==
    ASSUME NEW p \in [Chips -> Chip], Cascade \notin p["master"].irr, MasterEligible(p) # {}
    PROVE  LET l == Least(MasterEligible(p))
               s == Least(SlaveEligible(p))
           IN  /\ l \in Lines
               /\ l = Cascade => s \in Lines
               /\ SlaveEligible(p) \subseteq Lines
<1>1. p["master"] \in Chip /\ p["slave"] \in Chip
  BY DEF Chips
<1>2. SlaveEligible(p) \subseteq Lines
  BY <1>1, ChipParts DEF SlaveEligible, Eligible
<1>3. MasterEligible(p) \subseteq p["master"].irr \cup (IF SlaveEligible(p) # {} THEN {Cascade} ELSE {})
  BY DEF MasterEligible, Eligible
<1>4. MasterEligible(p) \subseteq Lines
  BY <1>1, <1>3, ChipParts DEF Lines, Cascade
<1>5. Least(MasterEligible(p)) \in MasterEligible(p)
  BY <1>4, LeastIsLeast
<1>6. Least(MasterEligible(p)) = Cascade => SlaveEligible(p) # {}
  BY <1>3, <1>5
<1>7. SlaveEligible(p) # {} => Least(SlaveEligible(p)) \in Lines
  BY <1>2, LeastIsLeast
<1> QED
  BY <1>2, <1>4, <1>5, <1>6, <1>7

(* Nothing in service, and an interrupt is acknowledged: the vector is one *)
(* of the 16 that pic_init chose, and one line of each chip comes into     *)
(* service at most, the slave's with a vector of the slave.                *)
InServiceFor(vector, p) ==
    /\ vector \in 32..47
    /\ \E l \in Lines : p["master"].isr \subseteq {l}
    /\ \E l \in Lines : p["slave"].isr \subseteq {l}
    /\ p["slave"].isr # {} => vector >= 40

LEMMA AcknowledgeFits ==
    ASSUME NEW p \in [Chips -> Chip], Cascade \notin p["master"].irr, MasterEligible(p) # {},
           p["master"].isr = {}, p["slave"].isr = {},
           p["master"].base = 32, p["slave"].base = 40
    PROVE  /\ Untouched(p, Acknowledge(p))
           /\ InServiceFor(AcknowledgedVector(p), Acknowledge(p))
<1> DEFINE l == Least(MasterEligible(p))
           s == Least(SlaveEligible(p))
           M == Acknowledged(p["master"], l)
           V == IF l = Cascade THEN Acknowledged(p["slave"], s) ELSE p["slave"]
           q == [p EXCEPT !["master"] = M, !["slave"] = V]
<1>1. l \in Lines /\ (l = Cascade => s \in Lines)
  BY EligibleLines
<1>2. Acknowledge(p) = q
  BY DEF Acknowledge, Chips
<1>3. AcknowledgedVector(p) = IF l = Cascade THEN 40 + s ELSE 32 + l
  BY DEF AcknowledgedVector
<1>4. p["master"] \in Chip /\ p["slave"] \in Chip
  BY DEF Chips
<1> HIDE DEF l, s
<1>5. /\ M \in Chip /\ M.isr = {l} /\ M.irr = p["master"].irr \ {l} /\ M.imr = p["master"].imr
      /\ M.base = p["master"].base /\ M.icw = p["master"].icw
  BY <1>1, <1>4, AcknowledgedFits
<1>6. /\ V \in Chip /\ V.imr = p["slave"].imr
      /\ V.base = p["slave"].base /\ V.icw = p["slave"].icw
      /\ V.isr = IF l = Cascade THEN {s} ELSE {}
  <2>1. CASE l = Cascade
    <3>1. V = Acknowledged(p["slave"], s) /\ s \in Lines
      BY <1>1, <2>1
    <3> QED
      BY <1>4, <2>1, <3>1, AcknowledgedFits
  <2>2. CASE l # Cascade
    BY <1>4, <2>2
  <2> QED
    BY <2>1, <2>2
<1> HIDE DEF M, V
<1>7. q \in [Chips -> Chip] /\ q["master"] = M /\ q["slave"] = V
  BY <1>5, <1>6, BothChips
<1> HIDE DEF q
<1>8. Untouched(p, q)
  BY <1>5, <1>6, <1>7 DEF Untouched, Chips
<1>9. InServiceFor(AcknowledgedVector(p), q)
  <2>1. AcknowledgedVector(p) \in 32..47 /\ (l = Cascade => AcknowledgedVector(p) >= 40)
    BY <1>1, <1>3 DEF Lines
  <2>2. \E x \in Lines : V.isr \subseteq {x}
    BY <1>1, <1>6
  <2>3. V.isr # {} => l = Cascade
    BY <1>6
  <2> QED
    BY <1>1, <1>5, <1>7, <2>1, <2>2, <2>3 DEF InServiceFor
<1> QED
  BY <1>2, <1>8, <1>9

LEMMA WithdrawFits ==
    ASSUME NEW p \in [Chips -> Chip], Cascade \notin p["master"].irr, MasterEligible(p) # {},
           p["master"].isr = {}, p["slave"].isr = {},
           p["master"].base = 32, p["slave"].base = 40
    PROVE  /\ Untouched(p, Withdraw(p))
           /\ InServiceFor(SpuriousVector(p), Withdraw(p))
<1> DEFINE l == Least(MasterEligible(p))
           M == IF l = Cascade THEN Acknowledged(p["master"], l)
                               ELSE Dropped(p["master"], {l})
           V == IF l = Cascade THEN Dropped(p["slave"], SlaveEligible(p)) ELSE p["slave"]
           q == [p EXCEPT !["master"] = M, !["slave"] = V]
<1>1. l \in Lines
  BY EligibleLines
<1>2. Withdraw(p) = q
  BY DEF Withdraw, Chips
<1>3. SpuriousVector(p) = IF l = Cascade THEN 47 ELSE 39
  BY DEF SpuriousVector
<1>4. p["master"] \in Chip /\ p["slave"] \in Chip
  BY DEF Chips
<1> HIDE DEF l
<1>5. /\ M \in Chip /\ M.isr \subseteq {l} /\ M.irr = p["master"].irr \ {l}
      /\ M.imr = p["master"].imr
      /\ M.base = p["master"].base /\ M.icw = p["master"].icw
  <2>1. CASE l = Cascade
    BY <1>1, <1>4, <2>1, AcknowledgedFits
  <2>2. CASE l # Cascade
    BY <1>4, <2>2 DEF Dropped, Chip
  <2> QED
    BY <2>1, <2>2
<1>6. /\ V \in Chip /\ V.imr = p["slave"].imr
      /\ V.base = p["slave"].base /\ V.icw = p["slave"].icw /\ V.isr = {}
  BY <1>4 DEF Dropped, Chip
<1> HIDE DEF M, V
<1>7. q \in [Chips -> Chip] /\ q["master"] = M /\ q["slave"] = V
  BY <1>5, <1>6, BothChips
<1> HIDE DEF q
<1>8. Untouched(p, q)
  BY <1>5, <1>6, <1>7 DEF Untouched, Chips
<1>9. InServiceFor(SpuriousVector(p), q)
  BY <1>1, <1>3, <1>5, <1>6, <1>7 DEF InServiceFor
<1> QED
  BY <1>2, <1>8, <1>9

(* An EOI takes the one line out of service. *)
LEMMA EoiFits ==
    ASSUME NEW chip \in Chip, NEW l \in Lines, chip.isr \subseteq {l}
    PROVE  /\ EndOfInterrupt(chip) \in Chip /\ EndOfInterrupt(chip).isr = {}
           /\ EndOfInterrupt(chip).irr = chip.irr /\ EndOfInterrupt(chip).imr = chip.imr
           /\ EndOfInterrupt(chip).base = chip.base /\ EndOfInterrupt(chip).icw = chip.icw
<1> DEFINE gone == IF chip.isr = {} THEN {} ELSE {Least(chip.isr)}
<1>1. chip.isr \ gone = {}
  BY LeastIsLeast DEF Chip
<1>2. EndOfInterrupt(chip) = [chip EXCEPT !.isr = @ \ gone]
  BY DEF EndOfInterrupt, Chip
<1> HIDE DEF gone
<1> QED
  BY <1>1, <1>2 DEF Chip

(* The words that pic_init writes. *)
LEMMA Icw1Fits ==
    ASSUME NEW chip \in Chip
    PROVE  /\ Icw1(chip) \in Chip /\ Icw1(chip).irr = {} /\ Icw1(chip).isr = {}
           /\ Icw1(chip).imr = {} /\ Icw1(chip).icw = 2 /\ Icw1(chip).base = chip.base
  BY DEF Icw1, Chip

Written(chip, value, new) ==
    /\ new \in Chip /\ new.irr = chip.irr /\ new.isr = chip.isr
    /\ new.imr = IF chip.icw = 0 THEN value ELSE chip.imr
    /\ new.base = IF chip.icw = 2 THEN value ELSE chip.base
    /\ chip.icw = 0 => new.icw = 0
    /\ chip.icw = 2 => new.icw = 3
    /\ chip.icw = 3 => new.icw = 4
    /\ chip.icw = 4 => new.icw = 0

LEMMA WriteDataFits ==
    ASSUME NEW chip \in Chip, NEW value,
           chip.icw = 0 => value \in SUBSET Lines, chip.icw = 2 => value \in 0..255
    PROVE  Written(chip, value, WriteData(chip, value))
<1>1. ASSUME chip.icw = 0 PROVE Written(chip, value, WriteData(chip, value))
  BY <1>1 DEF Written, WriteData, Chip
<1>2. ASSUME chip.icw = 2 PROVE Written(chip, value, WriteData(chip, value))
  <2> DEFINE new == WriteData(chip, value)
  <2>1. new = [chip EXCEPT !.base = value, !.icw = 3] /\ value \in 0..255
    BY <1>2 DEF WriteData
  <2> HIDE DEF new
  <2>2. /\ new \in Chip /\ new.irr = chip.irr /\ new.isr = chip.isr
        /\ new.imr = chip.imr /\ new.base = value /\ new.icw = 3
    BY <2>1 DEF Chip
  <2>3. chip.icw # 0 /\ chip.icw # 3 /\ chip.icw # 4
    BY <1>2
  <2>4. Written(chip, value, new)
    BY <1>2, <2>2, <2>3, Zenon DEF Written
  <2> QED
    BY <2>4 DEF new
<1>3. ASSUME chip.icw = 3 PROVE Written(chip, value, WriteData(chip, value))
  BY <1>3 DEF Written, WriteData, Chip
<1>4. ASSUME chip.icw = 4 PROVE Written(chip, value, WriteData(chip, value))
  BY <1>4 DEF Written, WriteData, Chip
<1>5. chip.icw = 0 \/ chip.icw = 2 \/ chip.icw = 3 \/ chip.icw = 4
  BY ChipParts
<1> QED
  BY <1>1, <1>2, <1>3, <1>4, <1>5, Zenon

----------------------------------------------------------------------------
(* The words of pic_init keep to the table *)

LEMMA NoWord ==
    ASSUME NEW chip, NEW old, NEW base, NEW q \in 0..18, q + 1 \notin {3, 5, 7, 9, 11},
           SetUpChip(chip, old, base, q)
    PROVE  SetUpChip(chip, old, base, q + 1)
<1>1. /\ q \in 3..4 <=> q + 1 \in 3..4
      /\ q \in 5..6 <=> q + 1 \in 5..6
      /\ q \in 7..8 <=> q + 1 \in 7..8
      /\ q \in 3..10 <=> q + 1 \in 3..10
      /\ q + 1 >= 5 => q >= 5
  OBVIOUS
<1> QED
  BY <1>1 DEF SetUpChip

LEMMA FirstWord ==
    ASSUME NEW chip \in Chip, NEW old, NEW base
    PROVE  SetUpChip(Icw1(chip), old, base, 3)
  BY Icw1Fits DEF SetUpChip

(* The table says which word comes at place q, and what it changes. *)
WordDue(chip, value, old, base, q) ==
    /\ chip \in Chip /\ old \in SUBSET Lines /\ base \in 0..255 /\ q \in {4, 6, 8, 10}
    /\ q = 4 => value = base
    /\ q = 10 => value = old
    /\ SetUpChip(chip, old, base, q)

WordDone(new, chip, old, base, q) ==
    /\ new \in Chip /\ new.irr = chip.irr /\ new.isr = chip.isr
    /\ SetUpChip(new, old, base, q + 1)

LEMMA DataWord ==
    ASSUME NEW chip, NEW value, NEW old, NEW base, NEW q, WordDue(chip, value, old, base, q)
    PROVE  WordDone(WriteData(chip, value), chip, old, base, q)
<1> DEFINE new == WriteData(chip, value)
<1>8. /\ chip \in Chip /\ old \in SUBSET Lines /\ base \in 0..255 /\ q \in {4, 6, 8, 10}
      /\ q = 4 => value = base
      /\ q = 10 => value = old
      /\ SetUpChip(chip, old, base, q)
  BY DEF WordDue
<1>1. /\ q = 4 => chip.icw = 2
      /\ q = 6 => chip.icw = 3
      /\ q = 8 => chip.icw = 4
      /\ q = 10 => chip.icw = 0
      /\ chip.imr = {}
      /\ q # 4 => chip.base = base
  BY <1>8 DEF SetUpChip
<1>2. ASSUME q = 4 PROVE new \in Chip /\ new.irr = chip.irr /\ new.isr = chip.isr
                         /\ new.icw = 3 /\ new.imr = {} /\ new.base = base
  <2>1. Written(chip, value, new)
    BY <1>1, <1>2, <1>8, WriteDataFits
  <2> QED
    BY <1>1, <1>2, <1>8, <2>1 DEF Written
<1>3. ASSUME q = 6 PROVE new \in Chip /\ new.irr = chip.irr /\ new.isr = chip.isr
                         /\ new.icw = 4 /\ new.imr = {} /\ new.base = base
  <2>1. Written(chip, value, new)
    BY <1>1, <1>3, <1>8, WriteDataFits
  <2> QED
    BY <1>1, <1>3, <1>8, <2>1 DEF Written
<1>4. ASSUME q = 8 PROVE new \in Chip /\ new.irr = chip.irr /\ new.isr = chip.isr
                         /\ new.icw = 0 /\ new.imr = {} /\ new.base = base
  <2>1. Written(chip, value, new)
    BY <1>1, <1>4, <1>8, WriteDataFits
  <2> QED
    BY <1>1, <1>4, <1>8, <2>1 DEF Written
<1>5. ASSUME q = 10 PROVE new \in Chip /\ new.irr = chip.irr /\ new.isr = chip.isr
                          /\ new.icw = 0 /\ new.imr = old /\ new.base = base
  <2>1. Written(chip, value, new)
    BY <1>1, <1>5, <1>8, WriteDataFits
  <2> QED
    BY <1>1, <1>5, <1>8, <2>1 DEF Written
<1> HIDE DEF new
<1>9. q \in {4, 6, 8, 10}
  BY <1>8
<1>6. SetUpChip(new, old, base, q + 1)
  BY <1>2, <1>3, <1>4, <1>5, <1>9 DEF SetUpChip
<1>7. new \in Chip /\ new.irr = chip.irr /\ new.isr = chip.isr
  BY <1>2, <1>3, <1>4, <1>5, <1>8
<1> QED
  BY <1>6, <1>7 DEF new, WordDone

----------------------------------------------------------------------------
(* The invariant at the start, and where main is *)

LEMMA Parameters ==
    /\ Devices \subseteq (0..15) \ {Cascade} /\ Exceptions \subseteq 0..31
    /\ MaxRaises \in Nat /\ MaxNmi \in Nat /\ Frequency \in Nat \ {0}
    /\ FirmwareMasks \subseteq [Chips -> SUBSET Lines]
<1>1. Devices \subseteq (0..15) \ {Cascade} /\ Exceptions \subseteq 0..31
  BY DeviceAssumption
<1>2. MaxRaises \in Nat /\ MaxNmi \in Nat
  BY DeviceAssumption
<1>3. Frequency \in Nat \ {0}
  <2>1. PIT_FREQ_BASE \in Nat
    BY SMT DEF PIT_FREQ_BASE
  <2> QED
    BY <2>1, DeviceAssumption
<1>4. FirmwareMasks \subseteq [Chips -> SUBSET Lines]
  BY DeviceAssumption
<1> QED
  BY <1>1, <1>2, <1>3, <1>4

LEMMA FirmwareFits ==
    ASSUME NEW f \in FirmwareMasks
    PROVE  f \in [Chips -> SUBSET Lines] /\ f["master"] \in SUBSET Lines /\ f["slave"] \in SUBSET Lines
  BY Parameters DEF Chips

LEMMA InitInterrupts == Init => InterruptsInv
<1> SUFFICES ASSUME Init PROVE InterruptsInv
  OBVIOUS
<1>1. MainPc = 1 /\ Loop = 19 /\ at = Main(1) /\ stack = << >>
  BY TheCode DEF Init, MainPc, Main, Pc
<1>2. /\ pics \in [Chips -> Chip]
      /\ \A c \in Chips : pics[c].irr = {} /\ pics[c].isr = {} /\ pics[c].imr = firmware[c] /\ pics[c].icw = 0
  <2>1. firmware \in [Chips -> SUBSET Lines]
    BY FirmwareFits DEF Init
  <2>2. \A c \in Chips : pics[c] = [irr |-> {}, isr |-> {}, imr |-> firmware[c],
                                  base |-> IF c = "master" THEN 8 ELSE 112, icw |-> 0]
    BY DEF Init
  <2>3. \A c \in Chips : pics[c] \in Chip
    <3> TAKE c \in Chips
    <3> DEFINE base == IF c = "master" THEN 8 ELSE 112
               imr == firmware[c]
    <3>1. base \in 0..255 /\ imr \in SUBSET Lines
      BY <2>1
    <3>2. pics[c] = [irr |-> {}, isr |-> {}, imr |-> imr, base |-> base, icw |-> 0]
      BY <2>2
    <3> HIDE DEF base, imr
    <3> QED
      BY <3>1, <3>2 DEF Chip
  <2>4. pics = [c \in Chips |-> pics[c]]
    BY DEF Init
  <2> QED
    BY <2>2, <2>3, <2>4
<1>3. Typed
  BY <1>2 DEF Typed, Chips, Timer, Init
<1>4. SetUp(1)
  BY <1>2 DEF SetUp, SetUpChip, Chips, Init, Sti
<1>5. InMain
  BY <1>1, <1>2 DEF InMain, NoService, Chips, Sti, Init
<1>6. NeverReset
  BY DEF NeverReset, Init
<1>7. TypeOK
  <2>1. at \in Places /\ stack \in Seq(Words)
    BY <1>1 DEF Places, Main
  <2>2. \A c \in Chips : /\ pics[c].irr \cup pics[c].isr \cup pics[c].imr \subseteq Lines
                         /\ pics[c].base \in 0..255 /\ pics[c].icw \in {0, 2, 3, 4}
    BY <1>2, ChipParts
  <2>3. raises \in [Devices -> 0..MaxRaises] /\ nmis \in 0..MaxNmi
    BY Parameters DEF Init
  <2>4. pit.mode \in {"bios", "bcd"} /\ pit.low \in 0..255 /\ pit.high \in 0..255
    BY DEF Init
  <2>5. masks \in [Chips -> SUBSET Lines] /\ firmware \in FirmwareMasks
    BY DEF Init
  <2>6. /\ {interrupts_enabled, nmi_blocked, idt_loaded, in_interrupt_context} \subseteq BOOLEAN
        /\ running \in {"on", "halted", "reset"} /\ interrupt_handlers \subseteq 0..47 /\ tick \in Nat
    BY DEF Init
  <2> QED
    BY <2>1, <2>2, <2>3, <2>4, <2>5, <2>6 DEF TypeOK
<1> QED
  BY <1>1, <1>3, <1>4, <1>5, <1>6, <1>7 DEF InterruptsInv

LEMMA PlacesOfMain ==
    ASSUME InterruptsInv, Flow(at) = "main"
    PROVE  InMain /\ Pc(at) = MainPc /\ at = Main(Pc(at)) /\ Pc(at) \in 1..19
<1>1. ASSUME NEW place, at = Isr(place) \/ at = Irq(place) PROVE FALSE
  BY <1>1 DEF Isr, Irq, Flow
<1>2. ~ InHandler
  BY <1>1 DEF InHandler, Alone
<1> QED
  BY <1>2, TheCode DEF InterruptsInv, InMain, Main, Pc

(* What is left to show of a step of main once its effect on the           *)
(* controllers is known.                                                   *)
LEMMA MainStep ==
    ASSUME InterruptsInv, InMain, NEW pc \in 1..18, at = Main(pc), at' = Main(pc + 1),
           UNCHANGED <<stack, running, nmi_blocked, in_interrupt_context, tick,
                       raises, nmis, firmware>>,
           interrupts_enabled' \in BOOLEAN, interrupts_enabled' <=> pc + 1 > Sti,
           pics' \in [Chips -> Chip], Cascade \notin pics'["master"].irr,
           NoService', SetUp(pc + 1)', pit' \in Timer,
           masks' \in [Chips -> SUBSET Lines], idt_loaded' \in BOOLEAN,
           interrupt_handlers' \subseteq 0..47
    PROVE  InterruptsInv'
<1>1. stack = << >> /\ stack' = << >>
  BY DEF InMain
<1>2. MainPc' = pc + 1 /\ pc + 1 \in 1..Loop /\ Loop = 19
  BY <1>1, TheCode DEF MainPc, Main, Pc
<1>3. Typed'
  BY DEF Typed
<1>4. TypeOK'
  <2>1. at' \in Places
    BY <1>2 DEF Places, Main
  <2>2. \A c \in Chips : /\ (pics'[c].irr \cup pics'[c].isr) \cup pics'[c].imr \subseteq Lines
                         /\ pics'[c].base \in 0..255 /\ pics'[c].icw \in {0, 2, 3, 4}
    BY <1>3, ChipParts DEF Typed
  <2>3. pit'.mode \in {"bios", "bcd"} /\ pit'.low \in 0..255 /\ pit'.high \in 0..255
    BY DEF Timer
  <2> QED
    BY <2>1, <2>2, <2>3 DEF TypeOK, InterruptsInv
<1>5. InMain'
  BY <1>1, <1>2 DEF InMain
<1>6. NeverReset'
  BY DEF InterruptsInv, NeverReset
<1> QED
  BY <1>2, <1>3, <1>4, <1>5, <1>6 DEF InterruptsInv

----------------------------------------------------------------------------
(* main, instruction by instruction *)

LEMMA Executing ==
    ASSUME InterruptsInv, NEW op, Executes(op)
    PROVE  /\ InMain
           /\ UNCHANGED <<stack, running, nmi_blocked, in_interrupt_context, tick,
                          raises, nmis, firmware>>
           /\ \E pc \in 1..18 :
                 /\ pc = MainPc /\ MainCode[pc].op = op /\ Instruction = MainCode[pc]
                 /\ at = Main(pc) /\ at' = Main(pc + 1) /\ SetUp(pc)
<1>1. /\ Flow(at) = "main" /\ Pc(at) < Loop /\ MainCode[Pc(at)].op = op
      /\ at' = Main(Pc(at) + 1)
      /\ UNCHANGED <<stack, running, nmi_blocked, in_interrupt_context, tick,
                     raises, nmis, firmware>>
  BY DEF Executes
<1>2. InMain /\ Pc(at) = MainPc /\ at = Main(Pc(at)) /\ Pc(at) \in 1..19
  BY <1>1, PlacesOfMain
<1>3. Loop = 19
  BY TheCode
<1>4. Pc(at) \in 1..18
  BY <1>1, <1>2, <1>3
<1>5. SetUp(Pc(at))
  BY <1>2 DEF InterruptsInv
<1> QED
  BY <1>1, <1>2, <1>4, <1>5 DEF Instruction

LEMMA ElsewhereInMain ==
    ASSUME InterruptsInv, NEW pc \in 1..18, pc = 1 \/ pc >= 12, SetUp(pc),
           UNCHANGED <<pics, firmware>>, masks' = firmware, idt_loaded' <=> pc + 1 >= Sti
    PROVE  SetUp(pc + 1)'
<1>1. pc + 1 \notin {3, 5, 7, 9, 11} /\ pc \notin {3, 5, 7, 9, 11}
  OBVIOUS
<1>2. SetUpChip(pics["master"], firmware["master"], PIC1_VECTOR_OFFSET, pc + 1)
  BY <1>1, NoWord DEF SetUp
<1>3. SetUpChip(pics["slave"], firmware["slave"], PIC2_VECTOR_OFFSET, pc)
  <2> DEFINE q == pc - 1
  <2>1. q \in 0..18 /\ q + 1 = pc
    OBVIOUS
  <2>2. SetUpChip(pics["slave"], firmware["slave"], PIC2_VECTOR_OFFSET, q)
    BY DEF SetUp
  <2> HIDE DEF q
  <2>3. SetUpChip(pics["slave"], firmware["slave"], PIC2_VECTOR_OFFSET, q + 1)
    BY <1>1, <2>1, <2>2, NoWord
  <2> QED
    BY <2>1, <2>3
<1>4. (pc + 1) - 1 = pc
  OBVIOUS
<1> QED
  BY <1>2, <1>3, <1>4 DEF SetUp

LEMMA StepPicRead ==
    ASSUME InterruptsInv, PicRead PROVE InterruptsInv'
<1>1. /\ Executes("read_masks") /\ masks' = [c \in Chips |-> pics[c].imr]
      /\ UNCHANGED <<interrupts_enabled, pics, pit, idt_loaded, interrupt_handlers>>
  BY DEF PicRead
<1>10. /\ InMain
       /\ UNCHANGED <<stack, running, nmi_blocked, in_interrupt_context, tick,
                      raises, nmis, firmware>>
  BY <1>1, Executing
<1>2. PICK pc \in 1..18 :
         /\ pc = MainPc /\ MainCode[pc].op = "read_masks"
         /\ at = Main(pc) /\ at' = Main(pc + 1) /\ SetUp(pc)
  BY <1>1, Executing
<1>3. pc = 1
  BY <1>2, TheInstructions
<1>4. firmware \in [Chips -> SUBSET Lines]
  BY FirmwareFits DEF InterruptsInv, TypeOK
<1>5. masks' = firmware
  <2>1. pics["master"].imr = firmware["master"] /\ pics["slave"].imr = firmware["slave"]
    BY <1>2, <1>3 DEF SetUp, SetUpChip
  <2>2. \A c \in Chips : pics[c].imr = firmware[c]
    BY <2>1 DEF Chips
  <2> QED
    BY <1>1, <1>4, <2>2
<1>6. SetUp(pc + 1)'
  <2>1. idt_loaded' <=> pc + 1 >= Sti
    BY <1>1, <1>2, <1>3 DEF SetUp, Sti
  <2> QED
    BY <1>1, <1>10, <1>2, <1>3, <1>5, <2>1, ElsewhereInMain
<1>7. /\ interrupts_enabled' \in BOOLEAN /\ (interrupts_enabled' <=> pc + 1 > Sti)
  BY <1>1, <1>10, <1>2, <1>3 DEF InMain, InterruptsInv, TypeOK, Sti
<1>8. /\ pics' \in [Chips -> Chip] /\ Cascade \notin pics'["master"].irr
      /\ NoService' /\ pit' \in Timer
  BY <1>1, <1>10 DEF InMain, NoService, InterruptsInv, Typed
<1>9. idt_loaded' \in BOOLEAN /\ interrupt_handlers' \subseteq 0..47
  BY <1>1 DEF InterruptsInv, TypeOK
<1> QED
  BY <1>10, <1>2, <1>4, <1>5, <1>6, <1>7, <1>8, <1>9, MainStep

(* A word for one of the chips. *)
LEMMA PicWrite ==
    ASSUME InterruptsInv, InMain, NEW pc \in 2..11, at = Main(pc), at' = Main(pc + 1), SetUp(pc),
           pc = MainPc,
           UNCHANGED <<stack, running, nmi_blocked, in_interrupt_context, tick,
                       raises, nmis, firmware>>,
           UNCHANGED <<interrupts_enabled, pit, masks, idt_loaded, interrupt_handlers>>,
           NEW new \in Chip, new.isr = {},
           \/ /\ pc \in {2, 4, 6, 8, 10} /\ pics' = [pics EXCEPT !["master"] = new]
              /\ Cascade \notin new.irr
              /\ SetUpChip(new, firmware["master"], PIC1_VECTOR_OFFSET, pc + 1)
           \/ /\ pc \in {3, 5, 7, 9, 11} /\ pics' = [pics EXCEPT !["slave"] = new]
              /\ SetUpChip(new, firmware["slave"], PIC2_VECTOR_OFFSET, pc)
    PROVE  InterruptsInv'
<1>1. /\ pics \in [Chips -> Chip] /\ Cascade \notin pics["master"].irr
      /\ pics["master"].isr = {} /\ pics["slave"].isr = {}
  BY DEF InterruptsInv, Typed, InMain, NoService
<1>2. /\ SetUpChip(pics["master"], firmware["master"], PIC1_VECTOR_OFFSET, pc)
      /\ SetUpChip(pics["slave"], firmware["slave"], PIC2_VECTOR_OFFSET, pc - 1)
      /\ masks = firmware /\ (idt_loaded <=> pc >= Sti)
  BY DEF SetUp
<1>3. /\ pics' \in [Chips -> Chip] /\ Cascade \notin pics'["master"].irr
      /\ pics'["master"].isr = {} /\ pics'["slave"].isr = {}
      /\ SetUpChip(pics'["master"], firmware["master"], PIC1_VECTOR_OFFSET, pc + 1)
      /\ SetUpChip(pics'["slave"], firmware["slave"], PIC2_VECTOR_OFFSET, pc)
  <2>1. CASE /\ pc \in {2, 4, 6, 8, 10} /\ pics' = [pics EXCEPT !["master"] = new]
             /\ Cascade \notin new.irr
             /\ SetUpChip(new, firmware["master"], PIC1_VECTOR_OFFSET, pc + 1)
    <3>1. pics' \in [Chips -> Chip] /\ pics'["master"] = new /\ pics'["slave"] = pics["slave"]
      BY <1>1, <2>1 DEF Chips
    <3> DEFINE q == pc - 1
    <3>2. q \in 0..18 /\ q + 1 = pc /\ q + 1 \notin {3, 5, 7, 9, 11}
      BY <2>1
    <3>3. SetUpChip(pics["slave"], firmware["slave"], PIC2_VECTOR_OFFSET, q)
      BY <1>2
    <3> HIDE DEF q
    <3>4. SetUpChip(pics["slave"], firmware["slave"], PIC2_VECTOR_OFFSET, q + 1)
      BY <3>2, <3>3, NoWord
    <3> QED
      BY <1>1, <2>1, <3>1, <3>2, <3>4
  <2>2. CASE /\ pc \in {3, 5, 7, 9, 11} /\ pics' = [pics EXCEPT !["slave"] = new]
             /\ SetUpChip(new, firmware["slave"], PIC2_VECTOR_OFFSET, pc)
    <3>1. pics' \in [Chips -> Chip] /\ pics'["slave"] = new /\ pics'["master"] = pics["master"]
      BY <1>1, <2>2 DEF Chips
    <3>2. pc \in 0..18 /\ pc + 1 \notin {3, 5, 7, 9, 11}
      BY <2>2
    <3>3. SetUpChip(pics["master"], firmware["master"], PIC1_VECTOR_OFFSET, pc + 1)
      BY <1>2, <3>2, NoWord
    <3> QED
      BY <1>1, <2>2, <3>1, <3>3
  <2> QED
    BY <2>1, <2>2
<1>4. SetUp(pc + 1)'
  <2>1. (pc + 1) - 1 = pc /\ (idt_loaded <=> pc + 1 >= Sti)
    BY <1>2 DEF Sti
  <2>2. SetUpChip(pics'["slave"], firmware["slave"], PIC2_VECTOR_OFFSET, (pc + 1) - 1)
    BY <1>3, <2>1
  <2>3. masks' = firmware' /\ firmware' = firmware /\ (idt_loaded' <=> pc + 1 >= Sti)
    BY <1>2, <2>1
  <2> QED
    BY <1>3, <2>2, <2>3 DEF SetUp, PIC1_VECTOR_OFFSET, PIC2_VECTOR_OFFSET
<1>5. interrupts_enabled' \in BOOLEAN /\ (interrupts_enabled' <=> pc + 1 > Sti)
  BY DEF InMain, InterruptsInv, TypeOK, Sti
<1>6. /\ NoService' /\ pit' \in Timer /\ masks' \in [Chips -> SUBSET Lines]
      /\ idt_loaded' \in BOOLEAN /\ interrupt_handlers' \subseteq 0..47
  BY <1>3 DEF NoService, InterruptsInv, Typed, TypeOK
<1>7. pc \in 1..18
  OBVIOUS
<1> QED
  BY <1>3, <1>4, <1>5, <1>6, <1>7, MainStep

LEMMA StepIcw1 ==
    ASSUME InterruptsInv, Executes("icw1"),
           pics' = [pics EXCEPT ![Instruction.chip] = Icw1(@)],
           UNCHANGED <<interrupts_enabled, pit, masks, idt_loaded, interrupt_handlers>>
    PROVE  InterruptsInv'
<1>1. /\ InMain
      /\ UNCHANGED <<stack, running, nmi_blocked, in_interrupt_context, tick,
                     raises, nmis, firmware>>
  BY Executing
<1>2. PICK pc \in 1..18 :
         /\ pc = MainPc /\ MainCode[pc].op = "icw1" /\ Instruction = MainCode[pc]
         /\ at = Main(pc) /\ at' = Main(pc + 1) /\ SetUp(pc)
  BY Executing
<1>3. \/ pc = 2 /\ Instruction.chip = "master"
      \/ pc = 3 /\ Instruction.chip = "slave"
  BY <1>2, TheInstructions
<1>4. pics \in [Chips -> Chip] /\ pics["master"] \in Chip /\ pics["slave"] \in Chip
  BY DEF InterruptsInv, Typed, Chips
<1>5. pc \in 2..11
  BY <1>3
<1>6. CASE pc = 2 /\ Instruction.chip = "master"
  <2> DEFINE new == Icw1(pics["master"])
  <2>1. new \in Chip /\ new.isr = {} /\ Cascade \notin new.irr
    BY <1>4, Icw1Fits
  <2>2. SetUpChip(new, firmware["master"], PIC1_VECTOR_OFFSET, pc + 1)
    <3>1. SetUpChip(new, firmware["master"], PIC1_VECTOR_OFFSET, 3)
      BY <1>4, FirstWord
    <3> QED
      BY <1>6, <3>1
  <2>3. pics' = [pics EXCEPT !["master"] = new]
    BY <1>4, <1>6 DEF Chips
  <2> HIDE DEF new
  <2> QED
    BY <1>1, <1>2, <1>5, <1>6, <2>1, <2>2, <2>3, PicWrite
<1>7. CASE pc = 3 /\ Instruction.chip = "slave"
  <2> DEFINE new == Icw1(pics["slave"])
  <2>1. new \in Chip /\ new.isr = {}
    BY <1>4, Icw1Fits
  <2>2. SetUpChip(new, firmware["slave"], PIC2_VECTOR_OFFSET, pc)
    <3>1. SetUpChip(new, firmware["slave"], PIC2_VECTOR_OFFSET, 3)
      BY <1>4, FirstWord
    <3> QED
      BY <1>7, <3>1
  <2>3. pics' = [pics EXCEPT !["slave"] = new]
    BY <1>4, <1>7 DEF Chips
  <2> HIDE DEF new
  <2> QED
    BY <1>1, <1>2, <1>5, <1>7, <2>1, <2>2, <2>3, PicWrite
<1> QED
  BY <1>3, <1>6, <1>7

(* The words after the first one: where the table says what is written.    *)
LEMMA StepDataWord ==
    ASSUME InterruptsInv, NEW op \in {"data", "restore"}, Executes(op),
           pics' = [pics EXCEPT ![Instruction.chip] =
                        WriteData(@, IF op = "data" THEN Instruction.value
                                                    ELSE masks[Instruction.chip])],
           UNCHANGED <<interrupts_enabled, pit, masks, idt_loaded, interrupt_handlers>>
    PROVE  InterruptsInv'
<1>1. /\ InMain
      /\ UNCHANGED <<stack, running, nmi_blocked, in_interrupt_context, tick,
                     raises, nmis, firmware>>
  BY Executing
<1>2. PICK pc \in 1..18 :
         /\ pc = MainPc /\ MainCode[pc].op = op /\ Instruction = MainCode[pc]
         /\ at = Main(pc) /\ at' = Main(pc + 1) /\ SetUp(pc)
  BY Executing
<1> DEFINE value == IF op = "data" THEN Instruction.value ELSE masks[Instruction.chip]
<1>3. /\ \/ pc \in {4, 6, 8, 10} /\ Instruction.chip = "master"
         \/ pc \in {5, 7, 9, 11} /\ Instruction.chip = "slave"
      /\ op = "restore" <=> pc \in {10, 11}
      /\ pc = 4 => Instruction.value = PIC1_VECTOR_OFFSET
      /\ pc = 5 => Instruction.value = PIC2_VECTOR_OFFSET
  BY <1>2, TheInstructions
<1>4. /\ pics \in [Chips -> Chip] /\ pics["master"] \in Chip /\ pics["slave"] \in Chip
      /\ pics["master"].isr = {} /\ pics["slave"].isr = {}
      /\ Cascade \notin pics["master"].irr
  BY <1>1 DEF InterruptsInv, Typed, Chips, InMain, NoService
<1>5. pc \in 2..11 /\ masks = firmware
  BY <1>2, <1>3 DEF SetUp
<1>6. firmware["master"] \in SUBSET Lines /\ firmware["slave"] \in SUBSET Lines
  BY FirmwareFits DEF InterruptsInv, TypeOK
<1>7. /\ pc = 4 => value = PIC1_VECTOR_OFFSET
      /\ pc = 5 => value = PIC2_VECTOR_OFFSET
      /\ pc = 10 => value = firmware["master"]
      /\ pc = 11 => value = firmware["slave"]
  BY <1>3, <1>5
<1>8. PIC1_VECTOR_OFFSET \in 0..255 /\ PIC2_VECTOR_OFFSET \in 0..255
  BY DEF PIC1_VECTOR_OFFSET, PIC2_VECTOR_OFFSET
<1>9. pics' = [pics EXCEPT ![Instruction.chip] = WriteData(@, value)]
  OBVIOUS
<1> HIDE DEF value
<1>10. CASE pc \in {4, 6, 8, 10} /\ Instruction.chip = "master"
  <2> DEFINE new == WriteData(pics["master"], value)
  <2>1. SetUpChip(pics["master"], firmware["master"], PIC1_VECTOR_OFFSET, pc)
    BY <1>2 DEF SetUp
  <2>2. /\ new \in Chip /\ new.irr = pics["master"].irr /\ new.isr = pics["master"].isr
        /\ SetUpChip(new, firmware["master"], PIC1_VECTOR_OFFSET, pc + 1)
    <3> DEFINE chip == pics["master"]
               old  == firmware["master"]
               base == PIC1_VECTOR_OFFSET
    <3>1. WordDue(chip, value, old, base, pc) /\ new = WriteData(chip, value)
      BY <1>4, <1>6, <1>7, <1>8, <1>10, <2>1, Zenon DEF WordDue
    <3> HIDE DEF new, chip, old, base
    <3>2. WordDone(new, chip, old, base, pc)
      BY <3>1, DataWord
    <3> QED
      BY <3>2, Zenon DEF WordDone, chip, old, base
  <2>3. pics' = [pics EXCEPT !["master"] = new]
    BY <1>4, <1>9, <1>10 DEF Chips
  <2> HIDE DEF new
  <2> QED
    <3>1. /\ new \in Chip /\ new.isr = {} /\ Cascade \notin new.irr
          /\ SetUpChip(new, firmware["master"], PIC1_VECTOR_OFFSET, pc + 1)
      BY <1>4, <2>2
    <3>2. /\ pc \in 2..11 /\ pc = MainPc /\ at = Main(pc) /\ at' = Main(pc + 1) /\ SetUp(pc)
          /\ pc \in {2, 4, 6, 8, 10}
      BY <1>2, <1>5, <1>10
    <3> QED
      BY <1>1, <2>3, <3>1, <3>2, PicWrite
<1>11. CASE pc \in {5, 7, 9, 11} /\ Instruction.chip = "slave"
  <2> DEFINE new == WriteData(pics["slave"], value)
             q   == pc - 1
  <2>0. q \in {4, 6, 8, 10} /\ q + 1 = pc
    BY <1>11
  <2>1. SetUpChip(pics["slave"], firmware["slave"], PIC2_VECTOR_OFFSET, q)
    BY <1>2 DEF SetUp
  <2>4. (q = 4 => value = PIC2_VECTOR_OFFSET) /\ (q = 10 => value = firmware["slave"])
    BY <1>7, <1>11
  <2> HIDE DEF q
  <2>2. /\ new \in Chip /\ new.isr = pics["slave"].isr
        /\ SetUpChip(new, firmware["slave"], PIC2_VECTOR_OFFSET, q + 1)
    <3> DEFINE chip == pics["slave"]
               old  == firmware["slave"]
               base == PIC2_VECTOR_OFFSET
    <3>1. WordDue(chip, value, old, base, q) /\ new = WriteData(chip, value)
      BY <1>4, <1>6, <1>8, <2>0, <2>1, <2>4, Zenon DEF WordDue
    <3> HIDE DEF new, chip, old, base
    <3>2. WordDone(new, chip, old, base, q)
      BY <3>1, DataWord
    <3> QED
      BY <3>2, Zenon DEF WordDone, chip, old, base
  <2>3. pics' = [pics EXCEPT !["slave"] = new]
    BY <1>4, <1>9, <1>11 DEF Chips
  <2> HIDE DEF new
  <2>5. SetUpChip(new, firmware["slave"], PIC2_VECTOR_OFFSET, pc)
    BY <2>0, <2>2
  <2> QED
    <3>1. new \in Chip /\ new.isr = {}
      BY <1>4, <2>2
    <3>2. /\ pc \in 2..11 /\ pc = MainPc /\ at = Main(pc) /\ at' = Main(pc + 1) /\ SetUp(pc)
          /\ pc \in {3, 5, 7, 9, 11}
      BY <1>2, <1>5, <1>11
    <3> QED
      BY <1>1, <2>3, <2>5, <3>1, <3>2, PicWrite
<1> QED
  BY <1>3, <1>10, <1>11

LEMMA StepOutPic ==
    ASSUME InterruptsInv, OutPic PROVE InterruptsInv'
<1>1. UNCHANGED <<interrupts_enabled, pit, masks, idt_loaded, interrupt_handlers>>
  BY DEF OutPic
<1>2. CASE Executes("icw1") /\ pics' = [pics EXCEPT ![Instruction.chip] = Icw1(@)]
  BY <1>1, <1>2, StepIcw1
<1>3. CASE /\ Executes("data")
           /\ pics' = [pics EXCEPT ![Instruction.chip] = WriteData(@, Instruction.value)]
  <2> DEFINE op == "data"
  <2>1. /\ op \in {"data", "restore"} /\ Executes(op)
        /\ pics' = [pics EXCEPT ![Instruction.chip] =
                        WriteData(@, IF op = "data" THEN Instruction.value
                                                    ELSE masks[Instruction.chip])]
    BY <1>3
  <2> HIDE DEF op
  <2> QED
    BY <1>1, <2>1, StepDataWord
<1>4. CASE /\ Executes("restore")
           /\ pics' = [pics EXCEPT ![Instruction.chip] = WriteData(@, masks[Instruction.chip])]
  <2> DEFINE op == "restore"
  <2>1. /\ op \in {"data", "restore"} /\ Executes(op)
        /\ pics' = [pics EXCEPT ![Instruction.chip] =
                        WriteData(@, IF op = "data" THEN Instruction.value
                                                    ELSE masks[Instruction.chip])]
    BY <1>4
  <2> HIDE DEF op
  <2> QED
    BY <1>1, <2>1, StepDataWord
<1> QED
  BY <1>2, <1>3, <1>4 DEF OutPic

(* The instructions of main that leave the controllers alone.              *)
LEMMA StepBesides ==
    ASSUME InterruptsInv, InMain, NEW pc \in 12..18, pc = MainPc, SetUp(pc),
           at = Main(pc), at' = Main(pc + 1),
           UNCHANGED <<stack, running, nmi_blocked, in_interrupt_context, tick,
                       raises, nmis, firmware, pics, masks>>,
           idt_loaded' <=> pc + 1 >= Sti, interrupts_enabled' <=> pc + 1 > Sti,
           idt_loaded' \in BOOLEAN, interrupts_enabled' \in BOOLEAN,
           pit' \in Timer, interrupt_handlers' \subseteq 0..47
    PROVE  InterruptsInv'
<1>1. /\ pics' \in [Chips -> Chip] /\ Cascade \notin pics'["master"].irr /\ NoService'
  BY DEF InMain, NoService, InterruptsInv, Typed
<1>2. masks' = firmware /\ masks' \in [Chips -> SUBSET Lines]
  BY DEF SetUp, InterruptsInv, TypeOK
<1>3. pc \in 1..18 /\ (pc = 1 \/ pc >= 12)
  OBVIOUS
<1>4. SetUp(pc + 1)'
  BY <1>2, <1>3, ElsewhereInMain
<1> QED
  BY <1>1, <1>2, <1>3, <1>4, MainStep

LEMMA FlagInMain ==
    ASSUME InterruptsInv, InMain, NEW pc \in 12..18, pc = MainPc, SetUp(pc)
    PROVE  /\ (interrupts_enabled <=> pc > Sti) /\ (idt_loaded <=> pc >= Sti)
           /\ interrupts_enabled \in BOOLEAN /\ idt_loaded \in BOOLEAN
           /\ pit \in Timer /\ interrupt_handlers \subseteq 0..47
<1>1. interrupts_enabled \in BOOLEAN /\ idt_loaded \in BOOLEAN
  BY DEF InterruptsInv, TypeOK
<1> QED
  BY <1>1 DEF InMain, SetUp, InterruptsInv, TypeOK, Typed

LEMMA StepLoadIdt ==
    ASSUME InterruptsInv, LoadIdt PROVE InterruptsInv'
<1>1. /\ Executes("lidt") /\ idt_loaded' = TRUE
      /\ UNCHANGED <<interrupts_enabled, pics, pit, masks, interrupt_handlers>>
  BY DEF LoadIdt
<1>2. /\ InMain
      /\ UNCHANGED <<stack, running, nmi_blocked, in_interrupt_context, tick,
                     raises, nmis, firmware>>
  BY <1>1, Executing
<1>3. PICK pc \in 1..18 :
         /\ pc = MainPc /\ MainCode[pc].op = "lidt"
         /\ at = Main(pc) /\ at' = Main(pc + 1) /\ SetUp(pc)
  BY <1>1, Executing
<1>4. pc = 12 /\ pc \in 12..18
  BY <1>3, TheInstructions
<1>5. /\ (idt_loaded' <=> pc + 1 >= Sti) /\ (interrupts_enabled' <=> pc + 1 > Sti)
      /\ idt_loaded' \in BOOLEAN /\ interrupts_enabled' \in BOOLEAN
  <2>1. interrupts_enabled \in BOOLEAN /\ (interrupts_enabled <=> pc > Sti)
    BY <1>2, <1>3, <1>4, FlagInMain
  <2> QED
    BY <1>1, <1>4, <2>1 DEF Sti
<1> QED
  BY <1>1, <1>2, <1>3, <1>4, <1>5, StepBesides, FlagInMain

LEMMA StepEnableInterrupts ==
    ASSUME InterruptsInv, EnableInterrupts PROVE InterruptsInv'
<1>1. /\ Executes("sti") /\ interrupts_enabled' = TRUE
      /\ UNCHANGED <<pics, pit, masks, idt_loaded, interrupt_handlers>>
  BY DEF EnableInterrupts
<1>2. /\ InMain
      /\ UNCHANGED <<stack, running, nmi_blocked, in_interrupt_context, tick,
                     raises, nmis, firmware>>
  BY <1>1, Executing
<1>3. PICK pc \in 1..18 :
         /\ pc = MainPc /\ MainCode[pc].op = "sti"
         /\ at = Main(pc) /\ at' = Main(pc + 1) /\ SetUp(pc)
  BY <1>1, Executing
<1>4. pc = 13 /\ pc \in 12..18
  BY <1>3, TheInstructions
<1>5. /\ (idt_loaded' <=> pc + 1 >= Sti) /\ (interrupts_enabled' <=> pc + 1 > Sti)
      /\ idt_loaded' \in BOOLEAN /\ interrupts_enabled' \in BOOLEAN
  <2>1. idt_loaded \in BOOLEAN /\ (idt_loaded <=> pc >= Sti)
    BY <1>2, <1>3, <1>4, FlagInMain
  <2> QED
    BY <1>1, <1>4, <2>1 DEF Sti
<1> QED
  BY <1>1, <1>2, <1>3, <1>4, <1>5, StepBesides, FlagInMain

LEMMA StepRegister ==
    ASSUME InterruptsInv, RegisterInterruptHandler PROVE InterruptsInv'
<1>1. /\ Executes("register")
      /\ interrupt_handlers' = interrupt_handlers \cup {Instruction.vector}
      /\ UNCHANGED <<interrupts_enabled, pics, pit, masks, idt_loaded>>
  BY DEF RegisterInterruptHandler
<1>2. /\ InMain
      /\ UNCHANGED <<stack, running, nmi_blocked, in_interrupt_context, tick,
                     raises, nmis, firmware>>
  BY <1>1, Executing
<1>3. PICK pc \in 1..18 :
         /\ pc = MainPc /\ MainCode[pc].op = "register" /\ Instruction = MainCode[pc]
         /\ at = Main(pc) /\ at' = Main(pc + 1) /\ SetUp(pc)
  BY <1>1, Executing
<1>4. pc \in {14, 18} /\ pc \in 12..18 /\ Instruction.vector \in 0..47
  BY <1>3, TheInstructions
<1>5. /\ (idt_loaded' <=> pc + 1 >= Sti) /\ (interrupts_enabled' <=> pc + 1 > Sti)
      /\ idt_loaded' \in BOOLEAN /\ interrupts_enabled' \in BOOLEAN
      /\ pit' \in Timer /\ interrupt_handlers' \subseteq 0..47
  <2>1. /\ interrupts_enabled \in BOOLEAN /\ idt_loaded \in BOOLEAN
        /\ (interrupts_enabled <=> pc > Sti) /\ (idt_loaded <=> pc >= Sti)
        /\ pit \in Timer /\ interrupt_handlers \subseteq 0..47
    BY <1>2, <1>3, <1>4, FlagInMain
  <2>2. interrupt_handlers' \subseteq 0..47
    BY <1>1, <1>4, <2>1
  <2>3. pc > Sti /\ pc + 1 > Sti /\ pc >= Sti /\ pc + 1 >= Sti
    BY <1>4 DEF Sti
  <2> QED
    BY <1>1, <2>1, <2>2, <2>3, Zenon
<1>6. UNCHANGED <<pics, masks>>
  BY <1>1
<1> QED
  BY <1>2, <1>3, <1>4, <1>5, <1>6, StepBesides

LEMMA StepInitTimer ==
    ASSUME InterruptsInv, InitTimer PROVE InterruptsInv'
<1>1. UNCHANGED <<interrupts_enabled, pics, masks, idt_loaded, interrupt_handlers>>
  BY DEF InitTimer
<1>2. PICK op \in {"pit_command", "pit_low", "pit_high"} : Executes(op)
  BY DEF InitTimer
<1>3. pit' \in Timer
  <2>1. Divisor \in Nat
    <3>1. Frequency \in Nat \ {0} /\ PIT_FREQ_BASE \in Nat
      BY Parameters, SMT DEF PIT_FREQ_BASE
    <3> QED
      BY <3>1, SMT DEF Divisor
  <2>2. \A n \in Nat : LowByte(n) \in 0..255
    BY SMT DEF LowByte
  <2>3. Divisor \div 256 \in Nat
    BY <2>1, SMT
  <2>4. pit \in Timer
    BY DEF InterruptsInv, Typed
  <2>5. \/ pit' = [pit EXCEPT !.mode = "bcd"]
        \/ pit' = [pit EXCEPT !.low = LowByte(Divisor)]
        \/ pit' = [pit EXCEPT !.high = LowByte(Divisor \div 256)]
    BY DEF InitTimer
  <2>6. LowByte(Divisor) \in 0..255 /\ LowByte(Divisor \div 256) \in 0..255
    BY <2>1, <2>2, <2>3
  <2> QED
    BY <2>4, <2>5, <2>6 DEF Timer
<1>4. /\ InMain
      /\ UNCHANGED <<stack, running, nmi_blocked, in_interrupt_context, tick,
                     raises, nmis, firmware>>
  BY <1>2, Executing
<1>5. PICK pc \in 1..18 :
         /\ pc = MainPc /\ MainCode[pc].op = op
         /\ at = Main(pc) /\ at' = Main(pc + 1) /\ SetUp(pc)
  BY <1>2, Executing
<1>6. pc \in 15..17 /\ pc \in 12..18
  BY <1>2, <1>5, TheInstructions
<1>7. /\ (idt_loaded' <=> pc + 1 >= Sti) /\ (interrupts_enabled' <=> pc + 1 > Sti)
      /\ idt_loaded' \in BOOLEAN /\ interrupts_enabled' \in BOOLEAN
  <2>1. /\ interrupts_enabled \in BOOLEAN /\ idt_loaded \in BOOLEAN
        /\ (interrupts_enabled <=> pc > Sti) /\ (idt_loaded <=> pc >= Sti)
    BY <1>4, <1>5, <1>6, FlagInMain
  <2> QED
    BY <1>1, <1>6, <2>1 DEF Sti
<1> QED
  BY <1>1, <1>3, <1>4, <1>5, <1>6, <1>7, StepBesides, FlagInMain

----------------------------------------------------------------------------
(* Steps that keep main where it is *)

LEMMA KeptSetUp ==
    ASSUME NEW pc, SetUp(pc), Untouched(pics, pics'), UNCHANGED <<masks, firmware, idt_loaded>>
    PROVE  SetUp(pc)'
<1>1. \A c \in {"master", "slave"} : /\ pics'[c].imr = pics[c].imr
                                     /\ pics'[c].base = pics[c].base
                                     /\ pics'[c].icw = pics[c].icw
  BY DEF Untouched, Chips
<1> QED
  BY <1>1 DEF SetUp, SetUpChip

LEMMA Settled ==
    ASSUME InterruptsInv, MainPc' = MainPc, Untouched(pics, pics'),
           UNCHANGED <<pit, masks, idt_loaded, interrupt_handlers, firmware>>,
           at' \in Places, stack' \in Seq(Words),
           interrupts_enabled' \in BOOLEAN, nmi_blocked' \in BOOLEAN,
           running' \in {"on", "halted"},
           in_interrupt_context' \in BOOLEAN, tick' \in Nat,
           raises' \in [Devices -> 0..MaxRaises], nmis' \in 0..MaxNmi,
           (InMain \/ InHandler)'
    PROVE  InterruptsInv'
<1>1. PICK pc \in 1..Loop : pc = MainPc /\ SetUp(pc)
  BY DEF InterruptsInv
<1>2. SetUp(pc)'
  BY <1>1, KeptSetUp
<1>3. MainPc' \in 1..Loop /\ SetUp(MainPc)'
  BY <1>1, <1>2
<1>4. Typed'
  BY DEF Typed, Untouched, InterruptsInv
<1>5. \A c \in Chips : /\ (pics'[c].irr \cup pics'[c].isr) \cup pics'[c].imr \subseteq Lines
                       /\ pics'[c].base \in 0..255 /\ pics'[c].icw \in {0, 2, 3, 4}
  BY <1>4, ChipParts DEF Typed
<1>6. TypeOK'
  BY <1>5 DEF TypeOK, InterruptsInv
<1>7. NeverReset'
  BY DEF NeverReset
<1> QED
  BY <1>3, <1>4, <1>6, <1>7 DEF InterruptsInv

LEMMA SameControllers == InterruptsInv => Untouched(pics, pics)
  BY DEF InterruptsInv, Typed, Untouched

(* A handler has at least its own frame on the stack. *)
LEMMA FrameOnStack ==
    ASSUME InHandler
    PROVE  Len(stack) \in {5, 6, 11, 12} /\ stack # << >>
<1>1. Len(stack) \in {5, 6, 11, 12}
  BY DEF InHandler, Alone, UnderNmi
<1>2. stack = << >> => Len(stack) = 0
  OBVIOUS
<1> QED
  BY <1>1, <1>2

LEMMA HandlerPlace ==
    ASSUME NEW flow \in {"isr", "irq"}, NEW place \in HandlerPlaces
    PROVE  <<flow, place>> \in Places
  BY DEF Places, HandlerPlaces

LEMMA InAHandler ==
    ASSUME InterruptsInv, NEW flow \in {"isr", "irq"}, NEW p, at = <<flow, p>>
    PROVE  InHandler /\ p \in HandlerPlaces
<1>1. at # Main(MainPc)
  BY DEF Main
<1>2. InHandler
  BY <1>1 DEF InterruptsInv, InMain
<1> QED
  BY <1>2 DEF InHandler, Alone, Isr, Irq

LEMMA HandlerStep ==
    ASSUME InterruptsInv, NEW flow \in {"isr", "irq"}, NEW p, NEW q \in HandlerPlaces,
           at = <<flow, p>>, at' = <<flow, q>>,
           UNCHANGED <<stack, pit, masks, idt_loaded, interrupt_handlers, nmi_blocked,
                       raises, nmis, firmware>>,
           interrupts_enabled' = FALSE, running' \in {"on", "halted"},
           in_interrupt_context' \in BOOLEAN, tick' \in Nat,
           Untouched(pics, pics'), flow = "isr" => pics' = pics,
           flow = "irq" => ServiceFits(stack[4][2], q)'
    PROVE  InterruptsInv'
<1>1. InHandler /\ p \in HandlerPlaces
  BY InAHandler
<1>2. MainPc' = MainPc
  <2>1. stack # << >> /\ stack' = stack
    BY <1>1, FrameOnStack
  <2> QED
    BY <2>1 DEF MainPc
<1>3. InHandler'
  <2>1. CASE \E place \in HandlerPlaces : Alone(place)
    <3>1. CASE flow = "isr"
      <4>1. Len(stack) = 6 /\ OnException
        BY <2>1, <3>1 DEF Alone, Irq
      <4>2. OnException'
        BY <1>2, <3>1, <4>1 DEF OnException, ExceptionFrame, NoService
      <4>3. Alone(q)'
        BY <3>1, <4>1, <4>2 DEF Alone, Isr
      <4> QED
        BY <4>3 DEF InHandler
    <3>2. CASE flow = "irq"
      <4>1. Len(stack) = 5 /\ MainPc > Sti /\ DeviceFrame(stack, Main(MainPc))
        BY <2>1, <3>2 DEF Alone, Isr, OnDevice
      <4>2. OnDevice(q)'
        BY <1>2, <3>2, <4>1 DEF OnDevice, DeviceFrame
      <4>3. Alone(q)'
        BY <3>2, <4>1, <4>2 DEF Alone, Irq
      <4> QED
        BY <4>3 DEF InHandler
    <3> QED
      BY <3>1, <3>2
  <2>2. CASE \E place, top \in HandlerPlaces : UnderNmi(place) /\ at = Isr(top) /\ nmi_blocked
    <3>1. PICK place \in HandlerPlaces : UnderNmi(place)
      BY <2>2
    <3>2. flow = "isr" /\ nmi_blocked
      BY <2>2 DEF Isr
    <3>3. UnderNmi(place)'
      <4>1. OnException => OnException'
        BY <1>2, <3>2 DEF OnException, ExceptionFrame, NoService
      <4>2. OnDevice(place) => OnDevice(place)'
        BY <1>2, <3>2 DEF OnDevice, DeviceFrame, ServiceFits
      <4> QED
        BY <3>1, <4>1, <4>2 DEF UnderNmi, ExceptionFrame
    <3> QED
      BY <3>2, <3>3 DEF InHandler, Isr
  <2> QED
    BY <1>1, <2>1, <2>2 DEF InHandler
<1>4. at' \in Places
  BY HandlerPlace
<1>5. /\ stack' \in Seq(Words) /\ nmi_blocked' \in BOOLEAN
      /\ raises' \in [Devices -> 0..MaxRaises] /\ nmis' \in 0..MaxNmi
  BY DEF InterruptsInv, TypeOK
<1>6. interrupts_enabled' \in BOOLEAN
  OBVIOUS
<1> QED
  BY <1>2, <1>3, <1>4, <1>5, <1>6, Settled

----------------------------------------------------------------------------
(* The two common handlers *)

LEMMA InAnIrqHandler ==
    ASSUME InterruptsInv, NEW p, at = <<"irq", p>>
    PROVE  /\ p \in HandlerPlaces /\ Len(stack) = 5 /\ OnDevice(p)
           /\ IntNo = stack[4][2] /\ IntNo \in 32..47
<1>1. InHandler /\ p \in HandlerPlaces
  BY InAHandler
<1>2. Len(stack) = 5 /\ OnDevice(p)
  BY <1>1 DEF InHandler, Alone, Isr, Irq
<1>3. IntNo = stack[4][2]
  BY <1>2 DEF IntNo, Word
<1> QED
  BY <1>1, <1>2, <1>3 DEF OnDevice, DeviceFrame

(* A step of a handler that leaves the controllers alone. *)
LEMMA PlainStep ==
    ASSUME InterruptsInv, NEW flow \in {"isr", "irq"}, NEW p, NEW q \in HandlerPlaces,
           Handler(flow, p, q), pics' = pics,
           interrupts_enabled' = interrupts_enabled \/ interrupts_enabled' = FALSE,
           running' = running \/ running' = "halted",
           in_interrupt_context' \in BOOLEAN, tick' \in Nat,
           flow = "irq" => (ServiceFits(IntNo, p) => ServiceFits(IntNo, q))
    PROVE  InterruptsInv'
<1>1. /\ at = <<flow, p>> /\ at' = <<flow, q>> /\ running = "on"
      /\ UNCHANGED <<stack, pit, masks, idt_loaded, interrupt_handlers, nmi_blocked,
                     raises, nmis, firmware>>
  BY DEF Handler, CpuRuns
<1>2. InHandler /\ p \in HandlerPlaces
  BY <1>1, InAHandler
<1>3. interrupts_enabled' = FALSE
  BY <1>2 DEF InHandler, InterruptsInv, TypeOK
<1>4. running' \in {"on", "halted"}
  BY <1>1
<1>5. Untouched(pics, pics')
  BY SameControllers
<1>6. ASSUME flow = "irq" PROVE ServiceFits(stack[4][2], q)'
  <2>1. OnDevice(p) /\ IntNo = stack[4][2]
    BY <1>1, <1>6, InAnIrqHandler
  <2>2. ServiceFits(stack[4][2], q)
    BY <1>6, <2>1 DEF OnDevice
  <2> QED
    BY <1>1, <2>2 DEF ServiceFits
<1> QED
  BY <1>1, <1>3, <1>4, <1>5, <1>6, HandlerStep

(* After the EOI the place does not matter: nothing is in service.         *)
LEMMA NothingOwed ==
    ASSUME NEW v, NEW p \in {"call", "panic", "clear_flag", "return"}, NEW q, ServiceFits(v, p)
    PROVE  ServiceFits(v, q)
  BY DEF ServiceFits

LEMMA StepSetFlag ==
    ASSUME InterruptsInv, SetFlag PROVE InterruptsInv'
<1>1. /\ pics' = pics /\ in_interrupt_context' \in BOOLEAN /\ tick' \in Nat
      /\ running' = running /\ interrupts_enabled' = interrupts_enabled
  BY DEF SetFlag, InterruptsInv, TypeOK
<1>2. CASE Handler("isr", "set_flag", "call")
  <2> DEFINE flow == "isr"
             p    == "set_flag"
             q    == "call"
  <2>1. /\ flow \in {"isr", "irq"} /\ q \in HandlerPlaces /\ Handler(flow, p, q)
        /\ flow # "irq"
    BY <1>2 DEF HandlerPlaces
  <2> HIDE DEF flow, p, q
  <2> QED
    BY <1>1, <2>1, PlainStep
<1>3. CASE Handler("irq", "set_flag", FirstEoi(IntNo - 32))
  <2> DEFINE flow == "irq"
             p    == "set_flag"
             q    == FirstEoi(IntNo - 32)
  <2>1. /\ flow \in {"isr", "irq"} /\ q \in HandlerPlaces /\ Handler(flow, p, q)
    BY <1>3 DEF HandlerPlaces, FirstEoi
  <2>2. at = <<"irq", "set_flag">>
    BY <1>3 DEF Handler
  <2>3. IntNo \in 32..47
    BY <2>2, InAnIrqHandler
  <2>4. IntNo >= 40 => q = "eoi_slave"
    BY <2>3 DEF FirstEoi
  <2>5. q \in {"eoi_slave", "eoi_master"}
    BY DEF FirstEoi
  <2> HIDE DEF q
  <2>6. ServiceFits(IntNo, p) => ServiceFits(IntNo, q)
    BY <2>4, <2>5 DEF ServiceFits
  <2> HIDE DEF flow, p
  <2> QED
    BY <1>1, <2>1, <2>6, PlainStep
<1> QED
  BY <1>2, <1>3 DEF SetFlag

LEMMA StepPicSendEoi ==
    ASSUME InterruptsInv, PicSendEoi PROVE InterruptsInv'
<1>1. /\ in_interrupt_context' \in BOOLEAN /\ tick' \in Nat
      /\ running' = running /\ interrupts_enabled' = interrupts_enabled
  BY DEF PicSendEoi, InterruptsInv, TypeOK
<1>2. /\ pics \in [Chips -> Chip] /\ pics["master"] \in Chip /\ pics["slave"] \in Chip
      /\ Cascade \notin pics["master"].irr
  BY DEF InterruptsInv, Typed, Chips
<1>3. ASSUME NEW p, NEW q \in HandlerPlaces, Handler("irq", p, q), Untouched(pics, pics'),
             ServiceFits(IntNo, p) => ServiceFits(stack[4][2], q)'
      PROVE  InterruptsInv'
  <2> DEFINE flow == "irq"
  <2>1. /\ flow \in {"isr", "irq"} /\ flow # "isr" /\ at = <<flow, p>> /\ at' = <<flow, q>>
        /\ running' \in {"on", "halted"}
        /\ UNCHANGED <<stack, pit, masks, idt_loaded, interrupt_handlers, nmi_blocked,
                       raises, nmis, firmware>>
    BY <1>1, <1>3 DEF Handler, CpuRuns
  <2>2. OnDevice(p) /\ IntNo = stack[4][2]
    BY <2>1, InAnIrqHandler
  <2>3. ServiceFits(stack[4][2], q)'
    BY <1>3, <2>2 DEF OnDevice
  <2>4. interrupts_enabled' = FALSE
    BY <1>1, <2>1, InAHandler DEF InHandler, InterruptsInv, TypeOK
  <2> HIDE DEF flow
  <2> QED
    BY <1>1, <1>3, <2>1, <2>3, <2>4, HandlerStep
<1>4. ASSUME NEW p, Handler("irq", p, AfterEoi(p)) PROVE stack' = stack /\ IntNo = stack[4][2] /\ OnDevice(p)
  BY <1>4, InAnIrqHandler DEF Handler
<1>5. CASE /\ Handler("irq", "eoi_slave", AfterEoi("eoi_slave"))
           /\ pics' = [pics EXCEPT !["slave"] = EndOfInterrupt(@)]
  <2> DEFINE new == EndOfInterrupt(pics["slave"])
  <2>1. stack' = stack /\ IntNo = stack[4][2] /\ OnDevice("eoi_slave")
    BY <1>4, <1>5
  <2>2. PICK l \in Lines : pics["slave"].isr \subseteq {l}
    BY <2>1 DEF OnDevice, ServiceFits
  <2>3. /\ new \in Chip /\ new.isr = {} /\ new.imr = pics["slave"].imr
        /\ new.base = pics["slave"].base /\ new.icw = pics["slave"].icw
    BY <1>2, <2>2, EoiFits
  <2>4. pics' = [pics EXCEPT !["slave"] = new]
    BY <1>2, <1>5 DEF Chips
  <2> HIDE DEF new
  <2>5. /\ pics' \in [Chips -> Chip] /\ pics'["slave"] = new /\ pics'["master"] = pics["master"]
    BY <1>2, <2>3, <2>4 DEF Chips
  <2>6. Untouched(pics, pics')
    BY <1>2, <2>3, <2>5 DEF Untouched, Chips
  <2>7. Handler("irq", "eoi_slave", "eoi_master") /\ "eoi_master" \in HandlerPlaces
    BY <1>5 DEF AfterEoi, HandlerPlaces
  <2>8. ServiceFits(IntNo, "eoi_slave") => ServiceFits(stack[4][2], "eoi_master")'
    BY <2>2, <2>3, <2>5 DEF ServiceFits
  <2> QED
    BY <1>3, <2>6, <2>7, <2>8
<1>6. CASE /\ Handler("irq", "eoi_master", AfterEoi("eoi_master"))
           /\ pics' = [pics EXCEPT !["master"] = EndOfInterrupt(@)]
  <2> DEFINE new == EndOfInterrupt(pics["master"])
  <2>1. stack' = stack /\ IntNo = stack[4][2] /\ OnDevice("eoi_master")
    BY <1>4, <1>6
  <2>2. PICK l \in Lines : pics["master"].isr \subseteq {l}
    BY <2>1 DEF OnDevice, ServiceFits
  <2>3. /\ new \in Chip /\ new.isr = {} /\ new.imr = pics["master"].imr
        /\ new.irr = pics["master"].irr
        /\ new.base = pics["master"].base /\ new.icw = pics["master"].icw
    BY <1>2, <2>2, EoiFits
  <2>4. pics' = [pics EXCEPT !["master"] = new]
    BY <1>2, <1>6 DEF Chips
  <2> HIDE DEF new
  <2>5. /\ pics' \in [Chips -> Chip] /\ pics'["master"] = new /\ pics'["slave"] = pics["slave"]
    BY <1>2, <2>3, <2>4 DEF Chips
  <2>6. Untouched(pics, pics')
    BY <1>2, <2>3, <2>5 DEF Untouched, Chips
  <2>7. Handler("irq", "eoi_master", "call") /\ "call" \in HandlerPlaces
    BY <1>6 DEF AfterEoi, HandlerPlaces
  <2>8. ServiceFits(IntNo, "eoi_master") => ServiceFits(stack[4][2], "call")'
    BY <2>2, <2>3, <2>5 DEF ServiceFits
  <2> QED
    BY <1>3, <2>6, <2>7, <2>8
<1> QED
  BY <1>5, <1>6 DEF PicSendEoi

LEMMA StepCallHandler ==
    ASSUME InterruptsInv, CallHandler PROVE InterruptsInv'
<1>1. /\ pics' = pics /\ in_interrupt_context' \in BOOLEAN /\ tick' \in Nat
      /\ running' = running /\ interrupts_enabled' = interrupts_enabled
  BY DEF CallHandler, InterruptsInv, TypeOK
<1>2. PICK flow \in {"isr", "irq"} : Handler(flow, "call", "clear_flag")
  BY DEF CallHandler
<1>3. "clear_flag" \in HandlerPlaces
  BY DEF HandlerPlaces
<1>4. ServiceFits(IntNo, "call") => ServiceFits(IntNo, "clear_flag")
  BY NothingOwed
<1> QED
  BY <1>1, <1>2, <1>3, <1>4, PlainStep

LEMMA StepStopOnCritical ==
    ASSUME InterruptsInv, StopOnCritical PROVE InterruptsInv'
<1> DEFINE flow == "isr"
<1>1. /\ pics' = pics /\ in_interrupt_context' \in BOOLEAN /\ tick' \in Nat
      /\ running' = "halted" /\ interrupts_enabled' = FALSE
  BY DEF StopOnCritical, InterruptsInv, TypeOK
<1>2. Handler(flow, "call", "clear_flag") /\ flow \in {"isr", "irq"} /\ flow # "irq"
  BY DEF StopOnCritical
<1>3. "clear_flag" \in HandlerPlaces
  BY DEF HandlerPlaces
<1> HIDE DEF flow
<1> QED
  BY <1>1, <1>2, <1>3, PlainStep

LEMMA StepPageFaultPanics ==
    ASSUME InterruptsInv, PageFaultPanics PROVE InterruptsInv'
<1> DEFINE flow == "isr"
<1>1. /\ pics' = pics /\ in_interrupt_context' \in BOOLEAN /\ tick' \in Nat
      /\ running' = running /\ interrupts_enabled' = FALSE
  BY DEF PageFaultPanics, InterruptsInv, TypeOK
<1>2. Handler(flow, "call", "panic") /\ flow \in {"isr", "irq"} /\ flow # "irq"
  BY DEF PageFaultPanics
<1>3. "panic" \in HandlerPlaces
  BY DEF HandlerPlaces
<1> HIDE DEF flow
<1> QED
  BY <1>1, <1>2, <1>3, PlainStep

LEMMA StepPanicHalts ==
    ASSUME InterruptsInv, PanicHalts PROVE InterruptsInv'
<1> DEFINE flow == "isr"
<1>1. /\ pics' = pics /\ in_interrupt_context' \in BOOLEAN /\ tick' \in Nat
      /\ running' = "halted" /\ interrupts_enabled' = interrupts_enabled
  BY DEF PanicHalts, InterruptsInv, TypeOK
<1>2. Handler(flow, "panic", "panic") /\ flow \in {"isr", "irq"} /\ flow # "irq"
  BY DEF PanicHalts, HltInLoop
<1>3. "panic" \in HandlerPlaces
  BY DEF HandlerPlaces
<1> HIDE DEF flow
<1> QED
  BY <1>1, <1>2, <1>3, PlainStep

LEMMA StepClearFlag ==
    ASSUME InterruptsInv, ClearFlag PROVE InterruptsInv'
<1>1. /\ pics' = pics /\ in_interrupt_context' \in BOOLEAN /\ tick' \in Nat
      /\ running' = running /\ interrupts_enabled' = interrupts_enabled
  BY DEF ClearFlag, InterruptsInv, TypeOK
<1>2. PICK flow \in {"isr", "irq"} : Handler(flow, "clear_flag", "return")
  BY DEF ClearFlag
<1>3. "return" \in HandlerPlaces
  BY DEF HandlerPlaces
<1>4. ServiceFits(IntNo, "clear_flag") => ServiceFits(IntNo, "return")
  BY NothingOwed
<1> QED
  BY <1>1, <1>2, <1>3, <1>4, PlainStep

----------------------------------------------------------------------------
(* Interrupts, exceptions and NMIs *)

LEMMA EmptyBelow ==
    ASSUME NEW f \in Seq(Words)
    PROVE  << >> \o f = f
  BY ConcatEmptySeq

(* An exception on top of main. *)
LEMMA ExceptionOnMain ==
    ASSUME InterruptsInv, InMain, idt_loaded, NEW vector \in Exceptions \cup {INT_NMI},
           stack' = stack \o FrameFor(vector, at), pics' = pics, at' = Isr("set_flag")
    PROVE  /\ stack' \in Seq(Words) /\ MainPc' = MainPc
           /\ Alone("set_flag")'
<1>1. vector \in 0..31
  BY Parameters DEF INT_NMI
<1>2. PICK pc \in 1..Loop : pc = MainPc /\ SetUp(pc)
  BY DEF InterruptsInv
<1>3. /\ stack = << >> /\ at = Main(pc) /\ pc >= Sti
      /\ interrupts_enabled \in BOOLEAN /\ (interrupts_enabled <=> pc > Sti)
      /\ at \in Places
  BY <1>2 DEF InMain, SetUp, InterruptsInv, TypeOK
<1> DEFINE f == FrameFor(vector, at)
<1>4. /\ f \in Seq(Words) /\ Len(f) = 6
      /\ f[1] = <<"eflags", interrupts_enabled>> /\ f[2] = <<"cs", 8>>
      /\ f[3] = <<"eip", at>> /\ f[4][1] = "err"
      /\ f[5] = <<"int_no", vector>> /\ f[6] = <<"regs", 0>>
  BY <1>1, <1>3, ExceptionPushes
<1>5. stack' = f
  <2>1. stack' = << >> \o f
    BY <1>3
  <2> HIDE DEF f
  <2> QED
    BY <1>4, <2>1, EmptyBelow
<1> HIDE DEF f
<1>6. stack' # << >>
  BY <1>4, <1>5
<1>7. MainPc' = pc
  <2>1. stack'[3][2] = at
    <3>1. stack'[3] = <<"eip", at>>
      BY <1>4, <1>5
    <3> QED
      BY <3>1
  <2>2. Pc(at) = pc
    BY <1>3 DEF Pc, Main
  <2> QED
    BY <1>6, <2>1, <2>2 DEF MainPc, Pc
<1>8. OnException'
  <2>1. interrupts_enabled = (pc > Sti)
    BY <1>3
  <2>2. /\ f[1] = <<"eflags", pc > Sti>> /\ f[3] = <<"eip", Main(pc)>>
    BY <1>3, <1>4, <2>1
  <2>3. f[5][1] = "int_no" /\ f[5][2] \in Exceptions \cup {INT_NMI}
    BY <1>4
  <2>4. ExceptionFrame(f, 0, Exceptions \cup {INT_NMI}, pc > Sti, Main(pc))
    BY <1>4, <2>2, <2>3 DEF ExceptionFrame
  <2>5. NoService'
    BY DEF InMain, NoService
  <2>6. ExceptionFrame(f, 0, Exceptions \cup {INT_NMI}, MainPc' > Sti, Main(MainPc'))
    BY <1>7, <2>4
  <2>7. MainPc' >= Sti
    BY <1>3, <1>7
  <2>8. ExceptionFrame(stack, 0, Exceptions \cup {INT_NMI}, MainPc > Sti, Main(MainPc))'
    BY <1>5, <2>6 DEF ExceptionFrame, Main, Sti
  <2> QED
    BY <2>5, <2>7, <2>8 DEF OnException, Sti
<1> QED
  BY <1>2, <1>4, <1>5, <1>7, <1>8 DEF Alone

(* An exception or an NMI interrupts main. *)
LEMMA StepExceptionOnMain ==
    ASSUME InterruptsInv, InMain, idt_loaded, NEW vector \in Exceptions \cup {INT_NMI},
           stack' = stack \o FrameFor(vector, at), pics' = pics, at' = Isr("set_flag"),
           interrupts_enabled' = FALSE, running' \in {"on", "halted"},
           nmi_blocked' \in BOOLEAN, nmis' \in 0..MaxNmi,
           UNCHANGED <<pit, kernelVars, raises, firmware>>
    PROVE  InterruptsInv'
<1>1. stack' \in Seq(Words) /\ MainPc' = MainPc /\ Alone("set_flag")'
  BY ExceptionOnMain
<1>2. InHandler'
  BY <1>1 DEF InHandler, HandlerPlaces
<1>3. at' \in Places
  BY DEF Isr, Places
<1>4. Untouched(pics, pics')
  BY SameControllers
<1>5. /\ UNCHANGED <<pit, masks, idt_loaded, interrupt_handlers, firmware>>
      /\ in_interrupt_context' \in BOOLEAN /\ tick' \in Nat
      /\ raises' \in [Devices -> 0..MaxRaises] /\ interrupts_enabled' \in BOOLEAN
  BY DEF kernelVars, InterruptsInv, TypeOK
<1> QED
  BY <1>1, <1>2, <1>3, <1>4, <1>5, Settled

LEMMA StepRaise ==
    ASSUME InterruptsInv, NEW vector \in Exceptions, Raise(vector) PROVE InterruptsInv'
<1>1. /\ Flow(at) = "main" /\ idt_loaded /\ Deliver(vector, at) /\ running = "on"
      /\ UNCHANGED <<nmi_blocked, pics, pit, kernelVars, raises, nmis, firmware>>
  BY DEF Raise, CpuRuns
<1>2. vector \in 0..31 /\ vector \in 0..47
  BY Parameters
<1>3. InMain
  BY <1>1, PlacesOfMain
<1>4. HasGate(vector) /\ FlagAfter(vector) = FALSE /\ Idt(vector).stub = <<"isr", vector>>
  <2>1. vector < 32
    BY <1>2
  <2> QED
    BY <1>2, <2>1, TheGates
<1>5. /\ stack' = stack \o FrameFor(vector, at) /\ interrupts_enabled' = FALSE
      /\ at' = << Idt(vector).stub[1], "set_flag" >> /\ running' = running
  BY <1>1, <1>4 DEF Deliver
<1>6. at' = Isr("set_flag")
  BY <1>4, <1>5 DEF Isr
<1>7. nmi_blocked' \in BOOLEAN /\ nmis' \in 0..MaxNmi
  BY <1>1 DEF InterruptsInv, TypeOK
<1> QED
  BY <1>1, <1>3, <1>5, <1>6, <1>7, StepExceptionOnMain

(* An interrupt of a device: it comes in main, with its flag set.          *)
LEMMA InterruptOnMain ==
    ASSUME InterruptsInv, running = "on", Interruptible
    PROVE  /\ InMain /\ idt_loaded /\ MainPc > Sti /\ MasterEligible(pics) # {}
           /\ interrupts_enabled = TRUE
           /\ pics \in [Chips -> Chip] /\ Cascade \notin pics["master"].irr
           /\ pics["master"].isr = {} /\ pics["slave"].isr = {}
           /\ pics["master"].base = 32 /\ pics["slave"].base = 40
<1>1. interrupts_enabled = TRUE /\ MasterEligible(pics) # {}
  BY DEF Interruptible, InterruptsInv, TypeOK
<1>2. InMain
  BY <1>1 DEF InterruptsInv, InHandler
<1>3. MainPc > Sti
  BY <1>1, <1>2 DEF InMain
<1>4. PICK pc \in 1..19 : pc = MainPc /\ SetUp(pc)
  BY TheCode DEF InterruptsInv
<1>5. pc > 13 /\ pc - 1 >= 5 /\ pc >= 5 /\ pc >= 13
  BY <1>3, <1>4 DEF Sti
<1>6. idt_loaded
  BY <1>4, <1>5 DEF SetUp, Sti
<1>7. pics["master"].base = 32 /\ pics["slave"].base = 40
  <2>1. /\ SetUpChip(pics["master"], firmware["master"], PIC1_VECTOR_OFFSET, pc)
        /\ SetUpChip(pics["slave"], firmware["slave"], PIC2_VECTOR_OFFSET, pc - 1)
    BY <1>4 DEF SetUp
  <2> QED
    BY <1>5, <2>1 DEF SetUpChip, PIC1_VECTOR_OFFSET, PIC2_VECTOR_OFFSET
<1> QED
  BY <1>1, <1>2, <1>3, <1>6, <1>7 DEF InterruptsInv, Typed, InMain, NoService

LEMMA StepInterrupt ==
    ASSUME InterruptsInv, running = "on", Interruptible, NEW vector,
           Untouched(pics, pics'), InServiceFor(vector, pics'), Deliver(vector, at),
           UNCHANGED <<nmi_blocked, pit, kernelVars, raises, nmis, firmware>>
    PROVE  InterruptsInv'
<1>1. InMain /\ idt_loaded /\ MainPc > Sti /\ interrupts_enabled = TRUE
  BY InterruptOnMain
<1>2. vector \in 32..47 /\ vector \in 0..47 /\ ~ vector < 32
  BY DEF InServiceFor
<1>3. HasGate(vector) /\ FlagAfter(vector) = FALSE /\ Idt(vector).stub = <<"irq", vector - 32>>
  BY <1>2, TheGates
<1> DEFINE f == FrameFor(vector, at)
<1>4. /\ stack' = stack \o f /\ interrupts_enabled' = FALSE
      /\ at' = << Idt(vector).stub[1], "set_flag" >> /\ running' = running
  BY <1>1, <1>3 DEF Deliver
<1>5. at' = Irq("set_flag")
  BY <1>3, <1>4 DEF Irq
<1>6. /\ at \in Places /\ stack = << >> /\ at = Main(MainPc)
  BY <1>1 DEF InMain, InterruptsInv, TypeOK
<1>7. /\ f \in Seq(Words) /\ Len(f) = 5
      /\ f[1] = <<"eflags", TRUE>> /\ f[2] = <<"cs", 8>>
      /\ f[3] = <<"eip", at>>
      /\ f[4] = <<"int_no", vector>> /\ f[5] = <<"regs", 0>>
  BY <1>1, <1>2, <1>6, DevicePushes
<1> HIDE DEF f
<1>8. stack' = f
  BY <1>4, <1>6, <1>7, EmptyBelow
<1>9. stack' # << >>
  BY <1>7, <1>8
<1>10. MainPc' = MainPc
  <2>1. stack'[3][2] = at /\ Pc(at) = MainPc
    BY <1>6, <1>7, <1>8 DEF Pc, Main
  <2> QED
    BY <1>9, <2>1 DEF MainPc, Pc
<1>11. OnDevice("set_flag")'
  <2>1. DeviceFrame(stack, Main(MainPc))'
    <3>1. f[4][1] = "int_no" /\ f[4][2] \in 32..47
      BY <1>2, <1>7
    <3>2. DeviceFrame(f, at)
      BY <1>7, <3>1, Zenon DEF DeviceFrame
    <3>3. DeviceFrame(stack', Main(MainPc'))
      BY <1>6, <1>8, <1>10, <3>2
    <3> QED
      BY <3>3 DEF DeviceFrame, Main
  <2>2. stack'[4][2] = vector
    BY <1>7, <1>8
  <2>3. ServiceFits(stack[4][2], "set_flag")'
    BY <2>2 DEF ServiceFits, InServiceFor
  <2>4. (MainPc > Sti)'
    BY <1>1, <1>10 DEF Sti
  <2> QED
    BY <2>1, <2>3, <2>4 DEF OnDevice
<1>12. InHandler'
  BY <1>4, <1>5, <1>7, <1>8, <1>11 DEF InHandler, Alone, HandlerPlaces
<1>13. at' \in Places
  BY <1>5 DEF Irq, Places
<1>14. /\ UNCHANGED <<pit, masks, idt_loaded, interrupt_handlers, firmware>>
       /\ in_interrupt_context' \in BOOLEAN /\ tick' \in Nat
       /\ raises' \in [Devices -> 0..MaxRaises] /\ interrupts_enabled' \in BOOLEAN
       /\ nmi_blocked' \in BOOLEAN /\ nmis' \in 0..MaxNmi /\ running' \in {"on", "halted"}
       /\ stack' \in Seq(Words)
  BY <1>4, <1>7, <1>8 DEF kernelVars, InterruptsInv, TypeOK
<1> QED
  BY <1>10, <1>12, <1>13, <1>14, Settled

LEMMA StepHardwareInterrupt ==
    ASSUME InterruptsInv, HardwareInterrupt PROVE InterruptsInv'
<1>1. /\ running = "on" /\ Interruptible /\ Deliver(AcknowledgedVector(pics), at)
      /\ pics' = Acknowledge(pics)
      /\ UNCHANGED <<nmi_blocked, pit, kernelVars, raises, nmis, firmware>>
  BY DEF HardwareInterrupt
<1>2. /\ Untouched(pics, Acknowledge(pics))
      /\ InServiceFor(AcknowledgedVector(pics), Acknowledge(pics))
  BY <1>1, InterruptOnMain, AcknowledgeFits
<1> QED
  BY <1>1, <1>2, StepInterrupt

LEMMA StepSpuriousInterrupt ==
    ASSUME InterruptsInv, SpuriousInterrupt PROVE InterruptsInv'
<1>1. /\ running = "on" /\ Interruptible /\ Deliver(SpuriousVector(pics), at)
      /\ pics' = Withdraw(pics)
      /\ UNCHANGED <<nmi_blocked, pit, kernelVars, raises, nmis, firmware>>
  BY DEF SpuriousInterrupt
<1>2. /\ Untouched(pics, Withdraw(pics))
      /\ InServiceFor(SpuriousVector(pics), Withdraw(pics))
  BY <1>1, InterruptOnMain, WithdrawFits
<1> QED
  BY <1>1, <1>2, StepInterrupt

LEMMA NmiOnHandler ==
    ASSUME InterruptsInv, InHandler, NEW place \in HandlerPlaces, Alone(place),
           stack' = stack \o FrameFor(INT_NMI, at), pics' = pics
    PROVE  /\ stack' \in Seq(Words) /\ MainPc' = MainPc
           /\ UnderNmi(place)'
<1>1. /\ stack \in Seq(Words) /\ at \in Places
      /\ interrupts_enabled \in BOOLEAN /\ interrupts_enabled = FALSE
  BY DEF InterruptsInv, TypeOK, InHandler
<1> DEFINE f == FrameFor(INT_NMI, at)
<1>2. /\ f \in Seq(Words) /\ Len(f) = 6
      /\ f[1] = <<"eflags", FALSE>> /\ f[2] = <<"cs", 8>>
      /\ f[3] = <<"eip", at>> /\ f[4][1] = "err"
      /\ f[5] = <<"int_no", INT_NMI>> /\ f[6] = <<"regs", 0>>
  <2>1. INT_NMI \in 0..31
    BY DEF INT_NMI
  <2> QED
    BY <1>1, <2>1, ExceptionPushes
<1>3. stack' = stack \o f
  OBVIOUS
<1> HIDE DEF f
<1>4. Joined(stack', stack, f, Words)
  BY <1>1, <1>2, <1>3, Concatenation
<1>5. stack # << >> /\ Len(stack) \in {5, 6}
  BY FrameOnStack DEF Alone
<1> DEFINE b == Len(stack)
           t == stack'
<1>11. t = stack' /\ b = Len(stack) /\ b \in {5, 6} /\ Joined(t, stack, f, Words)
  BY <1>4, <1>5
<1> HIDE DEF t, b
<1>12. /\ t \in Seq(Words) /\ Len(t) = b + 6
       /\ \A i \in 1..(b + 6) : t[i] = IF i <= b THEN stack[i] ELSE f[i - b]
  BY <1>2, <1>11 DEF Joined
<1>6. /\ t \in Seq(Words) /\ Len(t) = b + 6
      /\ \A i \in 1..b : t[i] = stack[i]
      /\ \A i \in 1..6 : t[b + i] = f[i]
  <2>1. ASSUME NEW i \in 1..b PROVE t[i] = stack[i]
    BY <1>11, <1>12, <2>1
  <2>2. ASSUME NEW i \in 1..6 PROVE t[b + i] = f[i]
    <3>1. b + i \in 1..(b + 6) /\ ~ b + i <= b /\ (b + i) - b = i
      BY <1>11, <2>2
    <3> QED
      BY <1>12, <3>1
  <2> QED
    BY <1>12, <2>1, <2>2
<1>7. ExceptionFrame(t, b, {INT_NMI}, FALSE, at)
  <2>1. f[5][1] = "int_no" /\ f[5][2] \in {INT_NMI}
    BY <1>2
  <2>2. /\ t[b + 1] = f[1] /\ t[b + 2] = f[2] /\ t[b + 3] = f[3]
        /\ t[b + 4] = f[4] /\ t[b + 5] = f[5] /\ t[b + 6] = f[6]
    BY <1>6
  <2> QED
    BY <1>2, <2>1, <2>2, Zenon DEF ExceptionFrame
<1>8. MainPc' = MainPc
  <2>1. t # << >> /\ t[3] = stack[3]
    BY <1>6, <1>11
  <2> QED
    BY <1>5, <1>11, <2>1 DEF MainPc
<1>9. CASE at = Isr(place) /\ Len(stack) = 6 /\ OnException
  <2>1. \A i \in 1..6 : t[i] = stack[i]
    BY <1>6, <1>9, <1>11
  <2>2. ExceptionFrame(t, 0, Exceptions \cup {INT_NMI}, MainPc > Sti, Main(MainPc))
    BY <1>9, <2>1 DEF OnException, ExceptionFrame
  <2>3. ExceptionFrame(stack, 0, Exceptions \cup {INT_NMI}, MainPc > Sti, Main(MainPc))'
    BY <1>8, <1>11, <2>2 DEF ExceptionFrame, Main, Sti
  <2>4. OnException'
    BY <1>8, <1>9, <2>3 DEF OnException, Sti, NoService
  <2>7. b = 6 /\ Len(t) = 12
    BY <1>9, <1>11, <1>12
  <2>5. ExceptionFrame(t, 6, {INT_NMI}, FALSE, Isr(place))
    BY <1>7, <1>9, <2>7, Zenon
  <2>6. ExceptionFrame(stack, 6, {INT_NMI}, FALSE, Isr(place))'
    BY <1>11, <2>5 DEF ExceptionFrame
  <2> QED
    BY <1>6, <1>8, <1>11, <2>4, <2>6, <2>7 DEF UnderNmi
<1>10. CASE at = Irq(place) /\ Len(stack) = 5 /\ OnDevice(place)
  <2>1. \A i \in 1..5 : t[i] = stack[i]
    BY <1>6, <1>10, <1>11
  <2>2. DeviceFrame(t, Main(MainPc))
    <3>1. t[1] = stack[1] /\ t[2] = stack[2] /\ t[3] = stack[3] /\ t[4] = stack[4] /\ t[5] = stack[5]
      BY <2>1
    <3> QED
      BY <1>10, <3>1, Zenon DEF OnDevice, DeviceFrame
  <2>3. DeviceFrame(stack, Main(MainPc))'
    BY <1>8, <1>11, <2>2 DEF DeviceFrame, Main
  <2>4. ServiceFits(stack[4][2], place)'
    <3>1. t[4] = stack[4]
      BY <2>1
    <3> QED
      BY <1>10, <1>11, <3>1 DEF OnDevice, ServiceFits
  <2>5. OnDevice(place)'
    BY <1>8, <1>10, <2>3, <2>4 DEF OnDevice, Sti
  <2>8. b = 5 /\ Len(t) = 11
    BY <1>10, <1>11, <1>12
  <2>6. ExceptionFrame(t, 5, {INT_NMI}, FALSE, Irq(place))
    BY <1>7, <1>10, <2>8, Zenon
  <2>7. ExceptionFrame(stack, 5, {INT_NMI}, FALSE, Irq(place))'
    BY <1>11, <2>6 DEF ExceptionFrame
  <2> QED
    BY <1>6, <1>8, <1>11, <2>5, <2>7, <2>8 DEF UnderNmi
<1> QED
  BY <1>9, <1>10 DEF Alone

LEMMA StepNonMaskableInterrupt ==
    ASSUME InterruptsInv, NonMaskableInterrupt PROVE InterruptsInv'
<1>1. /\ idt_loaded /\ nmis < MaxNmi /\ ~ nmi_blocked
      /\ stack' = stack \o FrameFor(INT_NMI, at)
      /\ interrupts_enabled' = FALSE /\ at' = Isr("set_flag") /\ running' = "on"
      /\ nmi_blocked' = TRUE /\ nmis' = nmis + 1
      /\ UNCHANGED <<pics, pit, kernelVars, raises, firmware>>
  BY DEF NonMaskableInterrupt
<1>2. nmis' \in 0..MaxNmi /\ nmi_blocked' \in BOOLEAN
  BY <1>1, Parameters DEF InterruptsInv, TypeOK
<1>3. CASE InMain
  <2> DEFINE vector == INT_NMI
  <2>1. vector \in Exceptions \cup {INT_NMI} /\ stack' = stack \o FrameFor(vector, at)
    BY <1>1
  <2> HIDE DEF vector
  <2> QED
    BY <1>1, <1>2, <1>3, <2>1, StepExceptionOnMain
<1>4. CASE InHandler
  <2>1. PICK place \in HandlerPlaces : Alone(place)
    BY <1>1, <1>4 DEF InHandler
  <2>2. stack' \in Seq(Words) /\ MainPc' = MainPc /\ UnderNmi(place)'
    BY <1>1, <1>4, <2>1, NmiOnHandler
  <2>3. InHandler'
    <3>1. "set_flag" \in HandlerPlaces
      BY DEF HandlerPlaces
    <3> QED
      BY <1>1, <2>2, <3>1 DEF InHandler, Isr
  <2>4. Untouched(pics, pics') /\ at' \in Places
    BY <1>1, SameControllers DEF Isr, Places
  <2>5. /\ UNCHANGED <<pit, masks, idt_loaded, interrupt_handlers, firmware>>
        /\ in_interrupt_context' \in BOOLEAN /\ tick' \in Nat
        /\ raises' \in [Devices -> 0..MaxRaises] /\ interrupts_enabled' \in BOOLEAN
        /\ running' \in {"on", "halted"}
    BY <1>1 DEF kernelVars, InterruptsInv, TypeOK
  <2> QED
    BY <1>2, <2>2, <2>3, <2>4, <2>5, Settled
<1> QED
  BY <1>3, <1>4 DEF InterruptsInv

----------------------------------------------------------------------------
(* Steps that the code does not see *)

LEMMA QuietStep ==
    ASSUME InterruptsInv, UNCHANGED <<at, stack, interrupts_enabled, nmi_blocked>>,
           \A c \in Chips : pics'[c].isr = pics[c].isr
    PROVE  MainPc' = MainPc /\ (InMain \/ InHandler)'
<1>1. MainPc' = MainPc
  BY DEF MainPc
<1>2. pics'["master"].isr = pics["master"].isr /\ pics'["slave"].isr = pics["slave"].isr
  BY DEF Chips
<1>3. NoService => NoService'
  BY <1>2 DEF NoService
<1>4. InMain => InMain'
  BY <1>1, <1>3 DEF InMain
<1>5. OnException => OnException'
  BY <1>1, <1>3 DEF OnException, ExceptionFrame
<1>6. ASSUME NEW place PROVE OnDevice(place) => OnDevice(place)'
  BY <1>1, <1>2 DEF OnDevice, DeviceFrame, ServiceFits
<1>7. ASSUME NEW place PROVE (Alone(place) => Alone(place)') /\ (UnderNmi(place) => UnderNmi(place)')
  BY <1>5, <1>6 DEF Alone, UnderNmi, ExceptionFrame
<1>8. InHandler => InHandler'
  BY <1>7 DEF InHandler
<1> QED
  BY <1>1, <1>4, <1>8 DEF InterruptsInv

LEMMA StepRaiseLine ==
    ASSUME InterruptsInv, NEW d \in Devices, RaiseLine(d) PROVE InterruptsInv'
<1>1. /\ raises[d] < MaxRaises /\ raises' = [raises EXCEPT ![d] = @ + 1]
      /\ UNCHANGED <<at, stack, interrupts_enabled, running, nmi_blocked, pit, masks, idt_loaded,
                     interrupt_handlers, in_interrupt_context, tick, nmis, firmware>>
  BY DEF RaiseLine, cpuVars, kernelVars
<1>2. d \in 0..15 /\ d # Cascade /\ MaxRaises \in Nat
  BY Parameters
<1>3. raises' \in [Devices -> 0..MaxRaises]
  BY <1>1, <1>2 DEF InterruptsInv, TypeOK
<1>4. /\ pics \in [Chips -> Chip] /\ pics["master"] \in Chip /\ pics["slave"] \in Chip
      /\ Cascade \notin pics["master"].irr
  BY DEF InterruptsInv, Typed, Chips
<1>5. Untouched(pics, pics') /\ \A c \in Chips : pics'[c].isr = pics[c].isr
  <2>1. CASE d < 8
    <3> DEFINE new == [pics["master"] EXCEPT !.irr = @ \cup {d}]
    <3>1. pics' = [pics EXCEPT !["master"] = new]
      BY <1>4, <2>1 DEF RaiseLine, Chips
    <3>2. /\ new \in Chip /\ Cascade \notin new.irr /\ new.isr = pics["master"].isr
          /\ new.imr = pics["master"].imr /\ new.base = pics["master"].base
          /\ new.icw = pics["master"].icw
      BY <1>2, <1>4, <2>1 DEF Chip, Lines
    <3> HIDE DEF new
    <3> QED
      BY <1>4, <3>1, <3>2 DEF Untouched, Chips
  <2>2. CASE ~ d < 8
    <3> DEFINE l   == d - 8
               new == [pics["slave"] EXCEPT !.irr = @ \cup {l}]
    <3>1. pics' = [pics EXCEPT !["slave"] = new]
      BY <1>4, <2>2 DEF RaiseLine, Chips
    <3>2. l \in 0..7
      BY <1>2, <2>2
    <3> HIDE DEF l
    <3>3. /\ new \in Chip /\ new.isr = pics["slave"].isr
          /\ new.imr = pics["slave"].imr /\ new.base = pics["slave"].base
          /\ new.icw = pics["slave"].icw
      BY <1>4, <3>2 DEF Chip, Lines
    <3> HIDE DEF new
    <3> QED
      BY <1>4, <3>1, <3>3 DEF Untouched, Chips
  <2> QED
    BY <2>1, <2>2
<1>6. MainPc' = MainPc /\ (InMain \/ InHandler)'
  BY <1>1, <1>5, QuietStep
<1>7. /\ at' \in Places /\ stack' \in Seq(Words)
      /\ interrupts_enabled' \in BOOLEAN /\ nmi_blocked' \in BOOLEAN
      /\ running' \in {"on", "halted"}
      /\ in_interrupt_context' \in BOOLEAN /\ tick' \in Nat /\ nmis' \in 0..MaxNmi
  BY <1>1 DEF InterruptsInv, TypeOK, NeverReset
<1> QED
  BY <1>1, <1>3, <1>5, <1>6, <1>7, Settled

LEMMA StepIdle ==
    ASSUME InterruptsInv, UNCHANGED vars PROVE InterruptsInv'
<1>1. UNCHANGED <<at, stack, interrupts_enabled, running, nmi_blocked, pics, pit, masks,
                  idt_loaded, interrupt_handlers, in_interrupt_context, tick,
                  raises, nmis, firmware>>
  BY DEF vars
<1>2. Untouched(pics, pics') /\ \A c \in Chips : pics'[c].isr = pics[c].isr
  BY <1>1, SameControllers
<1>3. MainPc' = MainPc /\ (InMain \/ InHandler)'
  BY <1>1, <1>2, QuietStep
<1>4. /\ at' \in Places /\ stack' \in Seq(Words)
      /\ interrupts_enabled' \in BOOLEAN /\ nmi_blocked' \in BOOLEAN
      /\ running' \in {"on", "halted"}
      /\ in_interrupt_context' \in BOOLEAN /\ tick' \in Nat /\ nmis' \in 0..MaxNmi
      /\ raises' \in [Devices -> 0..MaxRaises]
  BY <1>1 DEF InterruptsInv, TypeOK, NeverReset
<1> QED
  BY <1>1, <1>2, <1>3, <1>4, Settled

----------------------------------------------------------------------------
(* The way back *)

LEMMA Cut ==
    ASSUME NEW s \in Seq(Words), NEW n \in 3..Len(s)
    PROVE  LET below == SubSeq(s, 1, n)
               rest  == SubSeq(below, 1, n - 3)
           IN  /\ below[n] = s[n] /\ below[n - 1] = s[n - 1] /\ below[n - 2] = s[n - 2]
               /\ rest \in Seq(Words) /\ Len(rest) = n - 3
               /\ \A i \in 1..(n - 3) : rest[i] = s[i]
<1> DEFINE below == SubSeq(s, 1, n)
           rest  == SubSeq(below, 1, n - 3)
<1>1. /\ below \in Seq(Words) /\ Len(below) = n
      /\ \A i \in 1..n : below[i] = s[i]
  <2>1. n \in 1..Len(s) /\ 1 <= n /\ 1 \in 1..(n + 1)
    OBVIOUS
  <2>2. below \in Seq(Words)
    BY SubSeqProperties
  <2>3. Len(below) = n /\ \A i \in 1..n : below[i] = s[i]
    BY SubSeqProperties
  <2> QED
    BY <2>2, <2>3
<1> HIDE DEF below
<1>2. /\ rest \in Seq(Words) /\ Len(rest) = n - 3
      /\ \A i \in 1..(n - 3) : rest[i] = below[i]
  <2>1. n - 3 \in 0..Len(below)
    BY <1>1
  <2>2. rest \in Seq(Words) /\ Len(rest) = n - 3
    BY <1>1, <2>1, SubSeqProperties
  <2>3. \A i \in 1..(n - 3) : rest[i] = below[i]
    BY <1>1, <2>1, SubSeqProperties
  <2> QED
    BY <2>2, <2>3
<1> HIDE DEF rest
<1>3. /\ below[n] = s[n] /\ below[n - 1] = s[n - 1] /\ below[n - 2] = s[n - 2]
      /\ rest \in Seq(Words) /\ Len(rest) = n - 3
      /\ \A i \in 1..(n - 3) : rest[i] = s[i]
  BY <1>1, <1>2
<1> QED
  BY <1>3 DEF below, rest

(* The stub pops what it pushed, and the CPU the three words it pushed. *)
LEMMA ReturnsTo ==
    ASSUME InterruptsInv, Return, NEW b \in Nat, NEW flag, NEW place,
           Len(stack) = b + 4 + PoppedWords(Flow(at)),
           stack[b + 1] = <<"eflags", flag>>, stack[b + 2] = <<"cs", 8>>,
           stack[b + 3] = <<"eip", place>>
    PROVE  /\ at' = place /\ interrupts_enabled' = flag /\ nmi_blocked' = FALSE
           /\ running' = "on" /\ stack' \in Seq(Words) /\ Len(stack') = b
           /\ \A i \in 1..b : stack'[i] = stack[i]
<1> DEFINE n     == Len(stack) - 1 - PoppedWords(Flow(at))
           below == SubSeq(stack, 1, n)
           rest  == SubSeq(below, 1, n - 3)
<1>1. PoppedWords(Flow(at)) \in {1, 2}
  BY DEF PoppedWords
<1>2. n = b + 3 /\ n \in 3..Len(stack) /\ n >= 3 /\ n - 1 = b + 2 /\ n - 2 = b + 1 /\ n - 3 = b
  BY <1>1
<1>3. stack \in Seq(Words) /\ running = "on"
  BY DEF InterruptsInv, TypeOK, Return, CpuRuns
<1>4. IF n >= 3 /\ below[n][1] = "eip" /\ below[n - 1][1] = "cs" /\ below[n - 2][1] = "eflags"
      THEN /\ at' = below[n][2] /\ interrupts_enabled' = below[n - 2][2]
           /\ stack' = rest
           /\ nmi_blocked' = FALSE
           /\ UNCHANGED running
      ELSE running' = "reset" /\ UNCHANGED <<at, interrupts_enabled, stack, nmi_blocked>>
  BY Zenon DEF Return
<1> HIDE DEF n
<1>5. /\ below[n] = stack[n] /\ below[n - 1] = stack[n - 1] /\ below[n - 2] = stack[n - 2]
      /\ rest \in Seq(Words) /\ Len(rest) = n - 3
      /\ \A i \in 1..(n - 3) : rest[i] = stack[i]
  BY <1>2, <1>3, Cut
<1> HIDE DEF below, rest
<1>6. /\ below[n] = <<"eip", place>> /\ below[n - 1] = <<"cs", 8>>
      /\ below[n - 2] = <<"eflags", flag>>
  BY <1>2, <1>5, Zenon
<1>7. below[n][1] = "eip" /\ below[n][2] = place
  BY <1>6
<1>8. below[n - 1][1] = "cs"
  BY <1>6
<1>9. below[n - 2][1] = "eflags" /\ below[n - 2][2] = flag
  BY <1>6
<1>10. /\ at' = place /\ interrupts_enabled' = flag /\ nmi_blocked' = FALSE
       /\ running' = running /\ stack' = rest
  BY <1>2, <1>4, <1>7, <1>8, <1>9, Zenon
<1> QED
  BY <1>2, <1>3, <1>5, <1>10

(* The last handler returns to main. *)
LEMMA ReturnToMain ==
    ASSUME InterruptsInv, Return, Alone("return")
    PROVE  MainPc' = MainPc /\ InMain' /\ stack' \in Seq(Words) /\ running' = "on"
           /\ nmi_blocked' = FALSE /\ interrupts_enabled' \in BOOLEAN
<1>1. pics' = pics
  BY DEF Return
<1> DEFINE pc == MainPc
           flag == pc > Sti
<1>2. /\ stack[1] = <<"eflags", flag>> /\ stack[2] = <<"cs", 8>> /\ stack[3] = <<"eip", Main(pc)>>
      /\ Len(stack) = 4 + PoppedWords(Flow(at)) /\ NoService
  <2>1. CASE at = Isr("return") /\ Len(stack) = 6 /\ OnException
    <3>1. PoppedWords(Flow(at)) = 2
      BY <2>1 DEF PoppedWords, Flow, Isr
    <3>2. ExceptionFrame(stack, 0, Exceptions \cup {INT_NMI}, flag, Main(pc)) /\ NoService
      BY <2>1 DEF OnException
    <3> HIDE DEF pc, flag
    <3>3. stack[0 + 1] = <<"eflags", flag>> /\ stack[0 + 2] = <<"cs", 8>> /\ stack[0 + 3] = <<"eip", Main(pc)>>
      BY <3>2, Zenon DEF ExceptionFrame
    <3>4. 0 + 1 = 1 /\ 0 + 2 = 2 /\ 0 + 3 = 3 /\ 4 + 2 = 6
      OBVIOUS
    <3> QED
      BY <2>1, <3>1, <3>2, <3>3, <3>4, Zenon
  <2>2. CASE at = Irq("return") /\ Len(stack) = 5 /\ OnDevice("return")
    <3>1. PoppedWords(Flow(at)) = 1
      BY <2>2 DEF PoppedWords, Flow, Irq
    <3>2. /\ DeviceFrame(stack, Main(pc)) /\ flag = TRUE /\ ServiceFits(stack[4][2], "return")
      BY <2>2 DEF OnDevice
    <3>3. NoService
      BY <3>2 DEF ServiceFits, NoService
    <3> HIDE DEF pc, flag
    <3>4. stack[1] = <<"eflags", flag>> /\ stack[2] = <<"cs", 8>> /\ stack[3] = <<"eip", Main(pc)>>
      BY <3>2, Zenon DEF DeviceFrame
    <3>5. Len(stack) = 4 + PoppedWords(Flow(at))
      BY <2>2, <3>1
    <3> QED
      BY <3>3, <3>4, <3>5
  <2> QED
    BY <2>1, <2>2 DEF Alone
<1>3. /\ at' = Main(pc) /\ interrupts_enabled' = flag /\ nmi_blocked' = FALSE
      /\ running' = "on" /\ stack' \in Seq(Words) /\ Len(stack') = 0
  <2> DEFINE b == 0
  <2>1. /\ b \in Nat /\ Len(stack) = b + 4 + PoppedWords(Flow(at)) /\ b = 0
        /\ stack[b + 1] = <<"eflags", flag>> /\ stack[b + 2] = <<"cs", 8>>
        /\ stack[b + 3] = <<"eip", Main(pc)>>
    <3>1. PoppedWords(Flow(at)) \in {1, 2}
      BY DEF PoppedWords
    <3>2. b + 1 = 1 /\ b + 2 = 2 /\ b + 3 = 3 /\ b \in Nat
      OBVIOUS
    <3>3. Len(stack) = b + 4 + PoppedWords(Flow(at))
      BY <1>2, <3>1
    <3> HIDE DEF b, pc, flag
    <3>4. b = 0
      BY DEF b
    <3> QED
      BY <1>2, <3>2, <3>3, <3>4, Zenon
  <2> DEFINE place == Main(pc)
  <2>2. stack[b + 3] = <<"eip", place>>
    BY <2>1
  <2> HIDE DEF b, pc, flag, place
  <2>3. /\ at' = place /\ interrupts_enabled' = flag /\ nmi_blocked' = FALSE
        /\ running' = "on" /\ stack' \in Seq(Words) /\ Len(stack') = b
    BY <2>1, <2>2, ReturnsTo
  <2> QED
    BY <2>1, <2>3 DEF place
<1>4. stack' = << >>
  BY <1>3, EmptySeq
<1>5. MainPc' = pc
  BY <1>3, <1>4 DEF MainPc, Main, Pc
<1>6. InMain'
  <2>1. at' = Main(MainPc')
    BY <1>3, <1>5
  <2>2. NoService'
    BY <1>1, <1>2 DEF NoService
  <2>3. interrupts_enabled' <=> MainPc' > Sti
    BY <1>3, <1>5
  <2> QED
    BY <1>4, <2>1, <2>2, <2>3 DEF InMain, Main, Sti
<1>7. interrupts_enabled' \in BOOLEAN
  BY <1>3
<1> QED
  BY <1>3, <1>5, <1>6, <1>7

(* The handler of an NMI returns to the handler under it. *)
LEMMA ReturnToHandler ==
    ASSUME InterruptsInv, Return, NEW place \in HandlerPlaces, UnderNmi(place), at = Isr("return")
    PROVE  MainPc' = MainPc /\ Alone(place)' /\ stack' \in Seq(Words) /\ running' = "on"
           /\ nmi_blocked' = FALSE /\ interrupts_enabled' = FALSE /\ at' \in Places
<1>1. pics' = pics
  BY DEF Return
<1>2. PoppedWords(Flow(at)) = 2
  BY DEF PoppedWords, Flow, Isr
<1>3. ASSUME NEW b \in {5, 6}, Len(stack) = b + 6, NEW base,
             ExceptionFrame(stack, b, {INT_NMI}, FALSE, base)
      PROVE  /\ at' = base /\ interrupts_enabled' = FALSE /\ nmi_blocked' = FALSE
             /\ running' = "on" /\ stack' \in Seq(Words) /\ Len(stack') = b
             /\ \A i \in 1..b : stack'[i] = stack[i]
             /\ MainPc' = MainPc
  <2> DEFINE flag == FALSE
  <2>1. /\ stack[b + 1] = <<"eflags", flag>> /\ stack[b + 2] = <<"cs", 8>>
        /\ stack[b + 3] = <<"eip", base>>
    BY <1>3, Zenon DEF ExceptionFrame
  <2>2. b \in Nat /\ Len(stack) = b + 4 + PoppedWords(Flow(at))
    BY <1>2, <1>3
  <2> HIDE DEF flag
  <2>3. /\ at' = base /\ interrupts_enabled' = flag /\ nmi_blocked' = FALSE
        /\ running' = "on" /\ stack' \in Seq(Words) /\ Len(stack') = b
        /\ \A i \in 1..b : stack'[i] = stack[i]
    BY <2>1, <2>2, ReturnsTo
  <2>4. MainPc' = MainPc
    <3>1. stack # << >> /\ stack' # << >> /\ stack'[3] = stack[3]
      BY <1>3, <2>3
    <3> QED
      BY <3>1 DEF MainPc
  <2> QED
    BY <2>3, <2>4 DEF flag
<1>4. CASE /\ Len(stack) = 12 /\ OnException
           /\ ExceptionFrame(stack, 6, {INT_NMI}, FALSE, Isr(place))
  <2> DEFINE b == 6
  <2>9. ExceptionFrame(stack, b, {INT_NMI}, FALSE, Isr(place))
    BY <1>4, Zenon
  <2>10. b \in {5, 6} /\ Len(stack) = b + 6
    BY <1>4
  <2> HIDE DEF b
  <2>1. b \in {5, 6} /\ Len(stack) = b + 6 /\ ExceptionFrame(stack, b, {INT_NMI}, FALSE, Isr(place))
    BY <2>9, <2>10
  <2>2. /\ at' = Isr(place) /\ interrupts_enabled' = FALSE /\ nmi_blocked' = FALSE
        /\ running' = "on" /\ stack' \in Seq(Words) /\ Len(stack') = b
        /\ \A i \in 1..b : stack'[i] = stack[i]
        /\ MainPc' = MainPc
    BY <1>3, <2>1
  <2>3. b = 6
    BY DEF b
  <2>4. ExceptionFrame(stack', 0, Exceptions \cup {INT_NMI}, MainPc > Sti, Main(MainPc))
    BY <1>4, <2>2, <2>3 DEF OnException, ExceptionFrame
  <2>5. ExceptionFrame(stack, 0, Exceptions \cup {INT_NMI}, MainPc > Sti, Main(MainPc))'
    BY <2>2, <2>4 DEF ExceptionFrame, Main, Sti
  <2>6. OnException'
    BY <1>1, <1>4, <2>2, <2>5 DEF OnException, NoService, Sti
  <2>7. at' \in Places
    BY <2>2, HandlerPlace DEF Isr
  <2> QED
    BY <2>2, <2>3, <2>6, <2>7 DEF Alone, Isr
<1>5. CASE /\ Len(stack) = 11 /\ OnDevice(place)
           /\ ExceptionFrame(stack, 5, {INT_NMI}, FALSE, Irq(place))
  <2> DEFINE b == 5
  <2>9. ExceptionFrame(stack, b, {INT_NMI}, FALSE, Irq(place))
    BY <1>5, Zenon
  <2>10. b \in {5, 6} /\ Len(stack) = b + 6
    BY <1>5
  <2> HIDE DEF b
  <2>1. b \in {5, 6} /\ Len(stack) = b + 6 /\ ExceptionFrame(stack, b, {INT_NMI}, FALSE, Irq(place))
    BY <2>9, <2>10
  <2>2. /\ at' = Irq(place) /\ interrupts_enabled' = FALSE /\ nmi_blocked' = FALSE
        /\ running' = "on" /\ stack' \in Seq(Words) /\ Len(stack') = b
        /\ \A i \in 1..b : stack'[i] = stack[i]
        /\ MainPc' = MainPc
    BY <1>3, <2>1
  <2>3. b = 5
    BY DEF b
  <2>8. /\ stack'[1] = stack[1] /\ stack'[2] = stack[2] /\ stack'[3] = stack[3]
        /\ stack'[4] = stack[4] /\ stack'[5] = stack[5]
    BY <2>2, <2>3
  <2>4. DeviceFrame(stack', Main(MainPc))
    BY <1>5, <2>8, Zenon DEF OnDevice, DeviceFrame
  <2>5. DeviceFrame(stack, Main(MainPc))'
    BY <2>2, <2>4 DEF DeviceFrame, Main
  <2>6. OnDevice(place)'
    BY <1>1, <1>5, <2>2, <2>5, <2>8 DEF OnDevice, ServiceFits, Sti
  <2>7. at' \in Places
    BY <2>2, HandlerPlace DEF Irq
  <2> QED
    BY <2>2, <2>3, <2>6, <2>7 DEF Alone, Irq
<1> QED
  BY <1>4, <1>5 DEF UnderNmi

LEMMA StepReturn ==
    ASSUME InterruptsInv, Return PROVE InterruptsInv'
<1>1. /\ Flow(at) # "main" /\ Pc(at) = "return"
      /\ UNCHANGED <<pics, pit, kernelVars, raises, nmis, firmware>>
  BY DEF Return
<1>2. InHandler
  BY <1>1 DEF InterruptsInv, InMain, Main, Flow
<1>3. /\ UNCHANGED <<pit, masks, idt_loaded, interrupt_handlers, firmware>>
      /\ in_interrupt_context' \in BOOLEAN /\ tick' \in Nat /\ nmis' \in 0..MaxNmi
      /\ raises' \in [Devices -> 0..MaxRaises] /\ Untouched(pics, pics')
  BY <1>1, SameControllers DEF kernelVars, InterruptsInv, TypeOK
<1>4. CASE \E place \in HandlerPlaces : Alone(place)
  <2>1. PICK place \in HandlerPlaces : Alone(place)
    BY <1>4
  <2>2. place = "return"
    BY <1>1, <2>1 DEF Alone, Isr, Irq, Pc
  <2>3. /\ MainPc' = MainPc /\ InMain' /\ stack' \in Seq(Words) /\ running' = "on"
        /\ nmi_blocked' = FALSE
    BY <2>1, <2>2, ReturnToMain
  <2>4. MainPc' \in 1..Loop
    BY <2>3 DEF InterruptsInv
  <2>5. at' \in Places
    BY <2>3, <2>4 DEF InMain, Main, Places
  <2>6. interrupts_enabled' \in BOOLEAN
    BY <2>1, <2>2, ReturnToMain
  <2>7. running' \in {"on", "halted"} /\ nmi_blocked' \in BOOLEAN
    BY <2>3
  <2> QED
    BY <1>3, <2>3, <2>5, <2>6, <2>7, Settled
<1>5. CASE \E place, top \in HandlerPlaces : UnderNmi(place) /\ at = Isr(top) /\ nmi_blocked
  <2>1. PICK place \in HandlerPlaces, top \in HandlerPlaces : UnderNmi(place) /\ at = Isr(top)
    BY <1>5
  <2>2. at = Isr("return")
    BY <1>1, <2>1 DEF Isr, Pc
  <2>3. /\ MainPc' = MainPc /\ Alone(place)' /\ stack' \in Seq(Words) /\ running' = "on"
        /\ nmi_blocked' = FALSE /\ interrupts_enabled' = FALSE /\ at' \in Places
    BY <2>1, <2>2, ReturnToHandler
  <2>4. InHandler'
    BY <2>3 DEF InHandler
  <2>5. running' \in {"on", "halted"} /\ nmi_blocked' \in BOOLEAN /\ interrupts_enabled' \in BOOLEAN
    BY <2>3
  <2> QED
    BY <1>3, <2>3, <2>4, <2>5, Settled
<1> QED
  BY <1>2, <1>4, <1>5 DEF InHandler

----------------------------------------------------------------------------
(* The theorems *)

LEMMA NextInterrupts ==
    ASSUME InterruptsInv, [Next]_vars PROVE InterruptsInv'
<1>1. CASE PicRead
  BY <1>1, StepPicRead
<1>2. CASE OutPic
  BY <1>2, StepOutPic
<1>3. CASE LoadIdt
  BY <1>3, StepLoadIdt
<1>4. CASE EnableInterrupts
  BY <1>4, StepEnableInterrupts
<1>5. CASE RegisterInterruptHandler
  BY <1>5, StepRegister
<1>6. CASE InitTimer
  BY <1>6, StepInitTimer
<1>7. CASE HardwareInterrupt
  BY <1>7, StepHardwareInterrupt
<1>8. CASE SpuriousInterrupt
  BY <1>8, StepSpuriousInterrupt
<1>9. ASSUME NEW vector \in Exceptions, Raise(vector) PROVE InterruptsInv'
  BY <1>9, StepRaise
<1>10. CASE NonMaskableInterrupt
  BY <1>10, StepNonMaskableInterrupt
<1>11. CASE SetFlag
  BY <1>11, StepSetFlag
<1>12. CASE PicSendEoi
  BY <1>12, StepPicSendEoi
<1>13. CASE CallHandler
  BY <1>13, StepCallHandler
<1>14. CASE StopOnCritical
  BY <1>14, StepStopOnCritical
<1>15. CASE PageFaultPanics
  BY <1>15, StepPageFaultPanics
<1>16. CASE PanicHalts
  BY <1>16, StepPanicHalts
<1>17. CASE ClearFlag
  BY <1>17, StepClearFlag
<1>18. CASE Return
  BY <1>18, StepReturn
<1>19. ASSUME NEW d \in Devices, RaiseLine(d) PROVE InterruptsInv'
  BY <1>19, StepRaiseLine
<1>20. CASE UNCHANGED vars
  BY <1>20, StepIdle
<1>21. Idle => UNCHANGED vars
  BY DEF Idle
<1> QED
  BY <1>1, <1>2, <1>3, <1>4, <1>5, <1>6, <1>7, <1>8, <1>9, <1>10, <1>11, <1>12, <1>13,
     <1>14, <1>15, <1>16, <1>17, <1>18, <1>19, <1>20, <1>21 DEF Next, Cpu

(* The inductive invariant: main is at one of its instructions, the        *)
(* controllers are as far as pic_init has got, and the stack is that of    *)
(* one handler at most, or of an NMI on top of one (interrupt.S,           *)
(* idt_init, pic_init, isr_handler and irq_handler).                       *)
THEOREM InterruptsInvariant == Spec => []InterruptsInv
<1>1. InterruptsInv /\ [Next]_vars => InterruptsInv'
  BY NextInterrupts
<1> QED
  BY InitInterrupts, <1>1, PTL DEF Spec

(* Every variable has its type, and every word of the stack.               *)
THEOREM InterruptsTypeCorrectness == Spec => []TypeOK
<1>1. InterruptsInv => TypeOK
  BY DEF InterruptsInv
<1> QED
  BY InterruptsInvariant, <1>1, PTL

(* The CPU never resets: every vector that comes has a gate, and every     *)
(* iret finds the words that the CPU pushed, because each stub pops what   *)
(* it pushed and the CPU's error code besides (interrupt.S, idt_init).     *)
THEOREM ProcessorNeverResets == Spec => []NeverReset
<1>1. InterruptsInv => NeverReset
  BY DEF InterruptsInv
<1> QED
  BY InterruptsInvariant, <1>1, PTL

(* The stack above main is at most that of one handler and of an NMI: 12   *)
(* words; and while a handler runs, the flag is clear.                     *)
THEOREM StackIsBounded ==
    Spec => [](Len(stack) <= 12 /\ (Flow(at) # "main" => ~ interrupts_enabled))
<1>1. InterruptsInv => Len(stack) <= 12 /\ (Flow(at) # "main" => ~ interrupts_enabled)
  <2> SUFFICES ASSUME InterruptsInv
               PROVE  Len(stack) <= 12 /\ (Flow(at) # "main" => ~ interrupts_enabled)
    OBVIOUS
  <2>1. CASE InMain
    BY <2>1 DEF InMain, Main, Flow
  <2>2. CASE InHandler
    <3>1. Len(stack) \in {5, 6, 11, 12}
      BY <2>2, FrameOnStack
    <3> DEFINE n == Len(stack)
    <3>3. n \in {5, 6, 11, 12}
      BY <3>1
    <3> HIDE DEF n
    <3>4. n <= 12
      BY <3>3
    <3>2. Len(stack) <= 12
      BY <3>4 DEF n
    <3> QED
      BY <2>2, <3>2 DEF InHandler
  <2> QED
    BY <2>1, <2>2 DEF InterruptsInv
<1> QED
  BY InterruptsInvariant, <1>1, PTL

LEMMA OwedNow ==
    ASSUME InterruptsInv PROVE InServiceIsOwed
<1>1. CASE NoService
  BY <1>1 DEF InServiceIsOwed, NoService
<1>2. CASE \E place \in HandlerPlaces : at = Irq(place) /\ OnDevice(place)
  BY <1>2 DEF InServiceIsOwed, OnDevice, ServiceFits, Inside, Irq, Flow, Pc
<1>3. CASE \E place \in HandlerPlaces :
              /\ Len(stack) = 11 /\ OnDevice(place)
              /\ ExceptionFrame(stack, 5, {INT_NMI}, FALSE, Irq(place))
  <2>1. PICK place \in HandlerPlaces :
            /\ Len(stack) = 11 /\ OnDevice(place)
            /\ ExceptionFrame(stack, 5, {INT_NMI}, FALSE, Irq(place))
    BY <1>3
  <2>2. stack[8] = <<"eip", <<"irq", place>> >>
    BY <2>1 DEF ExceptionFrame, Irq
  <2>3. 8 \in DOMAIN stack
    BY <2>1 DEF InterruptsInv, TypeOK
  <2>4. stack[8][1] = "eip" /\ Flow(stack[8][2]) = "irq" /\ Pc(stack[8][2]) = place
    BY <2>2 DEF Flow, Pc
  <2>5. ASSUME NEW places, place \in places PROVE Inside("irq", places)
    BY <2>3, <2>4, <2>5, Zenon DEF Inside
  <2> QED
    BY <2>1, <2>5 DEF InServiceIsOwed, OnDevice, ServiceFits
<1> QED
  BY <1>1, <1>2, <1>3 DEF InterruptsInv, InMain, InHandler, Alone, UnderNmi, OnException

(* A line is in service only while its EOI is still to be sent, so that    *)
(* none stays blocked: irq_handler sends it to the slave, if the vector is *)
(* one of the slave's, and then to the master.                             *)
THEOREM NoLineStaysBlocked == Spec => []InServiceIsOwed
<1>1. InterruptsInv => InServiceIsOwed
  BY OwedNow
<1> QED
  BY InterruptsInvariant, <1>1, PTL

(* Where the stack has the number of an interrupt, and which one it is.    *)
LEMMA NumberInFrame ==
    ASSUME NEW b, NEW vectors, NEW flag, NEW place,
           ExceptionFrame(stack, b, vectors, flag, place), vectors \subseteq 0..31,
           NEW i \in {b + 1, b + 2, b + 3, b + 4, b + 5, b + 6},
           stack[i][1] = "int_no"
    PROVE  stack[i][2] \in 0..31
<1>1. /\ stack[b + 1][1] # "int_no" /\ stack[b + 2][1] # "int_no" /\ stack[b + 3][1] # "int_no"
      /\ stack[b + 4][1] # "int_no" /\ stack[b + 6][1] # "int_no"
  <2>1. /\ stack[b + 1] = <<"eflags", flag>> /\ stack[b + 2] = <<"cs", 8>>
        /\ stack[b + 3] = <<"eip", place>> /\ stack[b + 4][1] = "err"
        /\ stack[b + 6] = <<"regs", 0>>
    BY DEF ExceptionFrame
  <2>2. stack[b + 1][1] = "eflags"
    BY <2>1
  <2>3. stack[b + 2][1] = "cs"
    BY <2>1
  <2>4. stack[b + 3][1] = "eip"
    BY <2>1
  <2>5. stack[b + 6][1] = "regs"
    BY <2>1
  <2> QED
    BY <2>1, <2>2, <2>3, <2>4, <2>5
<1>2. stack[b + 5][2] \in 0..31
  BY DEF ExceptionFrame
<1>3. i = b + 5
  BY <1>1
<1> QED
  BY <1>2, <1>3

LEMMA OneNow ==
    ASSUME InterruptsInv PROVE OneIrqAtATime
<1> DEFINE irqs == {i \in DOMAIN stack : stack[i][1] = "int_no" /\ stack[i][2] >= 32}
<1>1. Exceptions \cup {INT_NMI} \subseteq 0..31 /\ {INT_NMI} \subseteq 0..31
  BY Parameters DEF INT_NMI
<1>2. DOMAIN stack = 1..Len(stack)
  BY DEF InterruptsInv, TypeOK
<1>3. ASSUME NEW i \in irqs PROVE i = 4 /\ (\E p \in HandlerPlaces : OnDevice(p))
  <2>1. i \in 1..Len(stack) /\ stack[i][1] = "int_no" /\ ~ stack[i][2] \in 0..31
    <3>1. i \in DOMAIN stack /\ stack[i][1] = "int_no" /\ stack[i][2] >= 32
      BY <1>3, Zenon
    <3> DEFINE number == stack[i][2]
    <3>2. number >= 32
      BY <3>1
    <3> HIDE DEF number
    <3>3. number \notin 0..31
      BY <3>2
    <3> QED
      BY <1>2, <3>1, <3>3, Zenon DEF number
  <2> HIDE DEF irqs
  <2>2. stack # << >>
    BY <2>1
  <2>3. ASSUME Len(stack) = 6, OnException PROVE FALSE
    <3> DEFINE b == 0
    <3>1. ExceptionFrame(stack, b, Exceptions \cup {INT_NMI}, MainPc > Sti, Main(MainPc))
      BY <2>3, Zenon DEF OnException
    <3>2. i \in {b + 1, b + 2, b + 3, b + 4, b + 5, b + 6}
      BY <2>1, <2>3
    <3> HIDE DEF b
    <3> QED
      BY <1>1, <2>1, <3>1, <3>2, NumberInFrame
  <2>4. ASSUME Len(stack) = 12, OnException, NEW place,
               ExceptionFrame(stack, 6, {INT_NMI}, FALSE, Isr(place))
        PROVE  FALSE
    <3>1. CASE i <= 6
      <4> DEFINE b == 0
      <4>1. ExceptionFrame(stack, b, Exceptions \cup {INT_NMI}, MainPc > Sti, Main(MainPc))
        BY <2>4, Zenon DEF OnException
      <4>2. i \in {b + 1, b + 2, b + 3, b + 4, b + 5, b + 6}
        BY <2>1, <3>1
      <4> HIDE DEF b
      <4> QED
        BY <1>1, <2>1, <4>1, <4>2, NumberInFrame
    <3>2. CASE ~ i <= 6
      <4> DEFINE b == 6
      <4>1. ExceptionFrame(stack, b, {INT_NMI}, FALSE, Isr(place))
        BY <2>4, Zenon
      <4>2. i \in {b + 1, b + 2, b + 3, b + 4, b + 5, b + 6}
        BY <2>1, <2>4, <3>2
      <4> HIDE DEF b
      <4> QED
        BY <1>1, <2>1, <4>1, <4>2, NumberInFrame
    <3> QED
      BY <3>1, <3>2
  <2>5. ASSUME NEW place, OnDevice(place), i <= 5 PROVE i = 4
    <3>1. /\ stack[1] = <<"eflags", TRUE>> /\ stack[2] = <<"cs", 8>>
          /\ stack[3] = <<"eip", Main(MainPc)>> /\ stack[5] = <<"regs", 0>>
      BY <2>5 DEF OnDevice, DeviceFrame
    <3>2. stack[1][1] # "int_no"
      BY <3>1
    <3>3. stack[2][1] # "int_no"
      BY <3>1
    <3>4. stack[3][1] # "int_no"
      BY <3>1
    <3>5. stack[5][1] # "int_no"
      BY <3>1
    <3> QED
      <4>1. i # 1 /\ i # 2 /\ i # 3 /\ i # 5
        BY <2>1, <3>2, <3>3, <3>4, <3>5, Zenon
      <4>2. i \in 1..Len(stack)
        BY <2>1
      <4> QED
        BY <2>5, <4>1, <4>2
  <2>6. ASSUME NEW place, Len(stack) = 11, ExceptionFrame(stack, 5, {INT_NMI}, FALSE, Irq(place)),
               ~ i <= 5
        PROVE  FALSE
    <3> DEFINE b == 5
    <3>1. ExceptionFrame(stack, b, {INT_NMI}, FALSE, Irq(place))
      BY <2>6, Zenon
    <3>2. i \in {b + 1, b + 2, b + 3, b + 4, b + 5, b + 6}
      BY <2>1, <2>6
    <3> HIDE DEF b
    <3> QED
      BY <1>1, <2>1, <3>1, <3>2, NumberInFrame
  <2>7. ASSUME NEW place \in HandlerPlaces, Alone(place) PROVE i = 4 /\ OnDevice(place)
    <3>1. Len(stack) = 5 /\ OnDevice(place)
      BY <2>3, <2>7 DEF Alone
    <3> QED
      BY <2>1, <2>5, <3>1
  <2>8. ASSUME NEW place \in HandlerPlaces, UnderNmi(place) PROVE i = 4 /\ OnDevice(place)
    <3>1. /\ Len(stack) = 11 /\ OnDevice(place)
          /\ ExceptionFrame(stack, 5, {INT_NMI}, FALSE, Irq(place))
      BY <2>4, <2>8 DEF UnderNmi
    <3>2. i <= 5
      BY <2>6, <3>1
    <3> QED
      BY <2>5, <3>1, <3>2
  <2> QED
    BY <2>2, <2>7, <2>8 DEF InterruptsInv, InMain, InHandler
<1>4. irqs \subseteq {4}
  BY <1>3
<1> HIDE DEF irqs
<1>5. Cardinality(irqs) <= 1
  <2>1. IsFiniteSet({4}) /\ Cardinality({4}) = 1
    BY FS_Singleton
  <2>2. Cardinality(irqs) <= Cardinality({4})
    BY <1>4, <2>1, FS_Subset
  <2> QED
    BY <2>1, <2>2
<1> QED
  BY <1>5 DEF irqs, OneIrqAtATime

(* The EOI comes before the handler, and yet no second interrupt of a      *)
(* device gets on the stack: every gate clears the flag and nothing before *)
(* the iret sets it (idt_init, interrupt.S, irq_handler).                  *)
THEOREM DevicesNeverNest == Spec => []OneIrqAtATime
<1>1. InterruptsInv => OneIrqAtATime
  BY OneNow
<1> QED
  BY InterruptsInvariant, <1>1, PTL

LEMMA SetUpNow ==
    ASSUME InterruptsInv PROVE ControllersAreSetUp
<1>1. PICK pc \in 1..19 : pc = MainPc /\ SetUp(pc)
  BY TheCode DEF InterruptsInv
<1>2. ASSUME idt_loaded PROVE \A c \in Chips : pics[c].imr = firmware[c]
  <2>1. pc >= 13
    BY <1>1, <1>2 DEF SetUp, Sti
  <2>2. pc \notin 3..10 /\ pc - 1 \notin 3..10
    BY <2>1
  <2>3. pics["master"].imr = firmware["master"] /\ pics["slave"].imr = firmware["slave"]
    BY <1>1, <2>2 DEF SetUp, SetUpChip
  <2> QED
    BY <2>3 DEF Chips
<1>3. ASSUME Flow(at) = "isr" PROVE IntNo \in Exceptions \cup {INT_NMI}
  <2>1. ASSUME NEW b \in Nat, NEW vectors, NEW flag, NEW place, vectors \subseteq Exceptions \cup {INT_NMI},
               ExceptionFrame(stack, b, vectors, flag, place), Len(stack) = b + 6
        PROVE  IntNo \in Exceptions \cup {INT_NMI}
    <3>1. Len(stack) - 1 = b + 5
      BY <2>1
    <3> QED
      BY <2>1, <3>1 DEF IntNo, Word, ExceptionFrame
  <2>2. ASSUME Len(stack) = 6, OnException PROVE IntNo \in Exceptions \cup {INT_NMI}
    <3> DEFINE b == 0
    <3>1. ExceptionFrame(stack, b, Exceptions \cup {INT_NMI}, MainPc > Sti, Main(MainPc))
      BY <2>2, Zenon DEF OnException
    <3>2. b \in Nat /\ Len(stack) = b + 6
      BY <2>2
    <3> HIDE DEF b
    <3> QED
      BY <2>1, <3>1, <3>2
  <2>3. ASSUME Len(stack) = 12, NEW place, ExceptionFrame(stack, 6, {INT_NMI}, FALSE, Isr(place))
        PROVE  IntNo \in Exceptions \cup {INT_NMI}
    <3> DEFINE b == 6
    <3>1. ExceptionFrame(stack, b, {INT_NMI}, FALSE, Isr(place))
      BY <2>3, Zenon
    <3>2. b \in Nat /\ Len(stack) = b + 6
      BY <2>3
    <3> HIDE DEF b
    <3> QED
      BY <2>1, <3>1, <3>2
  <2>4. ASSUME Len(stack) = 11, NEW place, ExceptionFrame(stack, 5, {INT_NMI}, FALSE, Irq(place))
        PROVE  IntNo \in Exceptions \cup {INT_NMI}
    <3> DEFINE b == 5
    <3>1. ExceptionFrame(stack, b, {INT_NMI}, FALSE, Irq(place))
      BY <2>4, Zenon
    <3>2. b \in Nat /\ Len(stack) = b + 6
      BY <2>4
    <3> HIDE DEF b
    <3> QED
      BY <2>1, <3>1, <3>2
  <2>5. InHandler
    BY <1>3 DEF InterruptsInv, InMain, Main, Flow
  <2>6. ASSUME NEW place, Alone(place) PROVE Len(stack) = 6 /\ OnException
    BY <1>3, <2>6 DEF Alone, Irq, Flow
  <2> QED
    BY <2>2, <2>3, <2>4, <2>5, <2>6 DEF InHandler, UnderNmi
<1> QED
  BY <1>2, <1>3 DEF ControllersAreSetUp

(* pic_init leaves the masks as the BIOS had them and moves both chips     *)
(* away from the vectors of the exceptions: isr_handler never runs for a   *)
(* device.                                                                 *)
THEOREM PicInitIsRight == Spec => []ControllersAreSetUp
<1>1. InterruptsInv => ControllersAreSetUp
  BY SetUpNow
<1> QED
  BY InterruptsInvariant, <1>1, PTL
=============================================================================
