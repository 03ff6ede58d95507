---------------------------- MODULE Interrupts ----------------------------
(***************************************************************************)
(* Interrupts and exceptions: the start of main (kernel/kernel.c) up to    *)
(* its loop, with idt_init, pic_init and init_timer; the stubs of          *)
(* kernel/interrupt/interrupt.S; isr_handler and irq_handler.  Around them *)
(* the CPU, the two controllers and the interval timer.                    *)
(*                                                                         *)
(* at is the next instruction: of main, number pc of MainCode, or of one   *)
(* of the two common handlers.  stack is the kernel stack above main's own *)
(* frames, a sequence of words, the last one on top; pusha and the four    *)
(* segment registers are one word, which both stubs push and pop alike.    *)
(* An interrupt pushes the words that the CPU and the stub push, and the   *)
(* way back pops what the stub's code pops, so a stub that does not fit    *)
(* the CPU ends at a wrong place.                                          *)
(***************************************************************************)
EXTENDS Integers, Sequences, FiniteSets, Pic

CONSTANTS
    Devices,          \* the IRQ numbers that devices raise
    Withdrawing,      \* those of devices that may take a request back
    FirmwareMasks,    \* what the BIOS may have masked: [master, slave]
    Exceptions,       \* the vectors that main's code may raise
    Frequency,        \* TIMER_FREQUENCY
    MaxRaises,        \* bound: interrupts that a device raises
    MaxNmi            \* bound: non-maskable interrupts

PIT_FREQ_BASE == 1193180    \* Hz

ASSUME DeviceAssumption ==
    /\ Devices \subseteq (0..15) \ {Cascade}
    /\ Withdrawing \subseteq Devices
    /\ Exceptions \subseteq 0..31
    /\ Frequency \in 1..PIT_FREQ_BASE /\ MaxRaises \in Nat /\ MaxNmi \in Nat
    /\ FirmwareMasks \subseteq [Chips -> SUBSET Lines]

VARIABLES
    at, stack, interrupts_enabled,      \* the CPU: EIP, the stack, IF
    running,                            \* on; halted: cli and hlt; reset: triple fault
    nmi_blocked,                        \* from an NMI to the next iret
    pics, pit,
    masks,                              \* mask1 and mask2 of pic_init
    idt_loaded, interrupt_handlers, in_interrupt_context, tick,
    raises, nmis, firmware              \* history: what the environment did

cpuVars    == <<at, stack, interrupts_enabled, running, nmi_blocked>>
kernelVars == <<masks, idt_loaded, interrupt_handlers, in_interrupt_context, tick>>
vars == <<at, stack, interrupts_enabled, running, nmi_blocked, pics, pit, masks,
          idt_loaded, interrupt_handlers, in_interrupt_context, tick,
          raises, nmis, firmware>>

PIC1_VECTOR_OFFSET == 32
PIC2_VECTOR_OFFSET == 40
INT_NMI == 2
INT_PAGE_FAULT == 14
INT_IRQ0 == 32

(* Places in the code. *)
Main(pc) == <<"main", pc>>
Isr(pc)  == <<"isr", pc>>
Irq(pc)  == <<"irq", pc>>
Flow(place) == place[1]
Pc(place)   == place[2]

----------------------------------------------------------------------------
(* main *)

ReadMasks            == [op |-> "read_masks"]
Command(c)           == [op |-> "icw1", chip |-> c]
Data(c, value)       == [op |-> "data", chip |-> c, value |-> value]
RestoreMask(c)       == [op |-> "restore", chip |-> c]
Register(vector)     == [op |-> "register", vector |-> vector]
Simple(op)           == [op |-> op]

InitWords(offset_vector_master, offset_vector_slave) ==
    << Data("master", offset_vector_master), Data("slave", offset_vector_slave),
       Data("master", 4), Data("slave", 2), Data("master", 1), Data("slave", 1),
       RestoreMask("master"), RestoreMask("slave") >>

(* Mutant: the masks are read when ICW1 has cleared them. *)
PicInitReadsLate ==
    << Command("master"), Command("slave"), ReadMasks >>
        \o InitWords(PIC1_VECTOR_OFFSET, PIC2_VECTOR_OFFSET)

PicInitCode ==
    << ReadMasks, Command("master"), Command("slave") >>
        \o InitWords(PIC1_VECTOR_OFFSET, PIC2_VECTOR_OFFSET)

MainCode ==
    PicInitCode \o << Simple("lidt"), Simple("sti"), Register(INT_IRQ0),
                      Simple("pit_command"), Simple("pit_low"), Simple("pit_high"),
                      Register(INT_PAGE_FAULT) >>

Loop == Len(MainCode) + 1      \* kheap_killer and while (1)

Init ==
    /\ at = Main(1) /\ stack = << >> /\ interrupts_enabled = FALSE
    /\ running = "on" /\ nmi_blocked = FALSE
    /\ firmware \in FirmwareMasks
    /\ pics = [c \in Chips |-> [irr |-> {}, isr |-> {}, imr |-> firmware[c],
                                base |-> IF c = "master" THEN 8 ELSE 112, icw |-> 0]]
    /\ pit = [mode |-> "bios", low |-> 0, high |-> 0]
    /\ masks = [c \in Chips |-> {}]
    /\ idt_loaded = FALSE /\ interrupt_handlers = {}
    /\ in_interrupt_context = FALSE /\ tick = 0
    /\ raises = [d \in Devices |-> 0] /\ nmis = 0

(* A request that is not masked is taken before the next instruction. *)
Interruptible == interrupts_enabled /\ MasterEligible(pics) # {}
CpuRuns == running = "on" /\ ~ Interruptible

Executes(op) ==
    /\ CpuRuns /\ Flow(at) = "main" /\ Pc(at) < Loop /\ MainCode[Pc(at)].op = op
    /\ at' = Main(Pc(at) + 1)
    /\ UNCHANGED <<stack, running, nmi_blocked, in_interrupt_context, tick,
                   raises, nmis, firmware>>

Instruction == MainCode[Pc(at)]

PicRead ==
    /\ Executes("read_masks")
    /\ masks' = [c \in Chips |-> pics[c].imr]
    /\ UNCHANGED <<interrupts_enabled, pics, pit, idt_loaded, interrupt_handlers>>

OutPic ==
    /\ \/ /\ Executes("icw1")
          /\ pics' = [pics EXCEPT ![Instruction.chip] = Icw1(@)]
       \/ /\ Executes("data")
          /\ pics' = [pics EXCEPT ![Instruction.chip] = WriteData(@, Instruction.value)]
       \/ /\ Executes("restore")
          /\ pics' = [pics EXCEPT ![Instruction.chip] = WriteData(@, masks[Instruction.chip])]
    /\ UNCHANGED <<interrupts_enabled, pit, masks, idt_loaded, interrupt_handlers>>

LoadIdt ==
    /\ Executes("lidt") /\ idt_loaded' = TRUE
    /\ UNCHANGED <<interrupts_enabled, pics, pit, masks, interrupt_handlers>>

EnableInterrupts ==
    /\ Executes("sti") /\ interrupts_enabled' = TRUE
    /\ UNCHANGED <<pics, pit, masks, idt_loaded, interrupt_handlers>>

RegisterInterruptHandler ==
    /\ Executes("register")
    /\ interrupt_handlers' = interrupt_handlers \cup {Instruction.vector}
    /\ UNCHANGED <<interrupts_enabled, pics, pit, masks, idt_loaded>>

(* init_timer: the divisor goes to channel 0 in two halves. *)
Divisor == PIT_FREQ_BASE \div Frequency
NotTruncated(n) == n          \* mutant
LowByte(n)      == n % 256

InitTimer ==
    /\ \/ Executes("pit_command") /\ pit' = [pit EXCEPT !.mode = "bcd"]
       \/ Executes("pit_low") /\ pit' = [pit EXCEPT !.low = LowByte(Divisor)]
       \/ Executes("pit_high") /\ pit' = [pit EXCEPT !.high = LowByte(Divisor \div 256)]
    /\ UNCHANGED <<interrupts_enabled, pics, masks, idt_loaded, interrupt_handlers>>

----------------------------------------------------------------------------
(* The CPU: delivery through the IDT, and the stubs *)

(* The IDT after idt_init, which clears all of it first: a gate names the  *)
(* stub it leads to. *)
IDT_ENTRIES        == 256
IDT_PRESENT        == 128
IDT_DPL0           == 0
IDT_TYPE_TRAP      == 15              \* and the mutant of IDT_TYPE_INTERRUPT
IDT_TYPE_INTERRUPT == 14
IDT_MAKE_ATTR(present, dpl, type) == (IF present THEN IDT_PRESENT ELSE 0) + dpl + (type % 16)

IdtSetGate(stub, flags) == [stub |-> stub, type_attr |-> flags]

InterruptGate(stub) == IdtSetGate(stub, IDT_MAKE_ATTR(TRUE, IDT_DPL0, IDT_TYPE_INTERRUPT))

Idt(num) ==
    CASE num \in 0..31  -> InterruptGate(<<"isr", num>>)
      [] num \in 32..47 -> InterruptGate(<<"irq", num - 32>>)
      [] OTHER          -> IdtSetGate(<<"none", 0>>, 0)

IdtLimit == 8 * IDT_ENTRIES - 1

(* The CPU wants the gate within the limit and present; an interrupt gate  *)
(* clears IF, a trap gate leaves it.                                       *)
HasGate(vector) == 8 * vector + 7 <= IdtLimit /\ Idt(vector).type_attr \div IDT_PRESENT = 1
FlagAfter(vector) == interrupts_enabled /\ Idt(vector).type_attr % 16 = IDT_TYPE_TRAP

(* Vectors for which the CPU pushes an error code, and those whose stub is *)
(* ISR_ERR; the other stubs of exceptions (ISR_NOERR) push 0 in its place, *)
(* the stubs of the IRQs nothing.                                          *)
CpuErrorCode == {8, 10, 11, 12, 13, 14, 17}
IsrErr       == {8, 10, 11, 12, 13, 14, 17}
IsrNoErr     == (0..31) \ IsrErr

ErrorWords(vector) ==
    (IF vector \in CpuErrorCode THEN << <<"err", vector>> >> ELSE << >>)
        \o (IF vector \in IsrNoErr THEN << <<"err", 0>> >> ELSE << >>)

(* What a stub pushes as int_no. *)
StubNumber(stub) == IF stub[1] = "isr" THEN stub[2] ELSE 32 + stub[2]

(* What lies on the stack when the common handler is called. *)
FrameFor(vector, return) ==
    << <<"eflags", interrupts_enabled>>, <<"cs", 8>>, <<"eip", return>> >>
        \o ErrorWords(vector)
        \o << <<"int_no", StubNumber(Idt(vector).stub)>>, <<"regs", 0>> >>

Deliver(vector, return) ==
    IF idt_loaded /\ HasGate(vector)
    THEN /\ stack' = stack \o FrameFor(vector, return)
         /\ interrupts_enabled' = FlagAfter(vector)
         /\ at' = << Idt(vector).stub[1], "set_flag" >>
         /\ UNCHANGED running
    ELSE /\ running' = "reset"
         /\ UNCHANGED <<stack, interrupts_enabled, at>>

(* An interrupt of a device. *)
HardwareInterrupt ==
    /\ running = "on" /\ Interruptible
    /\ Deliver(AcknowledgedVector(pics), at)
    /\ pics' = Acknowledge(pics)
    /\ UNCHANGED <<nmi_blocked, pit, kernelVars, raises, nmis, firmware>>

(* A device gives up its request as the CPU acknowledges. *)
SpuriousInterrupt ==
    /\ running = "on" /\ Interruptible
    /\ NextIrq(pics) \in Withdrawing /\ CanBeWithdrawn(pics)
    /\ Deliver(SpuriousVector(pics), at)
    /\ pics' = Withdraw(pics)
    /\ UNCHANGED <<nmi_blocked, pit, kernelVars, raises, nmis, firmware>>

(* An instruction of main faults or traps. *)
Raise(vector) ==
    /\ CpuRuns /\ Flow(at) = "main" /\ idt_loaded
    /\ Deliver(vector, at)
    /\ UNCHANGED <<nmi_blocked, pics, pit, kernelVars, raises, nmis, firmware>>

(* It comes whatever IF says, and it ends a hlt. *)
NonMaskableInterrupt ==
    /\ running \in {"on", "halted"} /\ idt_loaded
    /\ nmis < MaxNmi /\ ~ nmi_blocked
    /\ stack' = stack \o FrameFor(INT_NMI, at)
    /\ interrupts_enabled' = FALSE
    /\ at' = Isr("set_flag")
    /\ running' = "on"
    /\ nmi_blocked' = TRUE /\ nmis' = nmis + 1
    /\ UNCHANGED <<pics, pit, kernelVars, raises, firmware>>

RaiseLine(d) ==
    /\ raises[d] < MaxRaises
    /\ raises' = [raises EXCEPT ![d] = @ + 1]
    /\ pics' = IF d < 8 THEN [pics EXCEPT !["master"].irr = @ \cup {d}]
                        ELSE [pics EXCEPT !["slave"].irr = @ \cup {d - 8}]
    /\ UNCHANGED <<cpuVars, pit, kernelVars, nmis, firmware>>

----------------------------------------------------------------------------
(* isr_handler and irq_handler *)

Word(n) == stack[Len(stack) - n]

(* The field of interrupt_frame_t above the registers. *)
IntNo == Word(1)[2]

Handler(flow, pc, next) ==
    /\ CpuRuns /\ at = <<flow, pc>>
    /\ at' = <<flow, next>>
    /\ UNCHANGED <<stack, pit, masks, idt_loaded, interrupt_handlers,
                   nmi_blocked, raises, nmis, firmware>>

(* pic_send_eoi: which chips it writes to, and in what order. *)
FirstEoi(irq)    == IF irq >= 8 THEN "eoi_slave" ELSE "eoi_master"
EoiToOneChip(pc) == "call"                                           \* mutant
AfterEoi(pc)     == IF pc = "eoi_slave" THEN "eoi_master" ELSE "call"

SetFlag ==
    /\ \/ Handler("isr", "set_flag", "call")
       \/ Handler("irq", "set_flag", FirstEoi(IntNo - 32))
    /\ in_interrupt_context' = TRUE
    /\ UNCHANGED <<interrupts_enabled, running, pics, tick>>

PicSendEoi ==
    /\ \/ /\ Handler("irq", "eoi_slave", AfterEoi("eoi_slave"))
          /\ pics' = [pics EXCEPT !["slave"] = EndOfInterrupt(@)]
       \/ /\ Handler("irq", "eoi_master", AfterEoi("eoi_master"))
          /\ pics' = [pics EXCEPT !["master"] = EndOfInterrupt(@)]
    /\ UNCHANGED <<interrupts_enabled, running, in_interrupt_context, tick>>

(* The exceptions that stop the system when nobody handles them. *)
Critical == {8, 13, 14}
Handled  == IntNo \in interrupt_handlers

(* The handler that is registered, or a message. *)
CallHandler ==
    /\ \/ Handler("irq", "call", "clear_flag")
       \/ Handler("isr", "call", "clear_flag") /\ (Handled \/ IntNo \notin Critical)
    /\ tick' = IF Handled /\ IntNo = INT_IRQ0 THEN tick + 1 ELSE tick
    /\ UNCHANGED <<interrupts_enabled, running, in_interrupt_context, pics>>

StopOnCritical ==             \* cli; hlt
    /\ Handler("isr", "call", "clear_flag")
    /\ ~ Handled /\ IntNo \in Critical
    /\ interrupts_enabled' = FALSE /\ running' = "halted"
    /\ UNCHANGED <<in_interrupt_context, pics, tick>>

(* The page fault handler finds no way to go on: cli, and hlt in a loop.   *)
HltInLoop == "panic"

PageFaultPanics ==
    /\ Handler("isr", "call", "panic") /\ Handled /\ IntNo = INT_PAGE_FAULT
    /\ interrupts_enabled' = FALSE
    /\ UNCHANGED <<running, in_interrupt_context, pics, tick>>

PanicHalts ==
    /\ Handler("isr", "panic", HltInLoop)
    /\ running' = "halted"
    /\ UNCHANGED <<interrupts_enabled, in_interrupt_context, pics, tick>>

ClearFlag ==
    /\ \/ Handler("isr", "clear_flag", "return")
       \/ Handler("irq", "clear_flag", "return")
    /\ in_interrupt_context' = FALSE
    /\ UNCHANGED <<interrupts_enabled, running, pics, tick>>

(* add esp: the interrupt number, and for exceptions the error code. *)
TwoWords(flow) == 2                                   \* mutant
PoppedWords(flow) == IF flow = "isr" THEN 2 ELSE 1

Return ==
    /\ CpuRuns /\ Flow(at) # "main" /\ Pc(at) = "return"
    /\ LET n     == Len(stack) - 1 - PoppedWords(Flow(at))
           below == SubSeq(stack, 1, n)
       IN  IF n >= 3 /\ below[n][1] = "eip" /\ below[n - 1][1] = "cs" /\ below[n - 2][1] = "eflags"
           THEN /\ at' = below[n][2] /\ interrupts_enabled' = below[n - 2][2]
                /\ stack' = SubSeq(below, 1, n - 3)
                /\ nmi_blocked' = FALSE
                /\ UNCHANGED running
           ELSE running' = "reset" /\ UNCHANGED <<at, interrupts_enabled, stack, nmi_blocked>>
    /\ UNCHANGED <<pics, pit, kernelVars, raises, nmis, firmware>>

Idle ==            \* main in its loop, and a CPU that has stopped
    /\ (CpuRuns /\ at = Main(Loop)) \/ running \in {"halted", "reset"}
    /\ UNCHANGED vars

Cpu ==
    \/ PicRead \/ OutPic \/ LoadIdt \/ EnableInterrupts \/ RegisterInterruptHandler \/ InitTimer
    \/ HardwareInterrupt \/ SetFlag \/ PicSendEoi
    \/ CallHandler \/ StopOnCritical \/ PageFaultPanics \/ PanicHalts \/ ClearFlag \/ Return

Next ==
    \/ Cpu
    \/ SpuriousInterrupt
    \/ \E vector \in Exceptions : Raise(vector)
    \/ NonMaskableInterrupt
    \/ \E d \in Devices : RaiseLine(d)
    \/ Idle

(* The CPU goes from instruction to instruction; nothing is assumed of the *)
(* devices.                                                                *)
Spec == Init /\ [][Next]_vars /\ WF_vars(Cpu)

----------------------------------------------------------------------------
(* Properties *)

Places == (({"main"} \X (1..Loop))
             \cup ({"isr", "irq"} \X {"set_flag", "eoi_slave", "eoi_master", "call",
                                      "panic", "clear_flag", "return"}))
Words == ({"eflags"} \X BOOLEAN) \cup ({"cs", "err", "int_no", "regs"} \X (0..47))
            \cup ({"eip"} \X Places)

(* Every variable has its type. *)
TypeOK ==
    /\ at \in Places /\ stack \in Seq(Words)
    /\ {interrupts_enabled, nmi_blocked, idt_loaded, in_interrupt_context} \subseteq BOOLEAN
    /\ running \in {"on", "halted", "reset"}
    /\ \A c \in Chips : /\ pics[c].irr \cup pics[c].isr \cup pics[c].imr \subseteq Lines
                         /\ pics[c].base \in 0..255 /\ pics[c].icw \in {0, 2, 3, 4}
    /\ pit.mode \in {"bios", "bcd"} /\ pit.low \in 0..255 /\ pit.high \in 0..255
    /\ masks \in [Chips -> SUBSET Lines] /\ firmware \in FirmwareMasks
    /\ interrupt_handlers \subseteq 0..47 /\ tick \in Nat
    /\ raises \in [Devices -> 0..MaxRaises] /\ nmis \in 0..MaxNmi

(* The CPU never resets: whatever interrupts whatever, there is a gate for *)
(* the vector, and every iret finds the frame that the CPU pushed, below   *)
(* exactly what the stub pushed (interrupt.S, idt_init).                   *)
NeverReset == running # "reset"

(* The code is in the flow, at one of the places: now, or to return to.    *)
Inside(flow, places) ==
    \/ Flow(at) = flow /\ Pc(at) \in places
    \/ \E i \in DOMAIN stack :
           stack[i][1] = "eip" /\ Flow(stack[i][2]) = flow /\ Pc(stack[i][2]) \in places

(* A line is in service only while the handler of its interrupt has its    *)
(* EOI still to send, on the slave and then on the master: after the       *)
(* handler no line stays blocked (irq_handler, pic_send_eoi).              *)
InServiceIsOwed ==
    /\ pics["slave"].isr # {} => Inside("irq", {"set_flag", "eoi_slave"})
    /\ pics["master"].isr # {} => Inside("irq", {"set_flag", "eoi_slave", "eoi_master"})

(* The EOI comes before the handler, and yet no second interrupt of a      *)
(* device gets on the stack before the first one is done: the stack is     *)
(* bounded by one frame of a device, one of a fault and one of an NMI.     *)
OneIrqAtATime ==
    Cardinality({i \in DOMAIN stack : stack[i][1] = "int_no" /\ stack[i][2] >= 32}) <= 1

(* pic_init: what the BIOS had masked is masked afterwards, and nothing    *)
(* else, though the initialisation clears the masks; and no device ever    *)
(* interrupts with a vector of an exception, isr_handler runs for          *)
(* exceptions and the NMI alone.                                           *)
ControllersAreSetUp ==
    /\ idt_loaded => \A c \in Chips : pics[c].imr = firmware[c]
    /\ Flow(at) = "isr" /\ running # "reset" => IntNo \in Exceptions \cup {INT_NMI}

(* init_timer(frequency): the count that channel 0 is given makes it fire  *)
(* frequency times a second. *)
Digits(n) == (n \div 16) * 10 + (n % 16)
Count == IF pit.mode = "bcd" THEN 100 * Digits(pit.high) + Digits(pit.low)
                             ELSE 256 * pit.high + pit.low
TimerFrequency == at = Main(Loop) => Count = Divisor

(* A request that is not masked is served, or the device withdraws it,     *)
(* once main has enabled interrupts; unless the CPU has stopped            *)
(* (irq_handler, pic_send_eoi).                                            *)
Requested(d) ==
    IF d < 8 THEN d \in pics["master"].irr \ pics["master"].imr
             ELSE /\ d - 8 \in pics["slave"].irr \ pics["slave"].imr
                  /\ Cascade \notin pics["master"].imr
Started == idt_loaded /\ ~ Inside("main", {pc \in 1..Len(MainCode) : MainCode[pc].op = "sti"})

RequestsAreServed ==
    \A d \in Devices : Requested(d) /\ Started ~> ~ Requested(d) \/ running = "halted"
=============================================================================
