------------------------------ MODULE Segments ------------------------------
(***************************************************************************)
(* Descriptor tables and segment registers: the table the loader assembles *)
(* (common/bootmacros.inc), the one gdt_init builds (mem/gdt.c), and what  *)
(* the processor makes of an entry when a selector is loaded.              *)
(*                                                                         *)
(* A 32-bit word is a pair of 16-bit halves.  Nothing interrupts gdt_init: *)
(* the loader has disabled interrupts and there is no IDT yet.             *)
(***************************************************************************)
EXTENDS Naturals

CONSTANT TssAddress        \* where the linker puts tss

W(hi, lo) == [hi |-> hi, lo |-> lo]
Words     == [hi : 0..65535, lo : 0..65535]

ASSUME TssAssumption == TssAddress \in Words

VARIABLES
    gdts,       \* the tables in memory: the loader's and the kernel's
    gdtr,       \* which of them the processor uses
    tss,
    seg,        \* the descriptors the segment registers hold
    tr,         \* the one the task register holds
    step        \* how far gdt_init has come

segVars == <<gdts, gdtr, tss, seg, tr, step>>

----------------------------------------------------------------------------
(* include/gdt.h: bits that never meet, so that | is + *)

GDT_CODE_KERNEL == 128 + 0 + 16 + 10
GDT_DATA_KERNEL == 128 + 0 + 16 + 2
GDT_CODE_USER   == 128 + 96 + 16 + 10
GDT_DATA_USER   == 128 + 96 + 16 + 2
GDT_TSS_AVAIL   == 128 + 0 + 0 + 9

GDT_FLAGS_KERNEL == 128 + 64
GDT_FLAGS_USER   == 128 + 64
GDT_FLAGS_VEDIO  == 0
GDT_FLAGS_TSS    == 64

KernelCode == 1
KernelData == 2
Video      == 3
TssEntry   == 6
GDT_ENTRY_COUNT == 7

TssSize      == 104
GDT_TSS_ESP0 == W(61439, 65520)
NoTss        == [ss0 |-> 0, esp0 |-> W(0, 0), iomap_base |-> 0]

----------------------------------------------------------------------------
(* An entry in memory *)

NullEntry == [limit_low |-> 0, base_low |-> 0, base_mid |-> 0, access |-> 0,
              granularity |-> 0, base_high |-> 0]

MidByte(base)   == base.hi % 256

GdtGate(base, limit, access, gran) ==
    [limit_low   |-> limit.lo,
     base_low    |-> base.lo,
     base_mid    |-> MidByte(base),
     access      |-> access,
     granularity |-> (limit.hi % 16) + (gran - (gran % 16)),
     base_high   |-> base.hi \div 256]

(* What the processor sees in an entry *)
Descriptor(e) ==
    [base    |-> W((256 * e.base_high) + e.base_mid, e.base_low),
     limit   |-> W(e.granularity % 16, e.limit_low),
     pages   |-> e.granularity \div 128 = 1,
     bits32  |-> (e.granularity \div 64) % 2 = 1,
     present |-> e.access \div 128 = 1,
     dpl     |-> (e.access \div 32) % 4,
     system  |-> (e.access \div 16) % 2 = 0,
     type    |-> e.access % 16]

IsCode(d) == ~d.system /\ d.type \div 8 = 1
IsData(d) == ~d.system /\ d.type \div 8 = 0 /\ (d.type \div 2) % 2 = 1

NullDescriptor == Descriptor(NullEntry)

----------------------------------------------------------------------------
(* The tables *)

Flat(access, flags) == GdtGate(W(0, 0), W(15, 65535), access, flags)

(* DEFINE_STANDARD_GDT *)
StandardGdt ==
    [n \in 0..3 |->
        CASE n = KernelCode -> Flat(GDT_CODE_KERNEL, 128 + 64)
          [] n = KernelData -> Flat(GDT_DATA_KERNEL, 128 + 64)
          [] n = Video      -> GdtGate(W(11, 32768), W(0, 2047), GDT_DATA_KERNEL, 0)
          [] OTHER          -> NullEntry]

LimitOfAddress == W(TssAddress.hi, TssAddress.lo + TssSize)     \* mutant: the line before
TssLimit       == W(0, TssSize - 1)

(* The calls of gdt_set_gate in gdt_init *)
Gate(n) ==
    CASE n = KernelCode -> Flat(GDT_CODE_KERNEL, GDT_FLAGS_KERNEL)
      [] n = KernelData -> Flat(GDT_DATA_KERNEL, GDT_FLAGS_KERNEL)
      [] n = Video      -> GdtGate(W(11, 32768), W(0, 32767), GDT_DATA_KERNEL, GDT_FLAGS_VEDIO)
      [] n = 4          -> Flat(GDT_CODE_USER, GDT_FLAGS_USER)
      [] n = 5          -> Flat(GDT_DATA_USER, GDT_FLAGS_USER)
      [] n = TssEntry   -> GdtGate(TssAddress, TssLimit, GDT_TSS_AVAIL, GDT_FLAGS_TSS)
      [] OTHER          -> GdtGate(W(0, 0), W(0, 0), 0, 0)

----------------------------------------------------------------------------
(* Loading selectors *)

Registers     == {"cs", "ds", "es", "fs", "gs", "ss"}
DataRegisters == Registers \ {"cs"}

Selected(table, n) == Descriptor(gdts[table][n])

(* lgdt, the far jump, and the data segments: regs get the data selector.  *)
(* What would fault is loaded like the rest; SegmentsAreFlat sees it.      *)
Flush(table, regs) ==
    /\ gdtr' = table
    /\ seg' = [r \in Registers |->
                  IF r = "cs" THEN Selected(table, KernelCode)
                  ELSE IF r \in regs THEN Selected(table, KernelData)
                  ELSE Selected(table, Video)]

----------------------------------------------------------------------------
(* gdt_init *)

GdtIdle == 0
Cleared == 1
GdtDone == 20

InitSegments ==
    /\ gdts = [loader |-> [n \in 0..3 |-> NullEntry],
               kernel |-> [n \in 0..(GDT_ENTRY_COUNT - 1) |-> NullEntry]]
    /\ gdtr = "none" /\ tss = NoTss
    /\ seg = [r \in Registers |-> NullDescriptor]
    /\ tr = NullDescriptor
    /\ step = GdtIdle

(* Both memsets, and gdt_ptr *)
ClearTables ==
    /\ step = GdtIdle
    /\ gdts' = [gdts EXCEPT !.kernel = [n \in 0..(GDT_ENTRY_COUNT - 1) |-> NullEntry]]
    /\ tss' = NoTss
    /\ step' = Cleared
    /\ UNCHANGED <<gdtr, seg, tr>>

GdtSetGate(n) ==
    /\ step = Cleared + n
    /\ gdts' = [gdts EXCEPT !.kernel[n] = Gate(n)]
    /\ step' = step + 1
    /\ UNCHANGED <<gdtr, tss, seg, tr>>

FillTss ==
    /\ step = Cleared + GDT_ENTRY_COUNT
    /\ tss' = [ss0 |-> 8 * KernelData, esp0 |-> GDT_TSS_ESP0, iomap_base |-> TssSize]
    /\ step' = step + 1
    /\ UNCHANGED <<gdts, gdtr, seg, tr>>

GdtFlush ==
    /\ step = Cleared + GDT_ENTRY_COUNT + 1
    /\ Flush("kernel", DataRegisters)
    /\ step' = step + 1
    /\ UNCHANGED <<gdts, tss, tr>>

(* ltr: the descriptor becomes busy, in the register and in memory. *)
Busy(e) == [e EXCEPT !.access = @ + 2]

TssFlush ==
    LET e == gdts["kernel"][TssEntry]
    IN  /\ step = Cleared + GDT_ENTRY_COUNT + 2
        /\ gdts' = [gdts EXCEPT !.kernel[TssEntry] = Busy(e)]
        /\ tr' = Descriptor(Busy(e))
        /\ step' = GdtDone
        /\ UNCHANGED <<gdtr, tss, seg>>

GdtInit ==
    \/ ClearTables
    \/ \E n \in 0..(GDT_ENTRY_COUNT - 1) : GdtSetGate(n)
    \/ FillTss
    \/ GdtFlush
    \/ TssFlush

----------------------------------------------------------------------------
(* gdt_dump *)

(* get_access_type_str *)
AccessType(access) ==
    LET has(bit) == (access \div bit) % 2 = 1
    IN  CASE ~has(128)                                -> "NotPresent"
          [] has(128) /\ has(16) /\ has(8) /\ has(2)   -> "CodeReadable"
          [] has(128) /\ has(16) /\ has(8) /\ ~has(2)  -> "CodeExecuteOnly"
          [] has(128) /\ has(16) /\ ~has(8) /\ has(2)  -> "DataReadWrite"
          [] has(128) /\ has(16) /\ ~has(8) /\ ~has(2) -> "DataReadOnly"
          [] has(128) /\ ~has(16) /\ access % 16 = 9   -> "TssAvailable"
          [] has(128) /\ ~has(16) /\ access % 16 = 11  -> "TssBusy"
          [] OTHER                                    -> "SystemOther"

ShownLimit(e) == W(e.granularity % 16, e.limit_low)

(* print_gdt_entry *)
PrintGdtEntry(e) ==
    [base  |-> W((256 * e.base_high) + e.base_mid, e.base_low),
     limit |-> ShownLimit(e),
     type  |-> AccessType(e.access),
     dpl   |-> (e.access \div 32) % 4,
     pages |-> e.granularity \div 128 = 1,
     bits32 |-> (e.granularity \div 64) % 2 = 1]

GdtDump == [n \in 0..(GDT_ENTRY_COUNT - 1) |-> PrintGdtEntry(gdts["kernel"][n])]
=============================================================================
