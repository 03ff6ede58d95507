-------------------------------- MODULE Boot --------------------------------
(***************************************************************************)
(* From the BIOS to the kernel: the boot sector (boot/mbr.S) asks for the  *)
(* memory map and reads the loader; the loader (boot/loader.S) enters      *)
(* protected mode, reads the kernel's file from an ATA disk by polling and *)
(* copies its segments; the kernel sets up its descriptor table and takes  *)
(* over the memory map.  Then it may reset: memory keeps what it held.     *)
(*                                                                         *)
(* A cell of low memory is a sector or an entry of the map; a cell of the  *)
(* kernel's memory is a word, two of which make a sector.  The page tables *)
(* are in Vmm.                                                             *)
(***************************************************************************)
EXTENDS Segments, Sequences

CONSTANTS
    Firmwares,            \* memory maps of the BIOS, and how it ends them
    LoaderBase, E820_BUFFER, LowCells,   \* places in low memory
    E820_MAX_ENTRIES,
    KERNEL_SECTORS,
    ProgramHeaders,       \* of the kernel's ELF file
    KernelCells,          \* the kernel's memory, in words
    Byte                  \* values of an LBA register

KERNEL_START_SECTOR == 9
LoaderSectorsPlusOne == 9                               \* mutant
LoaderSectors == 8

(* Eight sectors of 512 bytes behind 0x8000 the map begins, at 0x9000; low *)
(* memory has room for it and for a clear entry behind it.                 *)
ASSUME FirmwareAssumption ==
    /\ LoaderBase \in Nat /\ LoaderBase + 8 <= E820_BUFFER
    /\ E820_BUFFER \in Nat /\ E820_MAX_ENTRIES \in Nat
    /\ \A f \in Firmwares :
           /\ f.byCarry \in BOOLEAN /\ (f.map = << >> => f.byCarry)
           /\ f.map \in Seq(Nat)
           /\ \A k \in 0..Len(f.map) : E820_BUFFER + k \in LowCells

(* The sectors that are read have addresses of 28 bits. *)
ASSUME DiskAssumption ==
    /\ KERNEL_SECTORS \in Nat \ {0} /\ Byte \in Nat \ {0}
    /\ KERNEL_START_SECTOR + KERNEL_SECTORS <= 16 * (Byte * (Byte * Byte))

(* The kernel's file fits into what is read, and its segments are apart.   *)
PT_LOAD == 1
Headers == [type : Nat, offset : Nat, vaddr : Nat, filesz : Nat, memsz : Nat]
Apart(g, h) == g.vaddr + g.filesz <= h.vaddr \/ h.vaddr + h.filesz <= g.vaddr
ASSUME KernelFileAssumption ==
    /\ ProgramHeaders \in Seq(Headers)
    /\ \A n \in 1..Len(ProgramHeaders) :
           LET h == ProgramHeaders[n]
           IN  h.type = PT_LOAD =>
                   /\ h.filesz <= h.memsz /\ h.offset + h.filesz <= 2 * KERNEL_SECTORS
                   /\ \A w \in 0..(h.filesz - 1) : h.vaddr + w \in KernelCells
                   /\ \A m \in 1..(n - 1) :
                          ProgramHeaders[m].type = PT_LOAD => Apart(ProgramHeaders[m], h)

VARIABLES
    at,             \* where the boot is
    firmware,
    low,            \* memory below 1 MB
    di,             \* entries the BIOS has written
    disk,           \* the ATA drive
    esi, edi, ebx,  \* read_disk's registers: LBA, sectors left, words read
    image,          \* the buffer at KERNEL_BIN_LOAD_VIRTUAL_ADDR
    header,         \* the program header do_load_kernel looks at
    memory,         \* where the segments go
    boot_info, count

loadVars == <<esi, edi, ebx, image, header, memory>>
infoVars == <<boot_info, count>>
mapVars  == <<firmware, low, di>>
vars == <<at, mapVars, disk, loadVars, infoVars, segVars>>

----------------------------------------------------------------------------
(* Memory *)

Clear       == [is |-> "clear", n |-> 0]
Sector(n)   == [is |-> "sector", n |-> n]
E820Entry(n) == [is |-> "entry", n |-> n]

Old   == 0            \* a word of memory before the kernel was loaded
Stray == 1            \* a word the data port delivers when no data is ready
Used  == 2            \* a word the kernel has written since
DiskWord(lba, word) == 10 + (2 * lba) + word

ImageCells  == 0..((2 * KERNEL_SECTORS) - 1)
File(word)  == DiskWord(KERNEL_START_SECTOR, word)

NoInfo == [magic |-> FALSE, e820_count |-> 0, e820_map |-> << >>]

(* The drive: idle, a command written but not yet busy, busy, ready, error *)
IdleDrive == [state |-> "idle", lba |-> 0, word |-> 0]

Init ==
    /\ at = "e820"
    /\ firmware \in Firmwares
    /\ low = [c \in LowCells |-> Clear]
    /\ di = 0
    /\ disk = IdleDrive
    /\ esi = 0 /\ edi = 0 /\ ebx = 0
    /\ image = [w \in ImageCells |-> Old]
    /\ header = 0
    /\ memory = [c \in KernelCells |-> Old]
    /\ boot_info = NoInfo /\ count = 0
    /\ InitSegments

----------------------------------------------------------------------------
(* The boot sector *)

(* int 15h, eax = E820h: the next entry, or the carry flag *)
EntryFromBios ==
    /\ at = "e820" /\ di < Len(firmware.map)
    /\ low' = [low EXCEPT ![E820_BUFFER + di] = E820Entry(firmware.map[di + 1])]
    /\ di' = di + 1
    /\ at' = IF di' = Len(firmware.map) /\ ~firmware.byCarry THEN "disk_load" ELSE "e820"
    /\ UNCHANGED <<firmware, disk, loadVars, infoVars, segVars>>

NoMoreEntries ==
    /\ at = "e820" /\ di = Len(firmware.map)
    /\ at' = "disk_load"
    /\ UNCHANGED <<mapVars, disk, loadVars, infoVars, segVars>>

(* int 13h: the loader, or an error, or fewer sectors than were asked for *)
LoadLoader ==
    /\ at = "disk_load"
    /\ low' = [c \in LowCells |->
                  IF c \in LoaderBase..(LoaderBase + LoaderSectors - 1)
                  THEN Sector(1 + c - LoaderBase) ELSE low[c]]
    /\ gdts' = [gdts EXCEPT !.loader = StandardGdt]
    /\ at' = "loader_start"
    /\ UNCHANGED <<firmware, di, disk, loadVars, infoVars, gdtr, tss, seg, tr, step>>

DiskError ==
    /\ at = "disk_load"
    /\ at' = "disk_loop"
    /\ UNCHANGED <<mapVars, disk, loadVars, infoVars, segVars>>

----------------------------------------------------------------------------
(* The loader *)

(* lgdt, PE, the far jump and init_pm's segment registers *)
EnterProtectedMode ==
    /\ at = "loader_start"
    /\ Flush("loader", DataRegisters \ {"gs"})
    /\ at' = "enable_page"
    /\ UNCHANGED <<mapVars, disk, loadVars, infoVars, gdts, tss, tr, step>>

(* The video segment moves to KERNEL_SPACE_START and gs is loaded again. *)
InKernelSpace(e) == [e EXCEPT !.base_high = (@ % 64) + 192]

EnablePage ==
    /\ at = "enable_page"
    /\ gdts' = [gdts EXCEPT !.loader[Video] = InKernelSpace(@)]
    /\ seg' = [seg EXCEPT !["gs"] = Descriptor(InKernelSpace(gdts["loader"][Video]))]
    /\ at' = "load_hd_kernel_image"
    /\ UNCHANGED <<mapVars, disk, loadVars, infoVars, gdtr, tss, tr, step>>

LoadHdKernelImage ==
    /\ at = "load_hd_kernel_image"
    /\ esi' = KERNEL_START_SECTOR /\ edi' = KERNEL_SECTORS /\ ebx' = 0
    /\ at' = "next_sector"
    /\ UNCHANGED <<mapVars, disk, image, header, memory, infoVars, segVars>>

(* The LBA registers, the address shifted out byte by byte, and the command *)
LbaRegisters(lba) ==
    << lba % Byte, (lba \div Byte) % Byte, (lba \div (Byte * Byte)) % Byte,
       (lba \div (Byte * Byte * Byte)) % 16 >>
LbaOf(r) == r[1] + (Byte * r[2]) + (Byte * Byte * r[3]) + (Byte * Byte * Byte * r[4])

NextSector ==
    /\ at = "next_sector"
    /\ disk' = [state |-> "accepted", lba |-> LbaOf(LbaRegisters(esi)), word |-> 0]
    /\ at' = "wait_ready"
    /\ UNCHANGED <<mapVars, loadVars, infoVars, segVars>>

BSY == disk.state = "busy"
DRQ == disk.state = "ready"

NotBusy == ~BSY                                         \* mutant: DRQ not tested
Ready   == ~BSY /\ DRQ

(* One round of the loop; the error bit is not looked at. *)
WaitReady ==
    /\ at = "wait_ready"
    /\ at' = IF Ready THEN "read_word" ELSE at
    /\ UNCHANGED <<mapVars, disk, loadVars, infoVars, segVars>>

NoCommand   == "wait_ready"                             \* mutant
AfterSector == "next_sector"

ReadWord ==
    /\ at = "read_word"
    /\ image' = [image EXCEPT ![ebx] = IF DRQ THEN DiskWord(disk.lba, disk.word) ELSE Stray]
    /\ ebx' = ebx + 1
    /\ disk' = IF ~DRQ THEN disk
               ELSE IF disk.word = 1 THEN IdleDrive ELSE [disk EXCEPT !.word = 1]
    /\ IF ebx % 2 = 0
       THEN at' = at /\ UNCHANGED <<esi, edi>>
       ELSE /\ esi' = esi + 1 /\ edi' = edi - 1
            /\ at' = IF edi' # 0 THEN AfterSector ELSE "load_each_segment"
    /\ header' = IF at' = "load_each_segment" THEN 1 ELSE 0
    /\ UNCHANGED <<mapVars, memory, infoVars, segVars>>

(* The drive takes its time to show that it is busy, and may fail. *)
DriveStarts ==
    /\ disk.state = "accepted"
    /\ disk' = [disk EXCEPT !.state = "busy"]
    /\ UNCHANGED <<at, mapVars, loadVars, infoVars, segVars>>

DriveEnds(state) ==
    /\ disk.state = "busy"
    /\ disk' = [disk EXCEPT !.state = state]
    /\ UNCHANGED <<at, mapVars, loadVars, infoVars, segVars>>

(* do_load_kernel: a program header of type PT_LOAD has filesz words of    *)
(* the file copied; the rest of memsz is left as it is.                    *)
LoadSegment ==
    /\ at = "load_each_segment" /\ header <= Len(ProgramHeaders)
    /\ LET h == ProgramHeaders[header]
       IN  memory' = [c \in KernelCells |->
                         IF h.type = PT_LOAD /\ c \in h.vaddr..(h.vaddr + h.filesz - 1)
                         THEN image[h.offset + c - h.vaddr] ELSE memory[c]]
    /\ header' = header + 1
    /\ at' = IF header' > Len(ProgramHeaders) THEN "gdt_init" ELSE at
    /\ UNCHANGED <<mapVars, disk, esi, edi, ebx, image, infoVars, segVars>>

----------------------------------------------------------------------------
(* The kernel: gdt_init and boot_info_init *)

InGdtInit ==
    /\ at = "gdt_init"
    /\ GdtInit
    /\ at' = IF step' = GdtDone THEN "boot_info_init" ELSE at
    /\ UNCHANGED <<mapVars, disk, loadVars, infoVars>>

Terminates(cell) == cell = Clear

(* One round of the loop over the buffer *)
CopyEntry ==
    /\ at = "boot_info_init"
    /\ count < E820_MAX_ENTRIES /\ ~Terminates(low[E820_BUFFER + count])
    /\ boot_info' = [boot_info EXCEPT !.magic = TRUE,
                                      !.e820_map = Append(@, low[E820_BUFFER + count])]
    /\ count' = count + 1
    /\ UNCHANGED <<at, mapVars, disk, loadVars, segVars>>

CountEntries ==
    /\ at = "boot_info_init"
    /\ count = E820_MAX_ENTRIES \/ Terminates(low[E820_BUFFER + count])
    /\ boot_info' = [boot_info EXCEPT !.magic = TRUE, !.e820_count = count]
    /\ at' = "running"
    /\ UNCHANGED <<mapVars, disk, loadVars, count, segVars>>

(* The kernel has written to all its memory. *)
Run ==
    /\ at = "running"
    /\ memory' = [c \in KernelCells |-> Used]
    /\ UNCHANGED <<at, mapVars, disk, esi, edi, ebx, image, header, infoVars, segVars>>

----------------------------------------------------------------------------
(* A reset, at any time: registers and devices start anew, memory does not. *)
Reset ==
    /\ at' = "e820"
    /\ di' = 0 /\ disk' = IdleDrive
    /\ esi' = 0 /\ edi' = 0 /\ ebx' = 0 /\ header' = 0
    /\ boot_info' = NoInfo /\ count' = 0
    /\ gdtr' = "none" /\ seg' = [r \in Registers |-> NullDescriptor]
    /\ tr' = NullDescriptor /\ step' = GdtIdle
    /\ UNCHANGED <<firmware, low, image, memory, gdts, tss>>

BootSector == EntryFromBios \/ NoMoreEntries \/ LoadLoader \/ DiskError
Loader     == EnterProtectedMode \/ EnablePage \/ LoadHdKernelImage \/ NextSector
                  \/ WaitReady \/ ReadWord \/ LoadSegment
Kernel     == InGdtInit \/ CopyEntry \/ CountEntries \/ Run
Drive      == DriveStarts \/ DriveEnds("ready") \/ DriveEnds("error")

Next == BootSector \/ Loader \/ Kernel \/ Drive \/ Reset

(* The processor goes on, and so does the drive, to an error if need be.   *)
Spec == Init /\ [][Next]_vars
             /\ WF_vars(BootSector \/ Loader \/ Kernel) /\ WF_vars(Drive)

----------------------------------------------------------------------------
(* Properties *)

Least(m, n) == IF m < n THEN m ELSE n

(* The kernel's memory map is the firmware's, or its first entries when    *)
(* there are too many, though nobody ends the list in the buffer or clears *)
(* it before a reset, and the loader is read in right below it.            *)
MapIsTheFirmwares ==
    at = "running" =>
        LET n == Least(Len(firmware.map), E820_MAX_ENTRIES)
        IN  /\ boot_info.e820_count = n
            /\ boot_info.e820_map = [i \in 1..n |-> E820Entry(firmware.map[i])]

(* When the kernel starts its segments are in memory as they are in the    *)
(* file on disk, however slow the drive is to become busy and then ready.  *)
KernelIsLoaded ==
    at \in {"gdt_init", "boot_info_init"} =>
        \A n \in 1..Len(ProgramHeaders) :
            LET h == ProgramHeaders[n]
            IN  h.type = PT_LOAD =>
                    \A w \in 0..(h.filesz - 1) : memory[h.vaddr + w] = File(h.offset + w)

IsFlat(d) ==
    /\ d.base = W(0, 0) /\ d.limit = W(15, 65535) /\ d.pages /\ d.bits32
    /\ d.present /\ d.dpl = 0

(* From protected mode on, code, data and stack can reach every address,   *)
(* and gs can write: no register was loaded from an entry that was not     *)
(* there yet, or from one that a mistake in its bits makes smaller.        *)
SegmentsAreFlat ==
    gdtr # "none" =>
        /\ \A r \in Registers \ {"gs"} : IsFlat(seg[r])
        /\ IsCode(seg["cs"])
        /\ \A r \in DataRegisters : IsData(seg[r]) /\ seg[r].present /\ seg[r].dpl = 0

(* The task register holds a busy TSS as long as the structure, with the   *)
(* map of I/O ports behind its end, and a stack that ring 0 can use.       *)
TaskStateFits ==
    /\ tr.present /\ tr.system /\ tr.type = 11
    /\ tr.base = TssAddress /\ tr.limit = W(0, TssSize - 1) /\ ~tr.pages
    /\ tss.iomap_base > tr.limit.lo
    /\ IsFlat(Selected("kernel", tss.ss0 \div 8))
    /\ IsData(Selected("kernel", tss.ss0 \div 8))

(* gdt_dump shows of every entry what the processor makes of it.           *)
DumpShowsTheTable ==
    \A n \in 0..(GDT_ENTRY_COUNT - 1) :
        LET d == Selected("kernel", n) s == GdtDump[n]
        IN  /\ s.base = d.base /\ s.limit = d.limit /\ s.dpl = d.dpl
            /\ s.pages = d.pages /\ s.bits32 = d.bits32
            /\ (s.type = "NotPresent") = ~d.present
            /\ (s.type \in {"CodeReadable", "CodeExecuteOnly"}) =
                   (d.present /\ IsCode(d))
            /\ (s.type = "DataReadWrite") = (d.present /\ IsData(d))
            /\ (s.type = "TssBusy") = (d.present /\ d.system /\ d.type = 11)

(* The bits that the loader and gdt_init put together in pieces are, when  *)
(* the processor takes them apart, the segments that were meant: at every  *)
(* moment of the boot for the registers, after gdt_init for TSS and dump.  *)
DescriptorsAreRight ==
    /\ SegmentsAreFlat
    /\ step = GdtDone => TaskStateFits /\ DumpShowsTheTable

(* Every boot ends in the running kernel, in the boot sector's message, or *)
(* in a reset, unless the drive reports an error, which is waited for.     *)
BootEnds ==
    []<>(at \in {"running", "disk_loop", "e820"} \/ disk.state = "error")
=============================================================================
