----------------------------- MODULE BootProofs -----------------------------
(***************************************************************************)
(* What the boot hands over, for any firmware, kernel file and speed of    *)
(* the drive, after any number of resets: the kernel as it is on disk, the *)
(* memory map as the firmware reports it, and flat segments.               *)
(***************************************************************************)
EXTENDS Boot, SequenceTheorems, TLAPS

----------------------------------------------------------------------------
(* The bits of an entry *)

Entry(limit, bottom, mid, access, flags, high) ==
    [limit_low |-> limit, base_low |-> bottom, base_mid |-> mid, access |-> access,
     granularity |-> flags, base_high |-> high]
Slots == 0..(GDT_ENTRY_COUNT - 1)

(* Of a descriptor d, what it has from the parts of its entry *)
Shows(d, limit, bottom, mid, access, flags, high) ==
    /\ d.base = W((256 * high) + mid, bottom) /\ d.limit = W(flags % 16, limit)
    /\ d.pages <=> flags \div 128 = 1
    /\ d.bits32 <=> (flags \div 64) % 2 = 1
    /\ d.present <=> access \div 128 = 1
    /\ d.dpl = (access \div 32) % 4
    /\ d.system <=> (access \div 16) % 2 = 0
    /\ d.type = access % 16

LEMMA DescriptorShows ==
    ASSUME NEW e
    PROVE  Shows(Descriptor(e), e.limit_low, e.base_low, e.base_mid, e.access, e.granularity,
                 e.base_high)
BY Zenon DEF Descriptor, Shows

LEMMA EntryShows ==
    ASSUME NEW limit, NEW bottom, NEW mid, NEW access, NEW flags, NEW high
    PROVE  Shows(Descriptor(Entry(limit, bottom, mid, access, flags, high)),
                 limit, bottom, mid, access, flags, high)
<1> DEFINE e == Entry(limit, bottom, mid, access, flags, high)
<1>1. /\ e.limit_low = limit /\ e.base_low = bottom /\ e.base_mid = mid /\ e.access = access
      /\ e.granularity = flags /\ e.base_high = high
  BY DEF Entry
<1> HIDE DEF e
<1>2. Shows(Descriptor(e), e.limit_low, e.base_low, e.base_mid, e.access, e.granularity,
            e.base_high)
  BY DescriptorShows
<1>3. Shows(Descriptor(e), limit, bottom, mid, access, flags, high)
  BY <1>1, <1>2
<1> QED
  BY <1>3 DEF e

LEMMA Halves == \A h \in Nat : h % 256 \in Nat /\ (256 * (h \div 256)) + (h % 256) = h
OBVIOUS

LEMMA FlatEntries ==
    ASSUME NEW access \in Nat
    PROVE  Flat(access, 192) = Entry(65535, 0, 0, access, 207, 0)
<1>1. 15 % 16 = 15 /\ 192 % 16 = 0 /\ 0 \div 256 = 0 /\ 0 % 256 = 0
  OBVIOUS
<1> QED
  BY <1>1 DEF Flat, GdtGate, Entry, W, MidByte

(* The code and the data segment that the loader and the kernel use *)
LEMMA CodeIsFlat ==
    ASSUME NEW d, Shows(d, 65535, 0, 0, 154, 207, 0)
    PROVE  IsFlat(d) /\ IsCode(d)
<1>1. 207 % 16 = 15 /\ 207 \div 128 = 1 /\ (207 \div 64) % 2 = 1
  OBVIOUS
<1>2. 154 \div 128 = 1 /\ (154 \div 32) % 4 = 0 /\ (154 \div 16) % 2 # 0 /\ 154 % 16 = 10
  OBVIOUS
<1>3. d.base = W(0, 0) /\ d.limit = W(15, 65535) /\ d.dpl = 0 /\ d.type = 10
  BY <1>1, <1>2 DEF Shows
<1>4. d.pages /\ d.bits32 /\ d.present /\ ~d.system
  BY <1>1, <1>2, SMT DEF Shows
<1>5. 10 \div 8 = 1
  OBVIOUS
<1> QED
  BY <1>3, <1>4, <1>5, SMT DEF IsFlat, IsCode

LEMMA DataIsFlat ==
    ASSUME NEW d, Shows(d, 65535, 0, 0, 146, 207, 0)
    PROVE  IsFlat(d) /\ IsData(d)
<1>1. 207 % 16 = 15 /\ 207 \div 128 = 1 /\ (207 \div 64) % 2 = 1
  OBVIOUS
<1>2. 146 \div 128 = 1 /\ (146 \div 32) % 4 = 0 /\ (146 \div 16) % 2 # 0 /\ 146 % 16 = 2
  OBVIOUS
<1>3. d.base = W(0, 0) /\ d.limit = W(15, 65535) /\ d.dpl = 0 /\ d.type = 2
  BY <1>1, <1>2 DEF Shows
<1>4. d.pages /\ d.bits32 /\ d.present /\ ~d.system
  BY <1>1, <1>2, SMT DEF Shows
<1>5. 2 \div 8 = 0 /\ (2 \div 2) % 2 = 1
  OBVIOUS
<1> QED
  BY <1>3, <1>4, <1>5, SMT DEF IsFlat, IsData

(* The segment of the video memory, wherever it lies *)
LEMMA VideoIsData ==
    ASSUME NEW d, NEW limit, NEW bottom, NEW mid, NEW flags, NEW high,
           Shows(d, limit, bottom, mid, 146, flags, high)
    PROVE  IsData(d) /\ d.present /\ d.dpl = 0
<1>1. 146 \div 128 = 1 /\ (146 \div 32) % 4 = 0 /\ (146 \div 16) % 2 # 0 /\ 146 % 16 = 2
  OBVIOUS
<1>2. d.dpl = 0 /\ d.type = 2
  BY <1>1 DEF Shows
<1>3. d.present /\ ~d.system
  BY <1>1, SMT DEF Shows
<1>4. 2 \div 8 = 0 /\ (2 \div 2) % 2 = 1
  OBVIOUS
<1> QED
  BY <1>2, <1>3, <1>4, SMT DEF IsData

LEMMA TwoHalves ==
    ASSUME NEW half, NEW x, x \in [hi : half, lo : half]
    PROVE  x.hi \in half /\ x.lo \in half /\ x = [hi |-> x.hi, lo |-> x.lo]
OBVIOUS

LEMMA TssAddressIsWhole ==
    /\ TssAddress.hi \in Nat /\ TssAddress.lo \in Nat
    /\ W((256 * (TssAddress.hi \div 256)) + (TssAddress.hi % 256), TssAddress.lo) = TssAddress
<1> DEFINE most == 65535
           half == 0..most
<1>0. most \in Nat
  OBVIOUS
<1>1. Words = [hi : half, lo : half]
  BY DEF Words
<1> HIDE DEF most
<1>2. \A h \in half : h \in Nat
  BY <1>0
<1> HIDE DEF half
<1>3. TssAddress \in [hi : half, lo : half]
  BY <1>1, TssAssumption
<1>4. TssAddress.hi \in Nat /\ TssAddress.lo \in Nat
  BY <1>2, <1>3, TwoHalves
<1>5. (256 * (TssAddress.hi \div 256)) + (TssAddress.hi % 256) = TssAddress.hi
  BY <1>4, Halves
<1>6. [hi |-> TssAddress.hi, lo |-> TssAddress.lo] = TssAddress
  BY <1>3, TwoHalves
<1> QED
  BY <1>4, <1>5, <1>6 DEF W

LEMMA TaskStateIsBusy ==
    ASSUME NEW d, Shows(d, 103, TssAddress.lo, TssAddress.hi % 256, 139, 64,
                        TssAddress.hi \div 256)
    PROVE  /\ d.present /\ d.system /\ d.type = 11
           /\ d.base = TssAddress /\ d.limit = W(0, TssSize - 1) /\ ~d.pages
<1> DEFINE bottom ==  TssAddress.lo
           mid  == TssAddress.hi % 256
           high == TssAddress.hi \div 256
<1>1. Shows(d, 103, bottom, mid, 139, 64, high)
  BY Zenon
<1>2. W((256 * high) + mid, bottom) = TssAddress
  BY TssAddressIsWhole, Zenon
<1> HIDE DEF bottom, mid, high
<1>3. 64 % 16 = 0 /\ 64 \div 128 = 0 /\ TssSize - 1 = 103
  BY SMT DEF TssSize, Shows
<1>4. 139 \div 128 = 1 /\ (139 \div 16) % 2 = 0 /\ 139 % 16 = 11
  BY SMT DEF Shows
<1>5. d.base = TssAddress
  BY <1>1, <1>2, Zenon DEF Shows
<1>6. d.type = 11 /\ d.limit = W(0, TssSize - 1)
  BY <1>1, <1>3, <1>4 DEF Shows
<1>7. d.present /\ d.system /\ ~d.pages
  BY <1>1, <1>3, <1>4, SMT DEF Shows
<1> QED
  BY <1>5, <1>6, <1>7

----------------------------------------------------------------------------
(* gdt_dump *)

(* What get_access_type_str makes of a byte is what the processor does. *)
LEMMA AccessTypeIsRight ==
    ASSUME NEW a \in 0..255
    PROVE  /\ AccessType(a) = "NotPresent" <=> a \div 128 # 1
           /\ AccessType(a) \in {"CodeReadable", "CodeExecuteOnly"} <=>
                  a \div 128 = 1 /\ (a \div 16) % 2 # 0 /\ (a % 16) \div 8 = 1
           /\ AccessType(a) = "DataReadWrite" <=>
                  /\ a \div 128 = 1 /\ (a \div 16) % 2 # 0
                  /\ (a % 16) \div 8 = 0 /\ ((a % 16) \div 2) % 2 = 1
           /\ AccessType(a) = "TssBusy" <=>
                  a \div 128 = 1 /\ (a \div 16) % 2 = 0 /\ a % 16 = 11
<1> DEFINE b7 == (a \div 128) % 2 = 1
           b4 == (a \div 16) % 2 = 1
           b3 == (a \div 8) % 2 = 1
           b1 == (a \div 2) % 2 = 1
           t  == a % 16
<1>1. (a \div 128 = 1 <=> b7) /\ ((a \div 16) % 2 = 0 <=> ~b4)
  OBVIOUS
<1>2. ((a % 16) \div 8 = 1 <=> b3) /\ ((a % 16) \div 8 = 0 <=> ~b3)
  OBVIOUS
<1>3. ((a % 16) \div 2) % 2 = 1 <=> b1
  OBVIOUS
<1>4. AccessType(a) =
          CASE ~b7                           -> "NotPresent"
            [] b7 /\ b4 /\ b3 /\ b1          -> "CodeReadable"
            [] b7 /\ b4 /\ b3 /\ ~b1         -> "CodeExecuteOnly"
            [] b7 /\ b4 /\ ~b3 /\ b1         -> "DataReadWrite"
            [] b7 /\ b4 /\ ~b3 /\ ~b1        -> "DataReadOnly"
            [] b7 /\ ~b4 /\ t = 9            -> "TssAvailable"
            [] b7 /\ ~b4 /\ t = 11           -> "TssBusy"
            [] OTHER                         -> "SystemOther"
  BY DEF AccessType
<1>5. t = a % 16
  OBVIOUS
<1> HIDE DEF b7, b4, b3, b1, t
<1> QED
  BY <1>1, <1>2, <1>3, <1>4, <1>5

(* What print_gdt_entry shows of an entry of which the processor makes d *)
Tells(s, d) ==
    /\ s.base = d.base /\ s.limit = d.limit /\ s.dpl = d.dpl
    /\ s.pages = d.pages /\ s.bits32 = d.bits32
    /\ (s.type = "NotPresent") = ~d.present
    /\ (s.type \in {"CodeReadable", "CodeExecuteOnly"}) = (d.present /\ IsCode(d))
    /\ (s.type = "DataReadWrite") = (d.present /\ IsData(d))
    /\ (s.type = "TssBusy") = (d.present /\ d.system /\ d.type = 11)

LEMMA EveryDumpIsRight ==
    ASSUME NEW e, e.access \in 0..255
    PROVE  Tells(PrintGdtEntry(e), Descriptor(e))
<1> DEFINE d == Descriptor(e)
           s == PrintGdtEntry(e)
           a == e.access
           kind == AccessType(a)
<1>1. /\ s.base = d.base /\ s.limit = d.limit /\ s.dpl = d.dpl
      /\ s.pages = d.pages /\ s.bits32 = d.bits32
  BY Zenon DEF PrintGdtEntry, ShownLimit, Descriptor
<1>2. s.type = kind
  BY Zenon DEF PrintGdtEntry
<1>3. Shows(d, e.limit_low, e.base_low, e.base_mid, a, e.granularity, e.base_high)
  BY DescriptorShows
<1>4. a \in 0..255
  OBVIOUS
<1>5. /\ kind = "NotPresent" <=> a \div 128 # 1
      /\ kind \in {"CodeReadable", "CodeExecuteOnly"} <=>
             a \div 128 = 1 /\ (a \div 16) % 2 # 0 /\ (a % 16) \div 8 = 1
      /\ kind = "DataReadWrite" <=>
             /\ a \div 128 = 1 /\ (a \div 16) % 2 # 0
             /\ (a % 16) \div 8 = 0 /\ ((a % 16) \div 2) % 2 = 1
      /\ kind = "TssBusy" <=>
             a \div 128 = 1 /\ (a \div 16) % 2 = 0 /\ a % 16 = 11
  BY <1>4, AccessTypeIsRight
<1> HIDE DEF d, s, a, kind
<1>6. /\ d.present <=> a \div 128 = 1
      /\ d.system <=> (a \div 16) % 2 = 0
      /\ d.type = a % 16
  BY <1>3, Zenon DEF Shows
<1>7. /\ kind = "NotPresent" <=> ~d.present
      /\ kind \in {"CodeReadable", "CodeExecuteOnly"} <=> d.present /\ IsCode(d)
      /\ kind = "DataReadWrite" <=> d.present /\ IsData(d)
      /\ kind = "TssBusy" <=> d.present /\ d.system /\ d.type = 11
  BY <1>5, <1>6, SMT DEF IsCode, IsData
<1>8. (kind = "NotPresent") = ~d.present
  BY <1>7, SMT
<1>9. (kind \in {"CodeReadable", "CodeExecuteOnly"}) = (d.present /\ IsCode(d))
  BY <1>7, SMT
<1>10. (kind = "DataReadWrite") = (d.present /\ IsData(d))
  BY <1>7, SMT
<1>11. (kind = "TssBusy") = (d.present /\ d.system /\ d.type = 11)
  BY <1>7, SMT
<1>12. Tells(s, d)
  BY <1>1, <1>2, <1>8, <1>9, <1>10, <1>11, Zenon DEF Tells
<1> QED
  BY <1>12, Zenon DEF d, s

----------------------------------------------------------------------------
(* The tables while gdt_init builds them *)

BusyTss == Busy(Gate(TssEntry))

TablesAreTables ==
    /\ DOMAIN gdts = {"loader", "kernel"}
    /\ DOMAIN gdts["loader"] = 0..3 /\ DOMAIN gdts["kernel"] = Slots
    /\ DOMAIN seg = Registers
    /\ step \in 0..(Cleared + GDT_ENTRY_COUNT + 2) \cup {GdtDone}

(* What gdt_init has set is there until the next reset, and ltr marks the  *)
(* TSS busy at the end; the loader has its table when it uses it.          *)
TablesAreBuilt ==
    /\ step # GdtDone =>
           \A n \in Slots : step > Cleared + n => gdts["kernel"][n] = Gate(n)
    /\ step = GdtDone =>
           /\ \A n \in Slots \ {TssEntry} : gdts["kernel"][n] = Gate(n)
           /\ gdts["kernel"][TssEntry] = BusyTss /\ tr = Descriptor(BusyTss)
    /\ step > Cleared + GDT_ENTRY_COUNT =>
           tss = [ss0 |-> 8 * KernelData, esp0 |-> GDT_TSS_ESP0, iomap_base |-> TssSize]
    /\ at \in {"loader_start", "enable_page"} => gdts["loader"] = StandardGdt

SegmentsInv == TablesAreTables /\ TablesAreBuilt /\ SegmentsAreFlat

----------------------------------------------------------------------------
(* The entries that matter *)

FlatCode == Entry(65535, 0, 0, 154, 207, 0)
FlatData == Entry(65535, 0, 0, 146, 207, 0)
VideoEntry(limit, high) == Entry(limit, 32768, 11, 146, 0, high)

LEMMA FlatGates ==
    /\ Gate(KernelCode) = FlatCode
    /\ Gate(KernelData) = FlatData
    /\ StandardGdt[KernelCode] = FlatCode
    /\ StandardGdt[KernelData] = FlatData
<1>1. Flat(154, 192) = FlatCode
  BY FlatEntries DEF FlatCode
<1>2. Flat(146, 192) = FlatData
  BY FlatEntries DEF FlatData
<1>3. /\ GDT_CODE_KERNEL = 154 /\ GDT_FLAGS_KERNEL = 192 /\ 128 + 64 = 192
      /\ GDT_DATA_KERNEL = 146
  BY DEF GDT_CODE_KERNEL, GDT_DATA_KERNEL, GDT_FLAGS_KERNEL
<1>4. Gate(KernelCode) = Flat(GDT_CODE_KERNEL, GDT_FLAGS_KERNEL)
  BY DEF Gate, KernelCode, KernelData, Video, TssEntry
<1>5. Gate(KernelData) = Flat(GDT_DATA_KERNEL, GDT_FLAGS_KERNEL)
  BY DEF Gate, KernelCode, KernelData, Video, TssEntry
<1>6. StandardGdt[KernelCode] = Flat(GDT_CODE_KERNEL, 128 + 64)
  BY DEF StandardGdt, KernelCode, KernelData, Video
<1>7. StandardGdt[KernelData] = Flat(GDT_DATA_KERNEL, 128 + 64)
  BY DEF StandardGdt, KernelCode, KernelData, Video
<1> QED
  BY <1>1, <1>2, <1>3, <1>4, <1>5, <1>6, <1>7

LEMMA VideoGates ==
    /\ Gate(Video) = VideoEntry(32767, 0)
    /\ StandardGdt[Video] = VideoEntry(2047, 0)
    /\ InKernelSpace(StandardGdt[Video]) = VideoEntry(2047, 192)
<1>1. GDT_DATA_KERNEL = 146 /\ GDT_FLAGS_VEDIO = 0
  BY DEF GDT_DATA_KERNEL, GDT_FLAGS_VEDIO
<1>2. 11 % 256 = 11 /\ 11 \div 256 = 0 /\ 0 % 16 = 0 /\ 0 % 64 = 0
  OBVIOUS
<1>3. Gate(Video) = GdtGate(W(11, 32768), W(0, 32767), 146, 0)
  BY <1>1 DEF Gate, KernelCode, KernelData, Video, TssEntry
<1>4. StandardGdt[Video] = GdtGate(W(11, 32768), W(0, 2047), 146, 0)
  BY <1>1 DEF StandardGdt, KernelCode, KernelData, Video
<1>5. \A limit \in Nat : GdtGate(W(11, 32768), W(0, limit), 146, 0)
                             = VideoEntry(limit, 0)
  BY <1>2 DEF GdtGate, W, MidByte, Entry, VideoEntry
<1>6. InKernelSpace(VideoEntry(2047, 0)) = VideoEntry(2047, 192)
  BY <1>2 DEF InKernelSpace, Entry, VideoEntry
<1> QED
  BY <1>3, <1>4, <1>5, <1>6

LEMMA TssGate ==
    BusyTss = Entry(103, TssAddress.lo, TssAddress.hi % 256, 139, 64, TssAddress.hi \div 256)
<1>1. GDT_TSS_AVAIL = 137 /\ GDT_FLAGS_TSS = 64 /\ TssLimit = W(0, 103)
  BY DEF GDT_TSS_AVAIL, GDT_FLAGS_TSS, TssLimit, TssSize
<1>2. 0 % 16 = 0 /\ 64 % 16 = 0
  OBVIOUS
<1>3. Gate(TssEntry) = GdtGate(TssAddress, W(0, 103), 137, 64)
  BY <1>1 DEF Gate, KernelCode, KernelData, Video, TssEntry
<1>4. GdtGate(TssAddress, W(0, 103), 137, 64)
          = Entry(103, TssAddress.lo, TssAddress.hi % 256, 137, 64, TssAddress.hi \div 256)
  BY <1>2 DEF GdtGate, W, MidByte, Entry
<1>5. \A b, m, h : Busy(Entry(103, b, m, 137, 64, h)) = Entry(103, b, m, 139, 64, h)
  BY DEF Busy, Entry
<1> QED
  BY <1>3, <1>4, <1>5 DEF BusyTss

LEMMA GateAccess ==
    /\ \A n \in Slots : Gate(n).access \in 0..255
    /\ BusyTss.access \in 0..255
<1>1. \A base, limit, access, gran : GdtGate(base, limit, access, gran).access = access
  BY Zenon DEF GdtGate
<1>2. \A access, flags : Flat(access, flags).access = access
  BY <1>1 DEF Flat
<1>3. /\ GDT_CODE_KERNEL \in 0..255 /\ GDT_DATA_KERNEL \in 0..255 /\ GDT_CODE_USER \in 0..255
      /\ GDT_DATA_USER \in 0..255 /\ GDT_TSS_AVAIL \in 0..255 /\ 0 \in 0..255 /\ 139 \in 0..255
  BY DEF GDT_CODE_KERNEL, GDT_DATA_KERNEL, GDT_CODE_USER, GDT_DATA_USER, GDT_TSS_AVAIL
<1> DEFINE bytes == 0..255
<1> HIDE DEF bytes
<1>4. \A n \in Slots : Gate(n).access \in bytes
  BY <1>1, <1>2, <1>3 DEF Gate, bytes
<1>5. BusyTss.access = 139
  BY TssGate DEF Entry
<1> QED
  BY <1>3, <1>4, <1>5 DEF bytes

----------------------------------------------------------------------------
(* A flush from a table whose entries are the ones that matter *)

LEMMA VideoEntryIsData ==
    ASSUME NEW limit, NEW high
    PROVE  LET d == Descriptor(VideoEntry(limit, high))
           IN  IsData(d) /\ d.present /\ d.dpl = 0
<1> DEFINE d == Descriptor(VideoEntry(limit, high))
<1>1. Shows(d, limit, 32768, 11, 146, 0, high)
  BY EntryShows DEF VideoEntry
<1> HIDE DEF d
<1>2. IsData(d) /\ d.present /\ d.dpl = 0
  BY <1>1, VideoIsData
<1> QED
  BY <1>2 DEF d

LEMMA FlatIsPresent ==
    ASSUME NEW d, IsFlat(d)
    PROVE  d.present /\ d.dpl = 0
BY SMT DEF IsFlat

LEMMA SelectedAreFlat ==
    ASSUME NEW table,
           gdts[table][KernelCode] = FlatCode,
           gdts[table][KernelData] = FlatData
    PROVE  /\ IsFlat(Selected(table, KernelCode)) /\ IsCode(Selected(table, KernelCode))
           /\ IsFlat(Selected(table, KernelData)) /\ IsData(Selected(table, KernelData))
<1>1. Shows(Selected(table, KernelCode), 65535, 0, 0, 154, 207, 0)
  BY EntryShows DEF Selected, FlatCode
<1>2. Shows(Selected(table, KernelData), 65535, 0, 0, 146, 207, 0)
  BY EntryShows DEF Selected, FlatData
<1> QED
  BY <1>1, <1>2, CodeIsFlat, DataIsFlat

LEMMA FlushIsFlat ==
    ASSUME NEW table, NEW regs, DataRegisters \ {"gs"} \subseteq regs,
           gdts[table][KernelCode] = FlatCode,
           gdts[table][KernelData] = FlatData,
           \E limit, high : gdts[table][Video] = VideoEntry(limit, high),
           Flush(table, regs)
    PROVE  SegmentsAreFlat' /\ DOMAIN seg' = Registers
<1> DEFINE code == Selected(table, KernelCode)
           data == Selected(table, KernelData)
           video == Selected(table, Video)
<1>1. IsFlat(code) /\ IsCode(code) /\ IsFlat(data) /\ IsData(data)
  BY SelectedAreFlat
<1>2. IsData(video) /\ video.present /\ video.dpl = 0
  <2>1. PICK limit, high : gdts[table][Video] = VideoEntry(limit, high)
    OBVIOUS
  <2> QED
    BY <2>1, VideoEntryIsData, Zenon DEF Selected
<1>3. data.present /\ data.dpl = 0
  BY <1>1, FlatIsPresent, Zenon
<1>4. seg' = [r \in Registers |-> IF r = "cs" THEN code ELSE IF r \in regs THEN data ELSE video]
  BY Zenon DEF Flush
<1> HIDE DEF code, data, video
<1>5. DOMAIN seg' = Registers /\ seg'["cs"] = code
  BY <1>4 DEF Registers
<1>6. \A r \in Registers \ {"gs"} : seg'[r] \in {code, data}
  BY <1>4 DEF Registers, DataRegisters
<1>7. \A r \in DataRegisters : seg'[r] \in {data, video}
  BY <1>4 DEF Registers, DataRegisters
<1> QED
  BY <1>1, <1>2, <1>3, <1>5, <1>6, <1>7, Zenon DEF SegmentsAreFlat

----------------------------------------------------------------------------
(* Every step keeps SegmentsInv. *)

LEMMA SegmentsBegin == InitSegments /\ at = "e820" => SegmentsInv
<1> SUFFICES ASSUME InitSegments, at = "e820" PROVE SegmentsInv
  OBVIOUS
<1>1. TablesAreTables
  BY DEF InitSegments, TablesAreTables, GdtIdle, Cleared, GDT_ENTRY_COUNT, Slots
<1>2. TablesAreBuilt
  BY DEF InitSegments, TablesAreBuilt, GdtIdle, Cleared, GDT_ENTRY_COUNT, Slots, GdtDone
<1>3. SegmentsAreFlat
  BY DEF InitSegments, SegmentsAreFlat
<1> QED
  BY <1>1, <1>2, <1>3 DEF SegmentsInv

LEMMA SegmentsStutter ==
    ASSUME SegmentsInv, UNCHANGED segVars,
           at' \notin {"loader_start", "enable_page"} \/ at' = at
    PROVE  SegmentsInv'
BY Zenon DEF SegmentsInv, TablesAreTables, TablesAreBuilt, SegmentsAreFlat, segVars, Selected

LEMMA SegmentsLoadLoader ==
    ASSUME SegmentsInv, LoadLoader
    PROVE  SegmentsInv'
<1>1. /\ DOMAIN gdts' = DOMAIN gdts /\ gdts'["kernel"] = gdts["kernel"]
      /\ gdts'["loader"] = StandardGdt
  BY DEF SegmentsInv, TablesAreTables, LoadLoader
<1>2. DOMAIN StandardGdt = 0..3
  BY DEF StandardGdt
<1>3. UNCHANGED <<gdtr, tss, seg, tr, step>>
  BY DEF LoadLoader
<1>4. TablesAreTables'
  BY <1>1, <1>2, <1>3, Zenon DEF SegmentsInv, TablesAreTables
<1>5. TablesAreBuilt'
  BY <1>1, <1>3, Zenon DEF SegmentsInv, TablesAreBuilt
<1>6. SegmentsAreFlat'
  BY <1>3, Zenon DEF SegmentsInv, SegmentsAreFlat
<1> QED
  BY <1>4, <1>5, <1>6, Zenon DEF SegmentsInv

LEMMA SegmentsEnterProtectedMode ==
    ASSUME SegmentsInv, EnterProtectedMode
    PROVE  SegmentsInv'
<1>1. gdts["loader"] = StandardGdt
  BY DEF SegmentsInv, TablesAreBuilt, EnterProtectedMode
<1>2. UNCHANGED <<gdts, tss, tr, step>>
  BY DEF EnterProtectedMode
<1>3. SegmentsAreFlat' /\ DOMAIN seg' = Registers
  <2>1. \E limit, high : gdts["loader"][Video] = VideoEntry(limit, high)
    BY <1>1, VideoGates
  <2>2. Flush("loader", DataRegisters \ {"gs"})
    BY DEF EnterProtectedMode
  <2> QED
    BY <1>1, <2>1, <2>2, FlatGates, FlushIsFlat, Zenon
<1>4. TablesAreTables'
  BY <1>2, <1>3, Zenon DEF SegmentsInv, TablesAreTables
<1>5. TablesAreBuilt'
  BY <1>1, <1>2, Zenon DEF SegmentsInv, TablesAreBuilt
<1> QED
  BY <1>3, <1>4, <1>5, Zenon DEF SegmentsInv

LEMMA SegmentsEnablePage ==
    ASSUME SegmentsInv, EnablePage
    PROVE  SegmentsInv'
<1>1. gdts["loader"] = StandardGdt
  BY DEF SegmentsInv, TablesAreBuilt, EnablePage
<1>2. UNCHANGED <<gdtr, tss, tr, step>> /\ at' = "load_hd_kernel_image"
  BY DEF EnablePage
<1>3. /\ DOMAIN gdts' = DOMAIN gdts /\ gdts'["kernel"] = gdts["kernel"]
      /\ DOMAIN gdts'["loader"] = DOMAIN gdts["loader"]
  BY DEF SegmentsInv, TablesAreTables, EnablePage
<1> DEFINE video == Descriptor(InKernelSpace(gdts["loader"][Video]))
<1>4. IsData(video) /\ video.present /\ video.dpl = 0
  <2>1. InKernelSpace(gdts["loader"][Video]) = VideoEntry(2047, 192)
    BY <1>1, VideoGates
  <2>2. video = Descriptor(VideoEntry(2047, 192))
    BY <2>1
  <2> HIDE DEF video
  <2> QED
    BY <2>2, VideoEntryIsData
<1>5. seg' = [seg EXCEPT !["gs"] = video]
  BY Zenon DEF EnablePage
<1>6. DOMAIN seg = Registers
  BY Zenon DEF SegmentsInv, TablesAreTables
<1> HIDE DEF video
<1>7. /\ DOMAIN seg' = Registers /\ seg'["gs"] = video
      /\ \A r \in Registers \ {"gs"} : seg'[r] = seg[r]
  BY <1>5, <1>6 DEF Registers
<1>8. TablesAreTables'
  BY <1>2, <1>3, <1>7, Zenon DEF SegmentsInv, TablesAreTables
<1>9. TablesAreBuilt'
  BY <1>2, <1>3 DEF SegmentsInv, TablesAreBuilt
<1>10. SegmentsAreFlat'
  <2> SUFFICES ASSUME gdtr # "none" PROVE SegmentsAreFlat'
    BY <1>2 DEF SegmentsAreFlat
  <2>1. /\ \A r \in Registers \ {"gs"} : IsFlat(seg[r])
        /\ IsCode(seg["cs"])
        /\ \A r \in DataRegisters : IsData(seg[r]) /\ seg[r].present /\ seg[r].dpl = 0
    BY Zenon DEF SegmentsInv, SegmentsAreFlat
  <2>2. seg'["cs"] = seg["cs"]
    BY <1>7 DEF Registers
  <2>3. \A r \in DataRegisters : seg'[r] \in {seg[r], video}
    BY <1>7 DEF Registers, DataRegisters
  <2>4. \A r \in Registers \ {"gs"} : IsFlat(seg'[r])
    BY <1>7, <2>1, Zenon
  <2>5. IsCode(seg'["cs"])
    BY <2>1, <2>2, Zenon
  <2>6. \A r \in DataRegisters : IsData(seg'[r]) /\ seg'[r].present /\ seg'[r].dpl = 0
    BY <1>4, <2>1, <2>3, Zenon
  <2> QED
    BY <2>4, <2>5, <2>6, Zenon DEF SegmentsAreFlat
<1> QED
  BY <1>8, <1>9, <1>10, Zenon DEF SegmentsInv

InLoader == {"loader_start", "enable_page"}

LEMMA SegmentsClearTables ==
    ASSUME SegmentsInv, ClearTables, at' \notin InLoader
    PROVE  SegmentsInv'
<1>1. /\ DOMAIN gdts' = DOMAIN gdts /\ gdts'["loader"] = gdts["loader"]
      /\ DOMAIN gdts'["kernel"] = Slots
  BY DEF SegmentsInv, TablesAreTables, ClearTables, Slots
<1>2. step' = 1 /\ UNCHANGED <<gdtr, seg>>
  BY DEF ClearTables, Cleared
<1>3. TablesAreTables'
  BY <1>1, <1>2 DEF SegmentsInv, TablesAreTables, Cleared, GDT_ENTRY_COUNT
<1>4. TablesAreBuilt'
  BY <1>2 DEF TablesAreBuilt, Cleared, GDT_ENTRY_COUNT, GdtDone, InLoader, Slots
<1>5. SegmentsAreFlat'
  BY <1>2, Zenon DEF SegmentsInv, SegmentsAreFlat
<1> QED
  BY <1>3, <1>4, <1>5, Zenon DEF SegmentsInv

LEMMA SegmentsSetGate ==
    ASSUME SegmentsInv, NEW n \in Slots, GdtSetGate(n), at' \notin InLoader
    PROVE  SegmentsInv'
<1>1. /\ DOMAIN gdts' = DOMAIN gdts /\ gdts'["loader"] = gdts["loader"]
      /\ gdts'["kernel"] = [gdts["kernel"] EXCEPT ![n] = Gate(n)]
  BY DEF SegmentsInv, TablesAreTables, GdtSetGate
<1>2. step = 1 + n /\ step' = 2 + n /\ UNCHANGED <<gdtr, seg, tss, tr>>
  BY DEF GdtSetGate, Cleared, Slots, GDT_ENTRY_COUNT
<1>3. n \in 0..6 /\ Slots = 0..6 /\ DOMAIN gdts["kernel"] = 0..6
  BY DEF Slots, GDT_ENTRY_COUNT, SegmentsInv, TablesAreTables
<1>4. TablesAreTables'
  BY <1>1, <1>2, <1>3 DEF SegmentsInv, TablesAreTables, Cleared, GDT_ENTRY_COUNT
<1>5. \A m \in 0..6 : step' > 1 + m => gdts'["kernel"][m] = Gate(m)
  <2> SUFFICES ASSUME NEW m \in 0..6, step' > 1 + m
               PROVE  gdts'["kernel"][m] = Gate(m)
    OBVIOUS
  <2>1. CASE m = n
    BY <1>1, <1>3, <2>1
  <2>2. CASE m # n
    <3>1. step > 1 + m /\ step # 20
      BY <1>2, <1>3, <2>2
    <3>2. gdts["kernel"][m] = Gate(m)
      BY <1>3, <3>1 DEF SegmentsInv, TablesAreBuilt, Cleared, GdtDone
    <3> QED
      BY <1>1, <1>3, <2>2, <3>2
  <2> QED
    BY <2>1, <2>2
<1>6. TablesAreBuilt'
  BY <1>2, <1>3, <1>5 DEF TablesAreBuilt, Cleared, GdtDone, InLoader, GDT_ENTRY_COUNT
<1>7. SegmentsAreFlat'
  BY <1>2, Zenon DEF SegmentsInv, SegmentsAreFlat
<1> QED
  BY <1>4, <1>6, <1>7, Zenon DEF SegmentsInv

LEMMA SegmentsFillTss ==
    ASSUME SegmentsInv, FillTss, at' \notin InLoader
    PROVE  SegmentsInv'
<1>1. step = 8 /\ step' = 9 /\ UNCHANGED <<gdts, gdtr, seg, tr>>
  BY DEF FillTss, Cleared, GDT_ENTRY_COUNT
<1>2. TablesAreTables'
  BY <1>1 DEF SegmentsInv, TablesAreTables, Cleared, GDT_ENTRY_COUNT
<1>3. \A m \in Slots : gdts["kernel"][m] = Gate(m)
  BY <1>1 DEF SegmentsInv, TablesAreBuilt, Slots, Cleared, GDT_ENTRY_COUNT, GdtDone
<1>4. tss' = [ss0 |-> 8 * KernelData, esp0 |-> GDT_TSS_ESP0, iomap_base |-> TssSize]
  BY DEF FillTss
<1>5. TablesAreBuilt'
  BY <1>1, <1>3, <1>4 DEF TablesAreBuilt, InLoader, GdtDone
<1>6. SegmentsAreFlat'
  BY <1>1, Zenon DEF SegmentsInv, SegmentsAreFlat
<1> QED
  BY <1>2, <1>5, <1>6, Zenon DEF SegmentsInv

LEMMA SegmentsGdtFlush ==
    ASSUME SegmentsInv, GdtFlush, at' \notin InLoader
    PROVE  SegmentsInv'
<1>1. step = 9 /\ step' = 10 /\ UNCHANGED <<gdts, tss, tr>>
  BY DEF GdtFlush, Cleared, GDT_ENTRY_COUNT
<1>2. \A m \in Slots : gdts["kernel"][m] = Gate(m)
  BY <1>1 DEF SegmentsInv, TablesAreBuilt, Slots, Cleared, GDT_ENTRY_COUNT, GdtDone
<1>3. tss = [ss0 |-> 8 * KernelData, esp0 |-> GDT_TSS_ESP0, iomap_base |-> TssSize]
  BY <1>1 DEF SegmentsInv, TablesAreBuilt, Cleared, GDT_ENTRY_COUNT
<1>4. SegmentsAreFlat' /\ DOMAIN seg' = Registers
  <2>1. KernelCode \in Slots /\ KernelData \in Slots /\ Video \in Slots
    BY DEF Slots, GDT_ENTRY_COUNT, KernelCode, KernelData, Video
  <2>2. /\ gdts["kernel"][KernelCode] = FlatCode /\ gdts["kernel"][KernelData] = FlatData
        /\ gdts["kernel"][Video] = VideoEntry(32767, 0)
    BY <1>2, <2>1, FlatGates, VideoGates
  <2>3. \E limit, high : gdts["kernel"][Video] = VideoEntry(limit, high)
    BY <2>2
  <2>4. Flush("kernel", DataRegisters)
    BY DEF GdtFlush
  <2> QED
    BY <2>2, <2>3, <2>4, FlushIsFlat
<1>5. TablesAreTables'
  BY <1>1, <1>4 DEF SegmentsInv, TablesAreTables, Cleared, GDT_ENTRY_COUNT
<1>6. TablesAreBuilt'
  BY <1>1, <1>2, <1>3 DEF TablesAreBuilt, InLoader, GdtDone
<1> QED
  BY <1>4, <1>5, <1>6, Zenon DEF SegmentsInv

LEMMA SegmentsTssFlush ==
    ASSUME SegmentsInv, TssFlush, at' \notin InLoader
    PROVE  SegmentsInv'
<1>1. step = 10 /\ step' = GdtDone /\ UNCHANGED <<gdtr, tss, seg>>
  BY DEF TssFlush, Cleared, GDT_ENTRY_COUNT
<1>2. \A m \in Slots : gdts["kernel"][m] = Gate(m)
  BY <1>1 DEF SegmentsInv, TablesAreBuilt, Slots, Cleared, GDT_ENTRY_COUNT, GdtDone
<1>3. tss = [ss0 |-> 8 * KernelData, esp0 |-> GDT_TSS_ESP0, iomap_base |-> TssSize]
  BY <1>1 DEF SegmentsInv, TablesAreBuilt, Cleared, GDT_ENTRY_COUNT
<1>4. TssEntry \in Slots
  BY DEF Slots, GDT_ENTRY_COUNT, TssEntry
<1>5. Busy(gdts["kernel"][TssEntry]) = BusyTss
  BY <1>2, <1>4 DEF BusyTss
<1>6. gdts' = [gdts EXCEPT !["kernel"][TssEntry] = BusyTss] /\ tr' = Descriptor(BusyTss)
  BY <1>5 DEF TssFlush
<1>7. DOMAIN gdts = {"loader", "kernel"} /\ DOMAIN gdts["kernel"] = Slots
  BY DEF SegmentsInv, TablesAreTables
<1>8. /\ DOMAIN gdts' = DOMAIN gdts /\ gdts'["loader"] = gdts["loader"]
      /\ gdts'["kernel"] = [gdts["kernel"] EXCEPT ![TssEntry] = BusyTss]
  BY <1>6, <1>7
<1>9. /\ DOMAIN gdts'["kernel"] = Slots /\ gdts'["kernel"][TssEntry] = BusyTss
      /\ \A m \in Slots \ {TssEntry} : gdts'["kernel"][m] = Gate(m)
  BY <1>2, <1>4, <1>7, <1>8
<1>10. TablesAreTables'
  BY <1>1, <1>8, <1>9 DEF SegmentsInv, TablesAreTables
<1>11. TablesAreBuilt'
  BY <1>1, <1>3, <1>6, <1>9 DEF TablesAreBuilt, InLoader, GdtDone
<1>12. SegmentsAreFlat'
  BY <1>1, Zenon DEF SegmentsInv, SegmentsAreFlat
<1> QED
  BY <1>10, <1>11, <1>12, Zenon DEF SegmentsInv

LEMMA SegmentsReset ==
    ASSUME SegmentsInv, Reset
    PROVE  SegmentsInv'
<1>1. /\ at' = "e820" /\ gdtr' = "none" /\ step' = 0 /\ UNCHANGED <<gdts, tss>>
      /\ seg' = [r \in Registers |-> NullDescriptor]
  BY DEF Reset, GdtIdle
<1>2. TablesAreTables'
  BY <1>1 DEF SegmentsInv, TablesAreTables, Cleared, GDT_ENTRY_COUNT
<1>3. TablesAreBuilt'
  BY <1>1 DEF TablesAreBuilt, Slots, Cleared, GDT_ENTRY_COUNT, GdtDone
<1>4. SegmentsAreFlat'
  BY <1>1 DEF SegmentsAreFlat
<1> QED
  BY <1>2, <1>3, <1>4, Zenon DEF SegmentsInv

LEMMA SegmentsStep ==
    ASSUME SegmentsInv, [Next]_vars
    PROVE  SegmentsInv'
<1>1. CASE UNCHANGED vars
  BY <1>1, SegmentsStutter DEF vars, segVars
<1>2. ASSUME Next, UNCHANGED segVars, at' = at \/ at' \notin InLoader PROVE SegmentsInv'
  BY <1>2, SegmentsStutter DEF InLoader
<1>3. CASE EntryFromBios \/ NoMoreEntries \/ DiskError
  BY <1>2, <1>3 DEF EntryFromBios, NoMoreEntries, DiskError, InLoader, Next, BootSector
<1>4. CASE LoadLoader
  BY <1>4, SegmentsLoadLoader
<1>5. CASE EnterProtectedMode
  BY <1>5, SegmentsEnterProtectedMode
<1>6. CASE EnablePage
  BY <1>6, SegmentsEnablePage
<1>7. CASE LoadHdKernelImage \/ NextSector \/ WaitReady
  BY <1>2, <1>7 DEF LoadHdKernelImage, NextSector, WaitReady, InLoader, Next, Loader
<1>8. CASE ReadWord \/ LoadSegment
  BY <1>2, <1>8 DEF ReadWord, LoadSegment, InLoader, AfterSector, Next, Loader
<1>9. CASE InGdtInit
  <2>1. at' \notin InLoader
    BY <1>9 DEF InGdtInit, InLoader
  <2> QED
    BY <1>9, <2>1, SegmentsClearTables, SegmentsSetGate, SegmentsFillTss, SegmentsGdtFlush,
       SegmentsTssFlush DEF InGdtInit, GdtInit, Slots
<1>10. CASE CopyEntry \/ CountEntries \/ Run
  BY <1>2, <1>10 DEF CopyEntry, CountEntries, Run, InLoader, Next, Kernel
<1>11. CASE Drive
  BY <1>2, <1>11 DEF Drive, DriveStarts, DriveEnds, Next
<1>12. CASE Reset
  BY <1>12, SegmentsReset
<1> QED
  BY <1>1, <1>3, <1>4, <1>5, <1>6, <1>7, <1>8, <1>9, <1>10, <1>11, <1>12
     DEF Next, BootSector, Loader, Kernel

----------------------------------------------------------------------------
(* What the tables are for *)

LEMMA DoneIsRight ==
    ASSUME SegmentsInv, step = GdtDone
    PROVE  TaskStateFits /\ DumpShowsTheTable
<1>1. /\ \A n \in Slots \ {TssEntry} : gdts["kernel"][n] = Gate(n)
      /\ gdts["kernel"][TssEntry] = BusyTss /\ tr = Descriptor(BusyTss)
  BY DEF SegmentsInv, TablesAreBuilt
<1>2. tss.ss0 = 16 /\ tss.iomap_base = 104
  <2>1. step > Cleared + GDT_ENTRY_COUNT
    BY DEF GdtDone, Cleared, GDT_ENTRY_COUNT
  <2>2. tss = [ss0 |-> 8 * KernelData, esp0 |-> GDT_TSS_ESP0, iomap_base |-> TssSize]
    BY <2>1, Zenon DEF SegmentsInv, TablesAreBuilt
  <2>3. 8 * KernelData = 16 /\ TssSize = 104
    BY DEF KernelData, TssSize
  <2> QED
    BY <2>2, <2>3
<1>3. /\ tr.present /\ tr.system /\ tr.type = 11
      /\ tr.base = TssAddress /\ tr.limit = W(0, TssSize - 1) /\ ~tr.pages
  <2>1. Shows(tr, 103, TssAddress.lo, TssAddress.hi % 256, 139, 64, TssAddress.hi \div 256)
    BY <1>1, TssGate, EntryShows
  <2> QED
    BY <2>1, TaskStateIsBusy
<1>4. tss.iomap_base > tr.limit.lo
  <2>1. tr.limit.lo = TssSize - 1
    BY <1>3 DEF W
  <2> QED
    BY <1>2, <2>1 DEF TssSize
<1>5. /\ IsFlat(Selected("kernel", tss.ss0 \div 8))
      /\ IsData(Selected("kernel", tss.ss0 \div 8))
  <2>1. tss.ss0 \div 8 = KernelData
    BY <1>2 DEF KernelData
  <2>2. KernelData \in Slots \ {TssEntry} /\ KernelCode \in Slots \ {TssEntry}
    BY DEF Slots, GDT_ENTRY_COUNT, KernelData, KernelCode, TssEntry
  <2>3. gdts["kernel"][KernelCode] = FlatCode /\ gdts["kernel"][KernelData] = FlatData
    BY <1>1, <2>2, FlatGates
  <2> QED
    BY <2>1, <2>3, SelectedAreFlat
<1>6. TaskStateFits
  BY <1>3, <1>4, <1>5, Zenon DEF TaskStateFits
<1>7. DumpShowsTheTable
  <2> SUFFICES ASSUME NEW n \in Slots
               PROVE  Tells(GdtDump[n], Selected("kernel", n))
    BY Zenon DEF DumpShowsTheTable, Tells, Slots
  <2>1. gdts["kernel"][n].access \in 0..255
    BY <1>1, GateAccess
  <2>2. GdtDump[n] = PrintGdtEntry(gdts["kernel"][n])
    BY DEF GdtDump, Slots
  <2> QED
    BY <2>1, <2>2, EveryDumpIsRight DEF Selected
<1> QED
  BY <1>6, <1>7

(* Every segment register, at every moment from protected mode on, holds   *)
(* a flat segment (gs, after enable_page, one over the video memory), and  *)
(* after gdt_init the task register and the dump show the table as meant:  *)
(* loader.S, common/bootmacros.inc and mem/gdt.c, wherever the linker puts *)
(* the task state and however often the machine was reset before.          *)
THEOREM DescriptorsStayRight == Spec => []DescriptorsAreRight
<1>1. Init => SegmentsInv
  BY SegmentsBegin DEF Init
<1>2. SegmentsInv /\ [Next]_vars => SegmentsInv'
  BY SegmentsStep
<1>3. SegmentsInv => DescriptorsAreRight
  BY DoneIsRight DEF SegmentsInv, DescriptorsAreRight
<1> QED
  BY <1>1, <1>2, <1>3, PTL DEF Spec

----------------------------------------------------------------------------
(* The memory map on its way from the firmware *)

Known  == Len(firmware.map)
FromFirmware(n) == [i \in 1..n |-> E820Entry(firmware.map[i])]

(* The buffer holds of the map what has been written in this boot, and     *)
(* behind that what an earlier boot has left there, if anything: the       *)
(* firmware writes the same again, and what follows the map stays clear.   *)
BufferHoldsTheMap ==
    /\ firmware \in Firmwares
    /\ DOMAIN low = LowCells
    /\ di \in 0..Known
    /\ \A k \in 0..(Known - 1) : low[E820_BUFFER + k] \in {Clear, E820Entry(firmware.map[k + 1])}
    /\ \A k \in 0..(di - 1) : low[E820_BUFFER + k] = E820Entry(firmware.map[k + 1])
    /\ low[E820_BUFFER + Known] = Clear
    /\ at # "e820" => di = Known

InfoIsCopied ==
    /\ count \in 0..Least(Known, E820_MAX_ENTRIES)
    /\ DOMAIN boot_info = {"magic", "e820_count", "e820_map"}
    /\ boot_info.e820_map = FromFirmware(count)
    /\ at \notin {"boot_info_init", "running"} => count = 0
    /\ at = "running" => count = Least(Known, E820_MAX_ENTRIES) /\ boot_info.e820_count = count

MapInv == BufferHoldsTheMap /\ InfoIsCopied

LEMMA FirmwareFacts ==
    ASSUME NEW f \in Firmwares
    PROVE  /\ Len(f.map) \in Nat /\ E820_BUFFER \in Nat /\ E820_MAX_ENTRIES \in Nat
           /\ \A k \in 0..Len(f.map) : E820_BUFFER + k \in LowCells
<1>1. f.map \in Seq(Nat)
  BY FirmwareAssumption
<1>2. Len(f.map) \in Nat
  BY <1>1
<1> QED
  BY <1>2, FirmwareAssumption

LEMMA AnEntryIsNotClear == \A n : E820Entry(n) # Clear
BY DEF E820Entry, Clear

LEMMA MapBegins == Init => MapInv
<1> SUFFICES ASSUME Init PROVE MapInv
  OBVIOUS
<1>1. firmware \in Firmwares /\ low = [c \in LowCells |-> Clear] /\ di = 0 /\ at = "e820"
  BY DEF Init
<1>2. /\ Known \in Nat /\ E820_BUFFER \in Nat /\ E820_MAX_ENTRIES \in Nat
      /\ \A k \in 0..Known : E820_BUFFER + k \in LowCells
  BY <1>1, FirmwareFacts DEF Known
<1>3. BufferHoldsTheMap
  BY <1>1, <1>2 DEF BufferHoldsTheMap
<1>4. count = 0 /\ boot_info = NoInfo
  BY DEF Init
<1>5. FromFirmware(0) = << >>
  BY DEF FromFirmware
<1>6. InfoIsCopied
  BY <1>1, <1>2, <1>4, <1>5 DEF InfoIsCopied, NoInfo, Least
<1> QED
  BY <1>3, <1>6 DEF MapInv

(* A step that touches neither the buffer nor the kernel's map *)
LEMMA MapStutter ==
    ASSUME MapInv, UNCHANGED <<mapVars, infoVars>>,
           at' # "e820" /\ at \in {"e820", "running"} => at' = at,
           at' = "running" => at = "running",
           at' \in {"boot_info_init", "running"} \/ count = 0
    PROVE  MapInv'
<1>1. UNCHANGED <<firmware, low, di, boot_info, count>>
  BY DEF mapVars, infoVars
<1>2. BufferHoldsTheMap'
  BY <1>1 DEF MapInv, BufferHoldsTheMap, Known
<1>3. InfoIsCopied'
  BY <1>1 DEF MapInv, InfoIsCopied, Known, FromFirmware
<1> QED
  BY <1>2, <1>3 DEF MapInv

LEMMA MapEntryFromBios ==
    ASSUME MapInv, EntryFromBios
    PROVE  MapInv'
<1> DEFINE entry(k) == E820Entry(firmware.map[k + 1])
           cell(k) == E820_BUFFER + k
<1>1. firmware \in Firmwares /\ di \in 0..Known /\ DOMAIN low = LowCells
  BY DEF MapInv, BufferHoldsTheMap
<1>2. /\ Known \in Nat /\ E820_BUFFER \in Nat
      /\ \A k \in 0..Known : E820_BUFFER + k \in LowCells
  BY <1>1, FirmwareFacts DEF Known
<1>3. di < Known /\ di' = di + 1 /\ UNCHANGED <<firmware, infoVars>> /\ at = "e820"
  BY DEF EntryFromBios, Known
<1>4. low' = [low EXCEPT ![cell(di)] = entry(di)]
  BY DEF EntryFromBios
<1>5. low'[cell(di)] = entry(di) /\ DOMAIN low' = LowCells
  BY <1>1, <1>2, <1>3, <1>4
<1>6. \A k \in 0..Known : k # di => low'[cell(k)] = low[cell(k)]
  <2> SUFFICES ASSUME NEW k \in 0..Known, k # di PROVE low'[cell(k)] = low[cell(k)]
    OBVIOUS
  <2>1. cell(k) # cell(di) /\ cell(k) \in LowCells
    BY <1>1, <1>2
  <2> HIDE DEF cell, entry
  <2> QED
    BY <1>1, <1>4, <2>1
<1>7. /\ \A k \in 0..(Known - 1) : low[cell(k)] \in {Clear, entry(k)}
      /\ \A k \in 0..(di - 1) : low[cell(k)] = entry(k)
      /\ low[cell(Known)] = Clear
  BY DEF MapInv, BufferHoldsTheMap
<1> HIDE DEF cell, entry
<1>8. /\ \A k \in 0..(Known - 1) : low'[cell(k)] \in {Clear, entry(k)}
      /\ \A k \in 0..di : low'[cell(k)] = entry(k)
      /\ low'[cell(Known)] = Clear
  BY <1>1, <1>2, <1>3, <1>5, <1>6, <1>7
<1>9. Known' = Known /\ di' - 1 = di
  BY <1>1, <1>2, <1>3 DEF Known
<1>10. at' # "e820" => di' = Known
  BY DEF EntryFromBios, Known
<1>11. BufferHoldsTheMap'
  BY <1>1, <1>2, <1>3, <1>5, <1>8, <1>9, <1>10 DEF BufferHoldsTheMap, cell, entry
<1>12. at' \notin {"boot_info_init", "running"}
  BY DEF EntryFromBios
<1>13. InfoIsCopied'
  BY <1>3, <1>12 DEF MapInv, InfoIsCopied, Known, FromFirmware, infoVars
<1> QED
  BY <1>11, <1>13 DEF MapInv

LEMMA MapLoadLoader ==
    ASSUME MapInv, LoadLoader
    PROVE  MapInv'
<1> DEFINE sectors == LoaderBase..(LoaderBase + LoaderSectors - 1)
<1>1. firmware \in Firmwares /\ DOMAIN low = LowCells
  BY DEF MapInv, BufferHoldsTheMap
<1>2. /\ Known \in Nat /\ E820_BUFFER \in Nat
      /\ \A k \in 0..Known : E820_BUFFER + k \in LowCells
  BY <1>1, FirmwareFacts DEF Known
<1>3. low' = [c \in LowCells |->
                 IF c \in sectors THEN Sector(1 + c - LoaderBase) ELSE low[c]]
  BY DEF LoadLoader
<1>4. \A k \in 0..Known : E820_BUFFER + k \notin sectors
  BY <1>2, FirmwareAssumption DEF LoaderSectors
<1> HIDE DEF sectors
<1>5. \A k \in 0..Known : low'[E820_BUFFER + k] = low[E820_BUFFER + k]
  BY <1>2, <1>3, <1>4
<1>6. DOMAIN low' = LowCells
  BY <1>3
<1>7. /\ UNCHANGED <<firmware, di, boot_info, count>>
      /\ at = "disk_load" /\ at' = "loader_start"
  BY DEF LoadLoader, infoVars
<1>8. BufferHoldsTheMap'
  <2>1. Known' = Known /\ di = Known
    BY <1>7 DEF Known, MapInv, BufferHoldsTheMap
  <2>2. /\ \A k \in 0..(Known - 1) : low[E820_BUFFER + k] = E820Entry(firmware.map[k + 1])
        /\ low[E820_BUFFER + Known] = Clear
    BY <2>1 DEF MapInv, BufferHoldsTheMap
  <2>3. /\ \A k \in 0..(Known - 1) : low'[E820_BUFFER + k] = E820Entry(firmware.map[k + 1])
        /\ low'[E820_BUFFER + Known] = Clear
    BY <1>2, <1>5, <2>2
  <2> QED
    BY <1>1, <1>2, <1>6, <1>7, <2>1, <2>3 DEF BufferHoldsTheMap
<1>9. InfoIsCopied'
  BY <1>7 DEF MapInv, InfoIsCopied, Known, FromFirmware
<1> QED
  BY <1>8, <1>9 DEF MapInv

LEMMA AppendToTheMap ==
    ASSUME NEW n \in Nat
    PROVE  Append(FromFirmware(n), E820Entry(firmware.map[n + 1])) = FromFirmware(n + 1)
<1> DEFINE s == FromFirmware(n)
           t == FromFirmware(n + 1)
           e == E820Entry(firmware.map[n + 1])
<1>1. s = [i \in 1..n |-> E820Entry(firmware.map[i])]
  BY DEF FromFirmware
<1>2. t = [i \in 1..(n + 1) |-> E820Entry(firmware.map[i])]
  BY DEF FromFirmware
<1>3. DOMAIN s = 1..n /\ Len(s) = n
  BY <1>1
<1>4. Append(s, e) = [i \in 1..(n + 1) |-> IF i = n + 1 THEN e ELSE s[i]]
  BY <1>1, <1>3
<1> QED
  BY <1>1, <1>2, <1>4

LEMMA MapCopyEntry ==
    ASSUME MapInv, CopyEntry
    PROVE  MapInv'
<1>1. /\ firmware \in Firmwares /\ di = Known
      /\ count \in 0..Least(Known, E820_MAX_ENTRIES)
      /\ DOMAIN boot_info = {"magic", "e820_count", "e820_map"}
      /\ boot_info.e820_map = FromFirmware(count)
  BY DEF MapInv, BufferHoldsTheMap, InfoIsCopied, CopyEntry
<1>2. Known \in Nat /\ E820_BUFFER \in Nat /\ E820_MAX_ENTRIES \in Nat
  BY <1>1, FirmwareFacts DEF Known
<1>3. count < E820_MAX_ENTRIES /\ low[E820_BUFFER + count] # Clear
  BY DEF CopyEntry, Terminates
<1>4. count \in Nat /\ count <= Known
  BY <1>1, <1>2 DEF Least
<1>5. count # Known
  BY <1>3 DEF MapInv, BufferHoldsTheMap
<1>6. low[E820_BUFFER + count] = E820Entry(firmware.map[count + 1])
  BY <1>1, <1>2, <1>4, <1>5 DEF MapInv, BufferHoldsTheMap
<1>7. boot_info' = [boot_info EXCEPT !.magic = TRUE,
                        !.e820_map = Append(@, E820Entry(firmware.map[count + 1]))]
  BY <1>6 DEF CopyEntry
<1>8. boot_info'.e820_map = FromFirmware(count + 1) /\ DOMAIN boot_info' = DOMAIN boot_info
  BY <1>1, <1>4, <1>7, AppendToTheMap
<1>9. count' = count + 1 /\ UNCHANGED <<at, firmware, low, di>> /\ at = "boot_info_init"
  BY DEF CopyEntry, mapVars
<1>10. BufferHoldsTheMap'
  BY <1>9 DEF MapInv, BufferHoldsTheMap, Known
<1>11. count' \in 0..Least(Known, E820_MAX_ENTRIES)
  BY <1>2, <1>3, <1>4, <1>5, <1>9 DEF Least
<1>12. InfoIsCopied'
  BY <1>1, <1>8, <1>9, <1>11 DEF InfoIsCopied, Known, FromFirmware
<1> QED
  BY <1>10, <1>12 DEF MapInv

LEMMA MapCountEntries ==
    ASSUME MapInv, CountEntries
    PROVE  MapInv'
<1>1. /\ firmware \in Firmwares /\ di = Known
      /\ count \in 0..Least(Known, E820_MAX_ENTRIES)
      /\ DOMAIN boot_info = {"magic", "e820_count", "e820_map"}
      /\ boot_info.e820_map = FromFirmware(count)
  BY DEF MapInv, BufferHoldsTheMap, InfoIsCopied, CountEntries
<1>2. Known \in Nat /\ E820_BUFFER \in Nat /\ E820_MAX_ENTRIES \in Nat
  BY <1>1, FirmwareFacts DEF Known
<1>3. count = Least(Known, E820_MAX_ENTRIES)
  <2>1. CASE count = E820_MAX_ENTRIES
    BY <1>1, <1>2, <2>1 DEF Least
  <2>2. CASE low[E820_BUFFER + count] = Clear
    <3>1. ~(count < Known)
      BY <1>1, <1>2, <2>2, AnEntryIsNotClear DEF MapInv, BufferHoldsTheMap, Least
    <3> QED
      BY <1>1, <1>2, <3>1 DEF Least
  <2> QED
    BY <2>1, <2>2 DEF CountEntries, Terminates
<1>4. boot_info' = [boot_info EXCEPT !.magic = TRUE, !.e820_count = count]
  BY DEF CountEntries
<1>5. /\ boot_info'.e820_map = FromFirmware(count) /\ boot_info'.e820_count = count
      /\ DOMAIN boot_info' = DOMAIN boot_info
  BY <1>1, <1>4
<1>6. at' = "running" /\ at = "boot_info_init" /\ UNCHANGED <<firmware, low, di, count>>
  BY DEF CountEntries, mapVars
<1>7. BufferHoldsTheMap'
  BY <1>6 DEF MapInv, BufferHoldsTheMap, Known
<1>8. InfoIsCopied'
  BY <1>1, <1>3, <1>5, <1>6 DEF InfoIsCopied, Known, FromFirmware
<1> QED
  BY <1>7, <1>8 DEF MapInv

LEMMA MapReset ==
    ASSUME MapInv, Reset
    PROVE  MapInv'
<1>1. /\ at' = "e820" /\ di' = 0 /\ count' = 0 /\ boot_info' = NoInfo
      /\ UNCHANGED <<firmware, low>>
  BY DEF Reset
<1>2. firmware \in Firmwares
  BY DEF MapInv, BufferHoldsTheMap
<1>3. Known \in Nat /\ E820_MAX_ENTRIES \in Nat
  BY <1>2, FirmwareFacts DEF Known
<1>4. BufferHoldsTheMap'
  BY <1>1, <1>3 DEF MapInv, BufferHoldsTheMap, Known
<1>5. FromFirmware(0)' = << >>
  BY DEF FromFirmware
<1>6. Known' = Known
  BY <1>1 DEF Known
<1>7. InfoIsCopied'
  BY <1>1, <1>3, <1>5, <1>6 DEF InfoIsCopied, NoInfo, Least, FromFirmware
<1> QED
  BY <1>4, <1>7 DEF MapInv

LEMMA MapStep ==
    ASSUME MapInv, [Next]_vars
    PROVE  MapInv'
<1>1. CASE UNCHANGED vars
  <2>1. UNCHANGED <<at, mapVars, infoVars>>
    BY <1>1 DEF vars
  <2>2. at' \in {"boot_info_init", "running"} \/ count = 0
    BY <2>1 DEF MapInv, InfoIsCopied
  <2> QED
    BY <2>1, <2>2, MapStutter
<1>2. at \in {"boot_info_init", "running"} \/ count = 0
  BY DEF MapInv, InfoIsCopied
<1>3. CASE EntryFromBios
  BY <1>3, MapEntryFromBios
<1>4. CASE NoMoreEntries
  <2>1. /\ UNCHANGED <<firmware, low, di, boot_info, count>> /\ di = Known
        /\ at = "e820" /\ at' = "disk_load"
    BY <1>4 DEF NoMoreEntries, mapVars, infoVars, Known
  <2>2. BufferHoldsTheMap'
    BY <2>1 DEF MapInv, BufferHoldsTheMap, Known
  <2>3. InfoIsCopied'
    BY <2>1 DEF MapInv, InfoIsCopied, Known, FromFirmware
  <2> QED
    BY <2>2, <2>3 DEF MapInv
<1>5. CASE LoadLoader
  BY <1>5, MapLoadLoader
<1>6. CASE DiskError
  BY <1>2, <1>6, MapStutter DEF DiskError
<1>7. CASE EnterProtectedMode \/ EnablePage \/ LoadHdKernelImage \/ NextSector
  BY <1>2, <1>7, MapStutter DEF EnterProtectedMode, EnablePage, LoadHdKernelImage, NextSector
<1>8. CASE WaitReady \/ ReadWord \/ LoadSegment
  BY <1>2, <1>8, MapStutter DEF WaitReady, ReadWord, LoadSegment, AfterSector
<1>9. CASE InGdtInit
  BY <1>2, <1>9, MapStutter DEF InGdtInit
<1>10. CASE CopyEntry
  BY <1>10, MapCopyEntry
<1>11. CASE CountEntries
  BY <1>11, MapCountEntries
<1>12. CASE Run
  BY <1>12, MapStutter DEF Run
<1>13. CASE Drive
  BY <1>2, <1>13, MapStutter DEF Drive, DriveStarts, DriveEnds
<1>14. CASE Reset
  BY <1>14, MapReset
<1> QED
  BY <1>1, <1>3, <1>4, <1>5, <1>6, <1>7, <1>8, <1>9, <1>10, <1>11, <1>12, <1>13, <1>14
     DEF Next, BootSector, Loader, Kernel

(* The kernel's memory map is the firmware's for every firmware, however   *)
(* long its map and however it ends it, after any number of resets that    *)
(* leave a map of an earlier boot in the buffer: mbr.S and boot_info_init. *)
THEOREM MapStaysTheFirmwares == Spec => []MapIsTheFirmwares
<1>1. Init => MapInv
  BY MapBegins
<1>2. MapInv /\ [Next]_vars => MapInv'
  BY MapStep
<1>3. MapInv => MapIsTheFirmwares
  BY DEF MapInv, InfoIsCopied, MapIsTheFirmwares, FromFirmware, Known
<1> QED
  BY <1>1, <1>2, <1>3, PTL DEF Spec

----------------------------------------------------------------------------
(* The kernel's file on its way from the drive *)

Reading == {"next_sector", "wait_ready", "read_word"}
Offset  == IF at = "read_word" THEN disk.word ELSE 0

Loaded(n) ==
    LET h == ProgramHeaders[n]
    IN  h.type = PT_LOAD =>
            \A w \in 0..(h.filesz - 1) : memory[h.vaddr + w] = File(h.offset + w)

(* The sector that is read is the one that was asked for, and the words    *)
(* before ebx are those of the file: nothing is read while the drive is    *)
(* not ready, and no sector is read twice or left out.                     *)
DriveIsAsked ==
    /\ DOMAIN disk = {"state", "lba", "word"} /\ disk.word \in {0, 1}
    /\ at \in {"wait_ready", "read_word"} => disk.lba = esi
    /\ at = "wait_ready" => disk.word = 0
    /\ at = "read_word" => disk.state = "ready"

ImageIsTheFile ==
    /\ DOMAIN image = ImageCells
    /\ at \in Reading =>
           /\ esi \in Nat /\ edi \in Nat \ {0} /\ KERNEL_START_SECTOR <= esi
           /\ esi + edi = KERNEL_START_SECTOR + KERNEL_SECTORS
           /\ ebx = 2 * (esi - KERNEL_START_SECTOR) + Offset
           /\ \A w \in 0..(ebx - 1) : image[w] = File(w)

SegmentsAreLoaded ==
    /\ at = "load_each_segment" =>
           /\ header \in Nat \ {0}
           /\ \A w \in ImageCells : image[w] = File(w)
           /\ \A n \in 1..(header - 1) : n <= Len(ProgramHeaders) /\ Loaded(n)
    /\ at \in {"gdt_init", "boot_info_init"} =>
           \A n \in 1..Len(ProgramHeaders) : Loaded(n)

LoadInv == DriveIsAsked /\ ImageIsTheFile /\ SegmentsAreLoaded

(* The registers of the drive put an address together again. *)

LEMMA DivisionBounds ==
    ASSUME NEW a \in Nat, NEW b \in Nat \ {0}
    PROVE  a \div b \in Nat /\ (a \div b) * b <= a /\ a < (a \div b) * b + b
<1>1. a \div b \in Nat
  OBVIOUS
<1>2. (a \div b) * b <= a
  OBVIOUS
<1>3. a < (a \div b) * b + b
  OBVIOUS
<1> QED
  BY <1>1, <1>2, <1>3

LEMMA QuotientAtMost ==
    ASSUME NEW a \in Nat, NEW b \in Nat \ {0}, NEW p \in Int
    PROVE  a \div b <= p <=> a < (p + 1) * b
<1> DEFINE q == a \div b
           A == q * b
           B == (p + 1) * b
<1>1. q \in Nat /\ A <= a /\ a < A + b
  BY DivisionBounds
<1>2. q < p + 1 => A + b <= B
  BY <1>1
<1>3. A < B => q < p + 1
  BY <1>1
<1>4. A \in Int /\ B \in Int
  BY <1>1
<1> HIDE DEF q, A, B
<1>5. q <= p <=> a < B
  BY <1>1, <1>2, <1>3, <1>4
<1> QED
  BY <1>5 DEF q, B

LEMMA QuotientOfQuotient ==
    ASSUME NEW a \in Nat, NEW b \in Nat \ {0}, NEW c \in Nat \ {0}
    PROVE  a \div (b * c) = (a \div b) \div c
<1> DEFINE q == a \div b
           x == a \div (b * c)
           y == q \div c
<1>1. b * c \in Nat \ {0}
  OBVIOUS
<1>2. q \in Nat
  BY DivisionBounds
<1>3. x \in Nat
  BY <1>1, DivisionBounds
<1>4. y \in Nat
  BY <1>2, DivisionBounds
<1>5. \A p \in Int : x <= p <=> a < (p + 1) * (b * c)
  BY <1>1, QuotientAtMost
<1>6. \A p \in Int : y <= p <=> q < (p + 1) * c
  BY <1>2, QuotientAtMost
<1>7. \A p \in Int : q < p <=> a < p * b
  <2> SUFFICES ASSUME NEW p \in Int PROVE q < p <=> a < p * b
    OBVIOUS
  <2>1. q <= p - 1 <=> a < (p - 1 + 1) * b
    BY QuotientAtMost
  <2>2. p - 1 + 1 = p
    OBVIOUS
  <2> HIDE DEF q
  <2> QED
    BY <1>2, <2>1, <2>2
<1> HIDE DEF q, x, y
<1>8. \A p \in Int : x <= p <=> y <= p
  <2> SUFFICES ASSUME NEW p \in Int PROVE x <= p <=> y <= p
    OBVIOUS
  <2>1. (p + 1) * c \in Int
    OBVIOUS
  <2>2. q < (p + 1) * c <=> a < ((p + 1) * c) * b
    BY <1>7, <2>1
  <2>3. ((p + 1) * c) * b = (p + 1) * (b * c)
    OBVIOUS
  <2> QED
    BY <1>5, <1>6, <2>2, <2>3
<1>9. x = y
  BY <1>3, <1>4, <1>8
<1> QED
  BY <1>9 DEF q, x, y

LEMMA RemainderAddsUp ==
    ASSUME NEW a \in Nat, NEW b \in Nat \ {0}
    PROVE  a % b \in Nat /\ (b * (a \div b)) + (a % b) = a
OBVIOUS

LEMMA LbaIsPutTogether ==
    ASSUME NEW n \in Nat, n < 16 * (Byte * (Byte * Byte))
    PROVE  LbaOf(LbaRegisters(n)) = n
<1> DEFINE B == Byte
           q1 == n \div B
           q2 == q1 \div B
           q3 == q2 \div B
           r0 == n % B
           r1 == q1 % B
           r2 == q2 % B
<1>1. B \in Nat \ {0}
  BY DiskAssumption
<1> HIDE DEF B
<1>2. q1 \in Nat /\ r0 \in Nat /\ n = B * q1 + r0
  BY <1>1, RemainderAddsUp, DivisionBounds
<1>3. q2 \in Nat /\ r1 \in Nat /\ q1 = B * q2 + r1
  <2> HIDE DEF q1
  <2> QED
    BY <1>1, <1>2, RemainderAddsUp, DivisionBounds
<1>4. q3 \in Nat /\ r2 \in Nat /\ q2 = B * q3 + r2
  <2> HIDE DEF q2
  <2> QED
    BY <1>1, <1>3, RemainderAddsUp, DivisionBounds
<1>5. B * B \in Nat \ {0} /\ B * B * B = (B * B) * B
  BY <1>1
<1>6. n \div (B * B) = q2
  BY <1>1, QuotientOfQuotient
<1>7. n \div (B * B * B) = q3
  <2> DEFINE square == B * B
  <2>1. square \in Nat \ {0} /\ n \div square = q2 /\ B * B * B = square * B
    BY <1>5, <1>6
  <2> HIDE DEF square, q2
  <2>2. n \div (square * B) = (n \div square) \div B
    BY <1>1, <2>1, QuotientOfQuotient
  <2> QED
    BY <2>1, <2>2
<1>8. q3 < 16
  <2>1. n < 16 * (B * (B * B)) /\ B * (B * B) = B * B * B
    BY <1>1 DEF B
  <2>2. B * B * B \in Nat \ {0}
    BY <1>1
  <2>3. n \div (B * B * B) <= 15 <=> n < (15 + 1) * (B * B * B)
    BY <2>2, QuotientAtMost
  <2>4. q3 <= 15
    <3> DEFINE cube == B * B * B
    <3>1. n < 16 * cube
      BY <2>1
    <3>2. n \div cube <= 15 <=> n < (15 + 1) * cube
      BY <2>3
    <3>3. n \div cube = q3
      BY <1>7
    <3> HIDE DEF cube, q3
    <3> QED
      BY <3>1, <3>2, <3>3
  <2> HIDE DEF q3
  <2> QED
    BY <1>4, <2>4
<1>9. q3 % 16 = q3
  <2> HIDE DEF q3
  <2> QED
    BY <1>4, <1>8
<1>10. LbaRegisters(n) = <<r0, r1, r2, q3>>
  BY <1>6, <1>7, <1>9 DEF LbaRegisters, B
<1>11. LbaOf(<<r0, r1, r2, q3>>) = r0 + (B * r1) + (B * B * r2) + (B * B * B * q3)
  <2> HIDE DEF r0, r1, r2, q3
  <2> QED
    BY DEF LbaOf, B
<1> HIDE DEF q1, q2, q3, r0, r1, r2
<1>12. n = B * (B * (B * q3 + r2) + r1) + r0
  BY <1>2, <1>3, <1>4
<1>13. B * (B * (B * q3 + r2) + r1) + r0 = r0 + (B * r1) + (B * B * r2) + (B * B * B * q3)
  BY <1>1, <1>2, <1>3, <1>4
<1> QED
  BY <1>10, <1>11, <1>12, <1>13

----------------------------------------------------------------------------
(* Every step keeps LoadInv. *)

Entering == {"gdt_init", "boot_info_init"}

LEMMA LoadBegins == Init => LoadInv
BY DEF Init, LoadInv, DriveIsAsked, ImageIsTheFile, SegmentsAreLoaded, IdleDrive, Reading

(* A step that leaves the drive, the buffer and the segments alone *)
LEMMA LoadStutter ==
    ASSUME LoadInv, UNCHANGED <<disk, loadVars>>,
           \/ at' = at
           \/ at' \notin Reading \cup Entering \cup {"load_each_segment"}
           \/ at \in Entering /\ at' \in Entering
    PROVE  LoadInv'
<1>1. UNCHANGED <<disk, esi, edi, ebx, image, header, memory>>
  BY DEF loadVars
<1>2. DriveIsAsked'
  BY <1>1 DEF LoadInv, DriveIsAsked, Reading, Entering
<1>3. ImageIsTheFile'
  BY <1>1 DEF LoadInv, ImageIsTheFile, Reading, Entering, Offset
<1>4. SegmentsAreLoaded'
  BY <1>1 DEF LoadInv, SegmentsAreLoaded, Reading, Entering, Loaded
<1> QED
  BY <1>2, <1>3, <1>4 DEF LoadInv

(* A step to where nothing is promised of the load *)
LEMMA LoadElsewhere ==
    ASSUME LoadInv, UNCHANGED image, disk' = disk \/ disk' = IdleDrive,
           at' \notin Reading \cup Entering \cup {"load_each_segment"}
    PROVE  LoadInv'
<1>1. DriveIsAsked'
  BY DEF LoadInv, DriveIsAsked, Reading, IdleDrive
<1>2. ImageIsTheFile'
  BY DEF LoadInv, ImageIsTheFile, Reading
<1>3. SegmentsAreLoaded'
  BY DEF SegmentsAreLoaded, Entering
<1> QED
  BY <1>1, <1>2, <1>3 DEF LoadInv

LEMMA LoadHdImage ==
    ASSUME LoadInv, LoadHdKernelImage
    PROVE  LoadInv'
<1>1. /\ esi' = KERNEL_START_SECTOR /\ edi' = KERNEL_SECTORS /\ ebx' = 0
      /\ at' = "next_sector" /\ UNCHANGED <<disk, image>>
  BY DEF LoadHdKernelImage
<1>2. KERNEL_START_SECTOR = 9 /\ KERNEL_SECTORS \in Nat \ {0}
  BY DiskAssumption DEF KERNEL_START_SECTOR
<1>3. DriveIsAsked'
  BY <1>1 DEF LoadInv, DriveIsAsked
<1>4. ImageIsTheFile'
  BY <1>1, <1>2 DEF LoadInv, ImageIsTheFile, Offset
<1>5. SegmentsAreLoaded'
  BY <1>1 DEF SegmentsAreLoaded
<1> QED
  BY <1>3, <1>4, <1>5 DEF LoadInv

LEMMA LoadNextSector ==
    ASSUME LoadInv, NextSector
    PROVE  LoadInv'
<1>1. /\ at = "next_sector" /\ at' = "wait_ready"
      /\ UNCHANGED <<esi, edi, ebx, image, memory, header>>
  BY DEF NextSector, loadVars
<1>2. /\ esi \in Nat /\ edi \in Nat \ {0}
      /\ esi + edi = KERNEL_START_SECTOR + KERNEL_SECTORS
  BY <1>1 DEF LoadInv, ImageIsTheFile, Reading
<1>3. LbaOf(LbaRegisters(esi)) = esi
  <2> DEFINE top == 16 * (Byte * (Byte * Byte))
  <2>1. /\ KERNEL_START_SECTOR + KERNEL_SECTORS <= top /\ top \in Nat
        /\ KERNEL_START_SECTOR + KERNEL_SECTORS \in Nat
    BY DiskAssumption DEF KERNEL_START_SECTOR
  <2> HIDE DEF top
  <2>2. esi < top
    BY <1>2, <2>1
  <2> QED
    BY <1>2, <2>2, LbaIsPutTogether DEF top
<1>4. disk' = [state |-> "accepted", lba |-> esi, word |-> 0]
  BY <1>3 DEF NextSector
<1>5. DriveIsAsked'
  BY <1>1, <1>4 DEF DriveIsAsked
<1>6. ImageIsTheFile'
  BY <1>1 DEF LoadInv, ImageIsTheFile, Reading, Offset
<1>7. SegmentsAreLoaded'
  BY <1>1 DEF SegmentsAreLoaded
<1> QED
  BY <1>5, <1>6, <1>7 DEF LoadInv

LEMMA LoadWaitReady ==
    ASSUME LoadInv, WaitReady
    PROVE  LoadInv'
<1>1. /\ at = "wait_ready" /\ UNCHANGED <<disk, esi, edi, ebx, image>>
      /\ at' \in {"wait_ready", "read_word"}
      /\ at' = "read_word" => disk.state = "ready"
  BY DEF WaitReady, loadVars, Ready, DRQ
<1>2. disk.word = 0
  BY <1>1 DEF LoadInv, DriveIsAsked
<1>3. DriveIsAsked'
  BY <1>1 DEF LoadInv, DriveIsAsked
<1>4. ImageIsTheFile'
  BY <1>1, <1>2 DEF LoadInv, ImageIsTheFile, Reading, Offset
<1>5. SegmentsAreLoaded'
  BY <1>1 DEF SegmentsAreLoaded
<1> QED
  BY <1>3, <1>4, <1>5 DEF LoadInv

LEMMA LoadReadWord ==
    ASSUME LoadInv, ReadWord
    PROVE  LoadInv'
<1>1. /\ at = "read_word" /\ disk.state = "ready" /\ disk.lba = esi /\ disk.word \in {0, 1}
      /\ DOMAIN disk = {"state", "lba", "word"} /\ DOMAIN image = ImageCells
  BY DEF LoadInv, DriveIsAsked, ImageIsTheFile, ReadWord
<1>2. /\ esi \in Nat /\ edi \in Nat \ {0} /\ KERNEL_START_SECTOR <= esi
      /\ esi + edi = KERNEL_START_SECTOR + KERNEL_SECTORS
      /\ ebx = 2 * (esi - KERNEL_START_SECTOR) + disk.word
      /\ \A w \in 0..(ebx - 1) : image[w] = File(w)
  BY <1>1 DEF LoadInv, ImageIsTheFile, Reading, Offset
<1>3. KERNEL_START_SECTOR = 9 /\ KERNEL_SECTORS \in Nat
  BY DiskAssumption DEF KERNEL_START_SECTOR
<1>4. ebx \in ImageCells /\ ebx \in Nat /\ ebx % 2 = disk.word
  BY <1>1, <1>2, <1>3 DEF ImageCells
<1>5. image' = [image EXCEPT ![ebx] = File(ebx)]
  <2>1. image' = [image EXCEPT ![ebx] = DiskWord(esi, disk.word)]
    BY <1>1 DEF ReadWord, DRQ
  <2>2. DiskWord(esi, disk.word) = File(ebx)
    BY <1>1, <1>2, <1>3 DEF DiskWord, File
  <2> QED
    BY <2>1, <2>2
<1>6. ebx' = ebx + 1
  BY DEF ReadWord
<1>7. DOMAIN image' = ImageCells /\ \A w \in 0..(ebx' - 1) : image'[w] = File(w)
  BY <1>1, <1>2, <1>4, <1>5, <1>6
<1>8. CASE disk.word = 0
  <2>1. /\ at' = "read_word" /\ UNCHANGED <<esi, edi>>
        /\ disk' = [disk EXCEPT !.word = 1]
    BY <1>1, <1>4, <1>8 DEF ReadWord, DRQ
  <2>2. /\ DOMAIN disk' = DOMAIN disk /\ disk'.word = 1 /\ disk'.lba = disk.lba
        /\ disk'.state = disk.state
    BY <1>1, <2>1
  <2>3. DriveIsAsked'
    BY <1>1, <2>1, <2>2 DEF DriveIsAsked
  <2>4. ebx' = 2 * (esi - KERNEL_START_SECTOR) + 1
    BY <1>2, <1>3, <1>6, <1>8
  <2>5. ImageIsTheFile'
    BY <1>2, <1>7, <2>1, <2>2, <2>4 DEF ImageIsTheFile, Offset
  <2>6. SegmentsAreLoaded'
    BY <2>1 DEF SegmentsAreLoaded
  <2> QED
    BY <2>3, <2>5, <2>6 DEF LoadInv
<1>9. CASE disk.word = 1
  <2>1. /\ at' = IF edi' # 0 THEN "next_sector" ELSE "load_each_segment"
        /\ esi' = esi + 1 /\ edi' = edi - 1 /\ disk' = IdleDrive
    BY <1>1, <1>4, <1>9 DEF ReadWord, DRQ, AfterSector
  <2>2. DriveIsAsked'
    BY <2>1 DEF DriveIsAsked, IdleDrive
  <2>3. ebx' = 2 * (esi' - KERNEL_START_SECTOR)
    BY <1>2, <1>3, <1>6, <1>9, <2>1
  <2>4. CASE edi' # 0
    <3>1. at' = "next_sector" /\ edi' \in Nat \ {0}
      BY <1>2, <2>1, <2>4
    <3>2. /\ esi' \in Nat /\ KERNEL_START_SECTOR <= esi'
          /\ esi' + edi' = KERNEL_START_SECTOR + KERNEL_SECTORS
          /\ ebx' = 2 * (esi' - KERNEL_START_SECTOR) + 0
      BY <1>2, <1>3, <2>1, <2>3
    <3>3. ImageIsTheFile'
      BY <1>7, <3>1, <3>2 DEF ImageIsTheFile, Offset
    <3>4. SegmentsAreLoaded'
      BY <3>1 DEF SegmentsAreLoaded
    <3> QED
      BY <2>2, <3>3, <3>4 DEF LoadInv
  <2>5. CASE edi' = 0
    <3>1. at' = "load_each_segment" /\ header' = 1
      BY <2>1, <2>5 DEF ReadWord
    <3>2. ebx' = 2 * KERNEL_SECTORS
      BY <1>2, <1>3, <2>1, <2>3, <2>5
    <3>3. \A w \in ImageCells : image'[w] = File(w)
      BY <1>7, <3>2 DEF ImageCells
    <3>4. ImageIsTheFile'
      BY <1>7, <3>1 DEF ImageIsTheFile, Reading
    <3>5. SegmentsAreLoaded'
      BY <3>1, <3>3 DEF SegmentsAreLoaded
    <3> QED
      BY <2>2, <3>4, <3>5 DEF LoadInv
  <2> QED
    BY <2>4, <2>5
<1> QED
  BY <1>1, <1>8, <1>9

LEMMA HeaderFacts ==
    ASSUME NEW n \in 1..Len(ProgramHeaders), ProgramHeaders[n].type = PT_LOAD
    PROVE  LET h == ProgramHeaders[n]
           IN  /\ h.offset \in Nat /\ h.vaddr \in Nat /\ h.filesz \in Nat
               /\ h.offset + h.filesz <= 2 * KERNEL_SECTORS
               /\ \A w \in 0..(h.filesz - 1) : h.vaddr + w \in KernelCells
               /\ \A m \in 1..(n - 1) :
                      ProgramHeaders[m].type = PT_LOAD => Apart(ProgramHeaders[m], h)
<1> DEFINE h == ProgramHeaders[n]
<1>1. h \in Headers
  BY KernelFileAssumption
<1>2. h.offset \in Nat /\ h.vaddr \in Nat /\ h.filesz \in Nat
  BY <1>1 DEF Headers
<1>3. /\ h.offset + h.filesz <= 2 * KERNEL_SECTORS
      /\ \A w \in 0..(h.filesz - 1) : h.vaddr + w \in KernelCells
      /\ \A m \in 1..(n - 1) : ProgramHeaders[m].type = PT_LOAD => Apart(ProgramHeaders[m], h)
  BY KernelFileAssumption, Zenon
<1> QED
  BY <1>2, <1>3

LEMMA LoadOneSegment ==
    ASSUME LoadInv, LoadSegment
    PROVE  LoadInv'
<1> DEFINE h == ProgramHeaders[header]
           target == h.vaddr..(h.vaddr + h.filesz - 1)
<1>1. /\ at = "load_each_segment" /\ header \in 1..Len(ProgramHeaders)
      /\ Len(ProgramHeaders) \in Nat
      /\ \A w \in ImageCells : image[w] = File(w)
      /\ \A n \in 1..(header - 1) : n <= Len(ProgramHeaders) /\ Loaded(n)
  BY KernelFileAssumption DEF LoadInv, SegmentsAreLoaded, LoadSegment
<1>2. memory' = [c \in KernelCells |->
                    IF h.type = PT_LOAD /\ c \in target
                    THEN image[h.offset + c - h.vaddr] ELSE memory[c]]
  BY Zenon DEF LoadSegment
<1>3. /\ header' = header + 1 /\ UNCHANGED <<disk, image>>
      /\ at' = IF header' > Len(ProgramHeaders) THEN "gdt_init" ELSE "load_each_segment"
  BY DEF LoadSegment
<1>4. ASSUME NEW n, n = header PROVE Loaded(n)'
  <2> SUFFICES ASSUME h.type = PT_LOAD, NEW w \in 0..(h.filesz - 1)
               PROVE  memory'[h.vaddr + w] = File(h.offset + w)
    BY <1>4 DEF Loaded
  <2>1. /\ h.offset \in Nat /\ h.vaddr \in Nat /\ h.filesz \in Nat
        /\ h.offset + h.filesz <= 2 * KERNEL_SECTORS
        /\ h.vaddr + w \in KernelCells
    BY <1>1, HeaderFacts
  <2>2. h.vaddr + w \in target
    BY <2>1
  <2>3. h.offset + (h.vaddr + w) - h.vaddr = h.offset + w /\ h.offset + w \in ImageCells
    BY <2>1, DiskAssumption DEF ImageCells
  <2>4. memory'[h.vaddr + w] = image[h.offset + (h.vaddr + w) - h.vaddr]
    <3> HIDE DEF target, h
    <3> QED
      BY <1>2, <2>1, <2>2
  <2> QED
    BY <1>1, <2>3, <2>4
<1>5. ASSUME NEW n \in 1..(header - 1) PROVE Loaded(n)'
  <2> DEFINE g == ProgramHeaders[n]
  <2> SUFFICES ASSUME g.type = PT_LOAD, NEW w \in 0..(g.filesz - 1)
               PROVE  memory'[g.vaddr + w] = File(g.offset + w)
    BY DEF Loaded
  <2>1. n \in 1..Len(ProgramHeaders) /\ Loaded(n)
    BY <1>1
  <2>2. memory[g.vaddr + w] = File(g.offset + w)
    BY <2>1 DEF Loaded
  <2>3. g.vaddr \in Nat /\ g.filesz \in Nat /\ g.vaddr + w \in KernelCells
    BY <2>1, HeaderFacts
  <2>4. ~(h.type = PT_LOAD /\ g.vaddr + w \in target)
    <3> SUFFICES ASSUME h.type = PT_LOAD PROVE g.vaddr + w \notin target
      OBVIOUS
    <3>1. h.vaddr \in Nat /\ h.filesz \in Nat /\ Apart(g, h)
      BY <1>1, HeaderFacts
    <3> HIDE DEF g, h
    <3> QED
      BY <2>3, <3>1 DEF Apart
  <2> HIDE DEF g, target, h
  <2> QED
    BY <1>2, <2>2, <2>3, <2>4
<1>6. \A n \in 1..(header' - 1) : n <= Len(ProgramHeaders) /\ Loaded(n)'
  <2> SUFFICES ASSUME NEW n \in 1..(header' - 1) PROVE n <= Len(ProgramHeaders) /\ Loaded(n)'
    OBVIOUS
  <2>1. n = header \/ n \in 1..(header - 1)
    BY <1>1, <1>3
  <2> QED
    BY <1>1, <1>4, <1>5, <2>1
<1>7. DriveIsAsked'
  BY <1>3 DEF LoadInv, DriveIsAsked
<1>8. ImageIsTheFile'
  BY <1>3 DEF LoadInv, ImageIsTheFile, Reading
<1>9. header' \in Nat \ {0} /\ header' - 1 = header
  BY <1>1, <1>3
<1>10. at' \in {"gdt_init", "boot_info_init"} => \A n \in 1..Len(ProgramHeaders) : Loaded(n)'
  BY <1>1, <1>3, <1>6, <1>9
<1>11. SegmentsAreLoaded'
  BY <1>1, <1>3, <1>6, <1>9, <1>10 DEF SegmentsAreLoaded
<1> QED
  BY <1>7, <1>8, <1>11 DEF LoadInv

LEMMA LoadDrive ==
    ASSUME LoadInv, Drive
    PROVE  LoadInv'
<1>1. /\ UNCHANGED <<at, esi, edi, ebx, image, header, memory>>
      /\ \E state : disk' = [disk EXCEPT !.state = state]
      /\ disk.state \in {"accepted", "busy"}
  BY DEF Drive, DriveStarts, DriveEnds, loadVars
<1>2. DOMAIN disk = {"state", "lba", "word"} /\ at # "read_word"
  BY <1>1 DEF LoadInv, DriveIsAsked
<1>3. DOMAIN disk' = DOMAIN disk /\ disk'.lba = disk.lba /\ disk'.word = disk.word
  BY <1>1, <1>2
<1>4. DriveIsAsked'
  BY <1>1, <1>2, <1>3 DEF LoadInv, DriveIsAsked
<1>5. ImageIsTheFile'
  BY <1>1, <1>2, <1>3 DEF LoadInv, ImageIsTheFile, Offset
<1>6. SegmentsAreLoaded'
  BY <1>1 DEF LoadInv, SegmentsAreLoaded, Loaded
<1> QED
  BY <1>4, <1>5, <1>6 DEF LoadInv

LEMMA LoadStep ==
    ASSUME LoadInv, [Next]_vars
    PROVE  LoadInv'
<1>1. CASE UNCHANGED vars
  BY <1>1, LoadStutter DEF vars
<1>2. CASE BootSector
  BY <1>2, LoadElsewhere DEF BootSector, EntryFromBios, NoMoreEntries, LoadLoader, DiskError,
     loadVars, Reading, Entering
<1>3. CASE EnterProtectedMode \/ EnablePage
  BY <1>3, LoadElsewhere DEF EnterProtectedMode, EnablePage, loadVars, Reading, Entering
<1>4. CASE LoadHdKernelImage
  BY <1>4, LoadHdImage
<1>5. CASE NextSector
  BY <1>5, LoadNextSector
<1>6. CASE WaitReady
  BY <1>6, LoadWaitReady
<1>7. CASE ReadWord
  BY <1>7, LoadReadWord
<1>8. CASE LoadSegment
  BY <1>8, LoadOneSegment
<1>9. CASE InGdtInit
  BY <1>9, LoadStutter DEF InGdtInit, Entering
<1>10. CASE CopyEntry
  BY <1>10, LoadStutter DEF CopyEntry
<1>11. CASE CountEntries \/ Run
  BY <1>11, LoadElsewhere DEF CountEntries, Run, loadVars, Reading, Entering
<1>12. CASE Drive
  BY <1>12, LoadDrive
<1>13. CASE Reset
  BY <1>13, LoadElsewhere DEF Reset, Reading, Entering
<1> QED
  BY <1>1, <1>2, <1>3, <1>4, <1>5, <1>6, <1>7, <1>8, <1>9, <1>10, <1>11, <1>12, <1>13
     DEF Next, Loader, Kernel

(* When the kernel starts, every loadable segment of its file is in memory *)
(* as it is on disk: read_disk of loader.S waits for each sector, however  *)
(* slow the drive is and however many bytes an address needs, and          *)
(* do_load_kernel copies no segment over another.                          *)
THEOREM KernelStaysLoaded == Spec => []KernelIsLoaded
<1>1. Init => LoadInv
  BY LoadBegins
<1>2. LoadInv /\ [Next]_vars => LoadInv'
  BY LoadStep
<1>3. LoadInv => KernelIsLoaded
  BY DEF LoadInv, SegmentsAreLoaded, Loaded, KernelIsLoaded
<1> QED
  BY <1>1, <1>2, <1>3, PTL DEF Spec
=============================================================================
