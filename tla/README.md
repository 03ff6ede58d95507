# A verification development for the os-learning kernel

os-learning is a teaching operating system for the 32-bit x86, in C and NASM,
written as a series of chapters. Each chapter directory is a snapshot of the
same program; this development follows the last one, `src/08.kernel-mm`, with
the files it shares from `src/common`. It contains TLA+ modules for that
kernel, from the boot sector to the heap, the interrupts and the console, TLC
configurations that check them on small machines, and theorems about the heap,
the two memory managers, the interrupts, the locks, the console, the boot and
the library, with proofs that TLAPS checks.

## 1. The system

The boot sector (`boot/mbr.S`) asks the BIOS for the E820 memory map, reads the
loader from disk and jumps to it. The loader (`boot/loader.S`) enters protected
mode, builds the page tables, turns paging on, reads the kernel's ELF file into
a buffer, copies its segments to where they belong and jumps to `main`
(`kernel/kernel.c:10-30`). `main` then calls, in this order, `vga_clear`,
`gdt_init`, `idt_init`, `enable_interrupts`, `init_timer`, `boot_info_init`,
`pmm_init`, `vmm_init`, `init_kheap`, a stress test of the heap
(`kheap_killer`), and spins. There is one processor, there are no threads and
no user mode: concurrency means interrupt handlers on top of the one flow of
control, and the MMU with its TLB beside it.

### Inventory

**Kernel heap** (`kernel/mem/kheap.c`).
*State:* the boundary tags (headers and footers) in the heap's memory,
`kheap.index` (pointers to the holes, smallest first), `end_address`, `size`.
*Operations:* `kmalloc`, `kmalloc_aligned`, `kfree`; inside them `find_hole`,
`make_block`, `kheap_expand`, `alloc`, `free`.
*Interaction:* takes `kheap_lock`; its memory comes to life page by page through
page faults; keeps its index in an ordered array.
*Hard:* long histories; sizes that change while their holes are in the index;
remainders at the exact size of the tags; `alloc` that calls itself; reads of
neighbouring tags at the two ends of the heap; a full index.
*Correct when:* the blocks tile the heap, held pointers and allocated blocks
correspond one to one, holes never touch, the index lists the holes in order,
no assertion fails, allocation is best fit and returns.

**Ordered array** (`kernel/lib/ordered_array.c`).
*State:* an array with a capacity and a comparison. *Operations:* insert,
remove at a position, remove an element, find, get.
*Correct when:* it stays sorted, removal takes out the element asked for and
insertion into a full array changes nothing.

**Physical memory manager** (`kernel/mem/pmm.c`).
*State:* the bitmap, the number of pages, the end of RAM, the count of free
pages, the position of the last allocation.
*Operations:* `pmm_init`, `pmm_alloc_page`, `pmm_free_page`, the getters.
*Interaction:* reads the E820 map and the kernel's place from `boot_info`;
called by the virtual memory manager.
*Hard:* firmware maps that overlap, are unordered, end inside pages or leave
gaps; the search from a start that nobody initialised (the loader clears no
`.bss`); frees of anything.
*Correct when:* it is a pool of the frames nobody reserved, each with one
holder at a time, and it fails only when all are held; its count is exact.

**Virtual memory manager and page faults** (`kernel/mem/vmm.c`, the table setup
in `boot/loader.S`).
*State:* the page directory and tables, reached through a directory entry that
points to the directory; CR3; the TLB.
*Operations:* `vmm_init`, `vmm_map_page`, `vmm_unmap_page`,
`vmm_alloc_and_map_page`, `vmm_get_mapping`'s walk, `vmm_switch_page_directory`,
`vmm_page_fault_handler`.
*Interaction:* frames from the physical memory manager, faults from the CPU, on
behalf of any code that touches a page.
*Hard:* entries that change while they are cached; tables changed through
themselves; failure in the middle of allocate-and-map; the retry after a fault;
stack and load buffer in frames the allocator does not know.
*Correct when:* no translation is stale, the self map reaches the entry the MMU
reads, no two pages share a frame that was handed out, every touch ends.

**Spin lock and yield lock** (`kernel/sync`). *State:* the lock word, the saved
interrupt flag. *Operations:* lock, try, unlock, lock and unlock with interrupts
disabled. *Hard:* a handler that takes the lock its interrupted code holds; the
saved flag is written before the lock is taken and read after it is free; locks
inside locks. *Correct when:* at most one holder, the interrupt flag is as its
owner left it, nobody spins for ever.

**Interrupts, PIC and timer** (`kernel/interrupt`). *State:* the IDT, the
handler table, `in_interrupt_context`, masks and service registers of the two
PICs, the tick counter. *Operations:* init, register, dispatch, mask, end of
interrupt. *Hard:* nesting (a page fault in a handler), spurious interrupts,
order of remapping and enabling. *Correct when:* each interrupt is acknowledged
once, handlers run with the frame that was pushed, the context flag is right
while any handler runs.

**Console** (`kernel/drivers/vga.c`). *State:* the cursor, the colour, the text
buffer, the cursor registers of the CRTC. *Operations:* clear, put character,
scroll, move the cursor, set the colour; the number conversions and printf on
top of them. *Interaction:* everything prints, interrupt handlers included, and
nothing takes a lock for it. *Hard:* output of a handler between two accesses of
the code below it. *Correct when:* stores stay in the video memory, the cursor
comes back to the screen, undisturbed calls do what a terminal does.

**Number conversions and printf** (`kernel/drivers/vga.c`). Pure functions.
*Hard:* buffers too small for the number, the most negative number, 64 bits
without a division, which directive takes how many words from the stack.
*Correct when:* what is printed is the number.

**Boot sector, disk, loader** (`boot/mbr.S`, `boot/loader.S`,
`src/common/lib/pm_utils.S`). *State:* the E820 buffer, the ATA registers, the
buffer of the kernel's file, the segments in memory. *Operations:* E820 calls,
reading of the loader by the BIOS and of the kernel by polling, protected mode,
paging, the copy of the segments. *Hard:* a list without a terminator, a drive
that is slow to show that it is busy or that reports an error, memory that a
reset does not clear. *Correct when:* the kernel in memory is the one on disk
and the boot ends.

**Boot information** (`kernel/mem/boot_info.c`). *State:* the copy of the map.
*Correct when:* it is the firmware's.

**Segments** (`kernel/mem/gdt.c`, `gdt.S`). *State:* the table, the TSS, the
registers that were loaded from them. *Operations:* `gdt_init` and its two
flushes, `gdt_dump`. *Hard:* bases and limits in pieces; registers keep what was
in the table when they were loaded. *Correct when:* everything is flat, the task
state fits its segment.

**Random numbers, string and math helpers** (`kernel/lib`). Pure functions but
for the generator's seed. *Hard:* overlapping copies, unsigned characters,
negative dividends, a modulus that shares its factors with the multiplier.

`PROJECT.json` lists every one of these with its status, and under `hazards`
the places in the code where something can go wrong that a test would hardly
reach, with the properties that watch over each.

## 2. Modules

| module | models | on top of |
|---|---|---|
| `OrderedArray` | `ordered_array.c`, as operators on sequences | |
| `HeapSpec` | what kmalloc and kfree promise their callers (abstract) | |
| `KHeap` | `kheap.c` | `OrderedArray`, implements `HeapSpec` |
| `KHeapProofs` | proofs | `KHeapValidate` |
| `FramePool` | what `pmm.h` promises (abstract) | |
| `Pmm` | `pmm.c` | implements `FramePool` |
| `PmmProofs` | proofs | `PmmDump` |
| `Vmm` | `vmm.c`, the tables of `loader.S`, MMU and TLB | `P == INSTANCE Pmm` |
| `VmmProofs` | proofs | `Vmm`, `PP == INSTANCE PmmProofs WITH LineWidth <- 1` |
| `Pic` | the two 8259A controllers (hardware, as operators on records) | |
| `Interrupts` | `main` up to its loop, `interrupt.c`, `interrupt.S`, `timer.c` and the CPU | `Pic` |
| `InterruptsProofs` | proofs | `Interrupts` |
| `KHeapValidate` | the walk of `kheap_validate_print` | `KHeap` |
| `PmmDump` | what `pmm_dump`, `pmm_dump_used` and `pmm_dump_free` print | `Pmm` |
| `MutexSpec` | what a lock promises (abstract) | |
| `Locks` | `spinlock.c`, `yieldlock.c`, `lock.S` and nested handlers | implements `MutexSpec` |
| `LocksProofs` | proofs | `Locks` |
| `Terminal` | what a terminal does with a call (abstract) | |
| `Console` | the calls of `vga.c` that reach the screen, with a handler that prints | implements `Terminal` |
| `ConsoleProofs` | proofs | `Console` |
| `Format`, `Printf` | the conversions and `vga_printf`, as operators | |
| `Strings`, `Rand` | `string.c` and `math.c`; `rand.c`, as operators | |
| `Library` | the calls of these four with small arguments | `Format`, `Printf`, `Strings`, `Rand` |
| `LibraryProofs` | proofs | `Library` |
| `Segments` | `gdt.c`, `gdt.S`, the loader's table, the CPU's descriptors | |
| `Boot` | `mbr.S`, `loader.S`, `read_disk`, `boot_info.c`, the drive, resets | `Segments` |
| `BootProofs` | proofs | `Boot` |
| `MCKHeap`, `MCPmm`, `MCVmm`, `MCInterrupts`, `MCLocks`, `MCConsole`, `MCLibrary`, `MCBoot` | small instances for TLC | |

`Vmm` composes: its boot is `Pmm`'s `PmmInit` and `LockRegion`, and its
allocate-and-map is `Pmm`'s `AllocPage` followed by the change of the entry, in
one step of the same variables.

### KHeap

Memory is what its tags say: `mem.hdr` maps the address of a header to its
fields, `mem.ftr` the address of a footer to the header it points to. Writing a
block removes the tags in its span; reading where no tag lies gives an
arbitrary value inside the heap, and outside of it no magic, or anything when
`StaleMemory` is TRUE. Additions are additions of 32-bit words (`Add32`,
modulo `WordSize`).

| code | action |
|---|---|
| `kmalloc`, `kmalloc_aligned`, up to the call of `alloc` | `Kmalloc` |
| `alloc`, one round: `find_hole` failed, `kheap_expand`, merge or make the last hole | `Expand` |
| `alloc`, the last round: `find_hole`, both cuts, return | `Place` |
| `kfree`, `free` with the merges to the right and to the left | `Kfree` |
| `ASSERT` | `Panic(assertion)`, then `Halted` |

`kmalloc(0)` and `kfree(NULL)` change nothing and are left out; `kheap_contract`
is not called by anybody. Every call runs under the heap lock, and no interrupt
handler allocates (the page fault handler does not use the heap), so a call is
interrupted by nothing that sees its intermediate states; `alloc` is one step
per round all the same, so that its recursion can be counted.

### Pmm

`pmm_init` is a step for the two scans of the map with the check of the
bitmap's size (`PmmInit`) and a step for each region it locks (`LockRegion`:
every E820 entry, then the kernel, then the low memory). `AllocPage` is the
next-fit search: `Distance` is how far the search has gone when it looks at a
page, and the page it takes is the nearest clear one. `FreePage` takes any
address: those the code ignores are `Ignored`. A call that the header leaves
undefined and the code does not catch, to free a frame of RAM that is in use but
was never handed out, is excluded (`Undefined`). `last_alloc_index` starts with
any of `StaleWords`. The magic of `boot_info` is always right here, because
`main` calls `boot_info_init` first.

### Vmm

`tables[f]` is the content of the frame `f`, the directory is one of them and
contains itself, and `GetPage` reaches a table the way the code does, by a walk
through the self map. `Touch(v)` is any access of the kernel, `Translate` its
success in the MMU (which caches what it found), `PageFault` the handler in one
step: it arrives through an interrupt gate and whatever it touches is mapped.
The access is then tried again by `Translate` or `PageFault`. `Push` is an
access below the top of the stack, where a fault cannot be delivered. `Evict`
is the MMU's freedom to drop a translation at any time. CR0.WP is off and the
kernel runs in ring 0, so of the flags of an entry only PAGE_PRESENT decides
anything, and only it is kept. Memory is clear at the start, as after power-up.

### Interrupts

`at` is the next instruction: a number in `MainCode`, the list of what `main`
does to the controllers, IDT, timer and handler table, one entry for each port
access, or a place in one of the two C handlers. `stack` is the kernel stack
above `main`'s frames, word by word (all that both stubs push and pop alike is
one word). An interrupt pushes what the CPU and the stub of its vector push;
`Return` takes off what the common stub takes off and then needs the three words
of the CPU on top, or else the processor resets. That the layers fit is thus
nothing the model assumes.

| code | action |
|---|---|
| `pic_init`, one port access each | `PicRead`, `OutPic` |
| `lidt`, `sti`, `register_interrupt_handler`, `init_timer` | `LoadIdt`, `EnableInterrupts`, `RegisterInterruptHandler`, `InitTimer` |
| gate and stub, for a device, a withdrawn request, an exception, an NMI | `HardwareInterrupt`, `SpuriousInterrupt`, `Raise`, `NonMaskableInterrupt` |
| `in_interrupt_context = true`, the two writes of `pic_send_eoi`, the handler or the message, `= false` | `SetFlag`, `PicSendEoi`, `CallHandler`, `ClearFlag` |
| `cli; hlt` of `isr_handler`; `PANIC` of the page fault handler | `StopOnCritical`; `PageFaultPanics`, `PanicHalts` |
| the end of the stubs, `iret` | `Return` |
| a device raises its line | `RaiseLine` |

A request that is not masked is taken before the next instruction
(`CpuRuns`). A device of `Withdrawing` may take a request back while the CPU
acknowledges it; the chip then answers with its line 7. Exceptions come from
`main`'s code; the handlers raise none. `Idt` is the table that `idt_init`
leaves: the stub and the type of each gate, from which the CPU takes where it
goes and whether it clears IF. What the page fault handler does to the
tables is in `Vmm`: here it returns or panics. No exception and no NMI comes
before the IDT is loaded (it would reset the processor, whatever the code does).

### Locks

Context 0 is `main`, and each interrupt puts a context on top; only the topmost
runs. One step is one access to a lock word, a saved mask or the interrupt flag.

| code | action |
|---|---|
| `spinlock_lock_irqsave`: flags read, `cli`, mask stored, the loop | `LockIrqsave`, `DisableInterrupts`, `SaveMask`, `Exchange` |
| `spinlock_unlock_irqrestore`: the store, then the flag | `UnlockIrqrestore`, `Irqrestore` |
| `spinlock_lock`, `yieldlock_lock` | `SpinlockLock`, `YieldlockLock`, then `Exchange` (one round of the loop) |
| `spinlock_unlock`, `yieldlock_unlock` | `SpinlockUnlock`, `YieldlockUnlock` |
| `yieldlock_trylock` | `TryLock` |
| gate and `iret`; `sti` and `cli` of `main` | `Interrupt`, `Iret`; `SetInterrupts` |

Callers keep the rules that the comments give them: a spin lock that handlers
take is always taken with interrupts disabled, handlers only try yield locks,
and locks are given back in the opposite order. The code checks none of it.

### Console

The build is unoptimised (`-O0`, static variables), so every read and write of
the cursor is an instruction of its own: `PutLetter` and its like are the
accesses of `vga_putc` in order, `Wrap` and `Scroll` its end, `SyncCursor` the
four port writes, `Clear` and `MoveCursor` the other two functions. The handler
is `irq_handler` with its message about an interrupt without a handler
(`HandlerText`); it runs with interrupts disabled. `before` remembers the
terminal at the last moment without a call, and `mixed` whether a handler ran
inside the present one: `Terminal` is implemented with the terminal as it was
while a call is under way. `vga_write` and `vga_printf` are a series of
`vga_putc`; what they put is `Printf`'s matter.

### Format, Printf, Strings, Rand, Library

Each function of the C code is an operator that follows the code's steps
(`Ulltoa` takes powers of ten off, `Memmove` copies byte by byte in its
direction, `NextSeed` multiplies in two halves of the 32-bit product), and
`Library` calls it with arguments from small sets and keeps call and answer.
The properties compare the answer with a definition that shares nothing with
the loops: numerals as quotients, copies as functions, the order of strings as
that of a dictionary. `Printf` walks a format and a stack of words, of which a
directive takes as many as `va_arg` takes. `PmmDump` and `KHeapValidate` do the
same with the walks that print the bitmap and the heap, in every state of `Pmm`
and `KHeap`.

### Boot and Segments

| code | action |
|---|---|
| `get_memory_map`, one BIOS call each | `EntryFromBios`, `NoMoreEntries` |
| `disk_load` and its error message | `LoadLoader`, `DiskError` |
| `loader_start`, `init_pm`; `enable_page` with the second load of `gs` | `EnterProtectedMode`; `EnablePage` |
| `read_disk`: registers and command, a round of polling, a word | `NextSector`, `WaitReady`, `ReadWord` |
| `do_load_kernel`, one program header | `LoadSegment` |
| `gdt_init`, call by call: entries, TSS, `gdt_flush`, `tss_flush` | `InGdtInit` (`GdtInit` of `Segments`) |
| `boot_info_init`, an entry each, then the count | `CopyEntry`, `CountEntries` |
| the drive shows that it is busy; is ready; fails | `DriveStarts`, `DriveEnds` |
| a reset at any moment | `Reset` |

A descriptor is its eight bytes, and `Descriptor` is what the CPU makes of them;
a 32-bit word is a pair of 16-bit halves. A segment register keeps what it found
when it was loaded. Low memory holds sectors and E820 entries, so that one can
overwrite the other. A reset clears registers, drive and `boot_info`'s count
(`boot_info_init` sets it again) but neither low memory nor the image nor the
kernel's segments; the kernel that ran before has written over its own
(`Run`). Memory is clear at power-up, which the code relies on: nothing ends
the list in the E820 buffer.

## 3. Runs

| run | expects | what it shows |
|---|---|---|
| `heap` | pass | All histories of kmalloc, kmalloc_aligned and kfree with up to three live pointers, on a heap of two pages that can grow to four, the header larger than the footer as in the code (9 and 8 bytes): structure, assertions, best fit, return, and `HeapSpec`; `kheap_validate_print` finds nothing to complain about |
| `pmm` | pass | Six machines, three starts of the search, all allocations and frees: `FramePool`; the dumps show exactly what is in use |
| `pmm_gap` | violation | Memory that no E820 entry mentions, between two of RAM, is handed out |
| `vmm` | pass | Boot, demand paging, mapping and unmapping, memory that runs out |
| `vmm_stack_frames` | violation | With more than 32 MB the frames of the kernel stack are handed out |
| `vmm_stack_depth` | violation | Of the four stack pages only one is below the top of the stack |
| `interrupts` | pass | Timer, a line of the master and one of the slave, two requests each, some withdrawn or masked, exceptions and an NMI between any two instructions from the first of `pic_init` on: the stack, the controllers, their masks and vectors; requests are served |
| `timer` | violation | The binary divisor is written to a counter in BCD mode |
| `locks` | pass | Two spin locks with saved flag, a plain one and a yield lock, handlers two deep, an interrupt between any two accesses: `MutexSpec`, the flag comes back and no handler runs inside a lock that disables interrupts, no spinning for ever |
| `console` | pass | Two calls of `main` and two messages of a handler at any place in them: stores stay in the video memory, the cursor comes back, `Terminal` |
| `library` | pass | Conversions, `vga_printf`, copies, comparisons, divisions and random numbers, every argument of the small sets, buffers of every size |
| `boot` | pass | Five memory maps, a slow or failing drive, a reset at any moment: map, kernel, segments and task state are right, the boot ends |

The errors of the program and the disagreements with its documentation behind the violations are in
`PROJECT.json` under `findings`, with the lines they contradict.

Seen in the code, without a run:

* Heap: a hole that finds the index full is dropped from it, and
  `ASSERT(hole_num == kheap.index.size)` of the stress test would fail
  (`kheap.c:222`, `308`); old tags in memory that the heap grows into can be
  taken for a neighbour (`kheap.c:246`); requests near 4 GB wrap (`kheap.c:35`).
* Frames: `pmm_get_free_page_count` counts pages that cannot be allocated (those
  above RAM, and those no E820 entry mentions); `vmm_alloc_and_map_page` keeps
  the frame when there is no table to map it in.
* Interrupts: the frame of an IRQ has no error code, so that `err_code`, `eip`
  and `cs` of `interrupt_frame_t` hold the words above them (no handler reads
  them); an NMI inside a handler clears `in_interrupt_context`
  (`interrupt.c:178`) and ends the single `hlt` of a critical exception
  (`interrupt.c:168`).
* Locks: the comment at `spinlock.c:56` promises that there is no deadlock,
  which holds only for callers that keep the rules above; `spinlock.h` declares
  functions that `spinlock.c` does not define; giving back two locks in the
  order they were taken enables interrupts while the second is still held.
* Console: a format that ends in `%l` or `%ll` reads past its terminator;
  `boot_info.c:67` hands a 32-bit size to `%h`, which takes 64 bits; `%X` prints
  small letters; a handler's newline inside a backspace would make the column
  255 (nothing prints one once interrupts are enabled).
* Random numbers: all draws from the third on are the same number, so that all
  but the first blocks of the stress test have 485 bytes (`rand.c:26`).
* `gdt_flush` takes its argument from eax, where only the unoptimised build has
  left it; `read_disk` waits for ever for a drive that reports an error.

Every property of a passing run has a mutant: one definition of the model
changed as a slip of the programmer would, for which TLC reports that very
property. The mutated forms stand in the modules beside the definitions they
replace, marked *mutant*, and are used by nothing else.

### Bounds

*Heap.* Addresses are cells. Pages of eight cells, a header of two cells and a
footer of one; requests of 1 and 6 make all cases happen: a remainder that is
exactly the tags' size (given to the owner), one cell more (a hole of one
cell), a request that needs more than a page, aligned blocks with and without a
hole in front, one and two expansions, the end of the address space. Three live
pointers are enough for a free with both neighbours held, one of them free, both
free. `MaxRounds` saturates the count of rounds, which never
passes three. `MaxLive` and `MaxRounds` bound the model; the other constants stand for
constants of the code. That the index may overflow without harm to what callers hold
is not run but proved: the theorems of section 4 that say so assume no capacity.

*Pmm.* Pages of two bytes, so that a region can end inside one; up to 16 of
them. The machines are a usual PC map; overlapping and unordered entries; RAM
only; no RAM; no map; more than the bitmap covers. `StaleWords` has a start
inside RAM, at 0, and beyond everything. A line of the dump has three pages, so
that runs of pages end inside lines, at their ends and at the end of the bitmap.

*Vmm.* Tables of six entries: one for low memory, one that nobody uses, then
the three fixed entries and one more table. Three free frames run out in every
way. `Touched` holds a page below the kernel's half, the page of the kernel, one
behind it and one of the heap; `Mapped` those the interface is used on. The
loader maps two pages for an image of one, as it maps a whole megabyte for a
kernel that is smaller: the second shows a frame that is free for `pmm.c`
(`Leftover`). Aliased pages (entries 0 and 768 share a table) and the page tables'
own pages are not in `Mapped`: the code flushes one address only, and nobody maps
there (`TableAssumption`). `LayoutAssumption` and `DeviceAssumption` say of the
constants what `bootmacros.inc` says of the addresses: the tables lie in low
memory, the loader's three ranges are apart, and the frames that `vmm_map_page`
is asked for are not RAM.

*Interrupts.* Devices 0, 3 and 10 are a line above the cascade that is counted,
one below it, and one that goes through both chips; two requests each let a
request of the same line wait while the first is handled. Of the exceptions, 0
prints and returns, 14 stops the system until it gets its handler during the
run. One NMI is enough to come between any two instructions; a second cannot
come before the first has returned. The BIOS has masked nothing, or lines of
each chip, line 10 among them.
`MaxRaises` and `MaxNmi` bound the model.

*Locks.* Two spin locks can be taken inside each other, the plain lock and the
yield lock inside and around them. Two handlers are one more than can ever run,
so that a handler inside a handler would be seen. A handler begins three
locks or attempts (`HandlerWork`), inside or after each other; `MaxHeld` bounds
the nesting.

*Console.* A screen of two lines of four, tabs of two: every character of a
call is at an edge or next to one. Two calls and two interrupts are enough for
a handler in each of them, or both in one; the handler prints a newline, a
letter and a newline as `irq_handler` does.

*Library.* Words of 6 bits, long ones of 12, a Kilo of 8: numbers of one to four
digits, four units, every boundary of both word sizes; buffers of 0 to 8 bytes.
Divisions by 1 to 4 of -9 to 9. Random numbers have their true 31 bits. Memories
end in a zero, as `MemoryAssumption` asks. The longest decimal has four digits, as
`NumberAssumption` wants of it.

*Boot.* Maps of 0 to 3 entries for an array of 2, ended by the carry flag or by
ebx = 0. Three sectors of two words; two loaded segments with a note between
them, one with less in the file than in memory. `Byte` = 4 spreads the
sector numbers 9 to 11 over two of the LBA registers. The descriptors have their true bits.
The assumptions on these constants are explained with the proofs, in section 4.

`CHECK_DEADLOCK` is on in every run: a stopped kernel loops in `Halted`,
`Stopped` or `Idle`.

### Fairness

`KHeap`: weak fairness of `Expand \/ Place`. Between the call and the return of
`alloc` nothing else of the kernel runs but interrupt handlers, which return.
`Vmm`: weak fairness of `Translate \/ PageFault`. The processor repeats the
access after the handler returns. `Interrupts`: weak fairness of `Cpu`, the processor goes on from instruction to
instruction, or takes the interrupt; exceptions need not come to an end, so that
`main` may never get anywhere, and once it has enabled interrupts requests are served all the same. Nothing is
assumed of devices. Nothing is assumed of callers: nobody need
ever free, touch, or call anything. `Pmm` has no liveness: its functions are
single steps. `Locks`: strong fairness of `Iret`, of each context's next
instruction and of its giving back what it holds; strong, because handlers
interrupt the code below again and again and yet leave it time. That callers
give locks back is the locks' own rule. `Boot`: weak fairness of the
processor's steps and of the drive, which ends a command or reports an error.
`Console` and `Library` assume none.

## 4. Proofs

TLC checks one small instance of each module; the theorems hold for every value
of the constants that satisfies the modules' named assumptions. Each has the
same argument: an inductive invariant, a lemma for each action that preserves
it, and the properties that follow from it. What is said below of a proof is
mostly what its invariant has to contain, for that is where the code's
correctness lies.

### The heap

The theorems about `KHeap` have the form `RequestsFit => (Spec => ...)`.
`RequestsFit` says that no sum of a request with the end of the heap wraps around
2^32 and that memory beyond the heap holds no old tags (`StaleMemory = FALSE`).
Both are needed: without the second an old tag behind the heap may be merged with
its last block, which fails `ASSERT(remove)` of `free`, and without the first
`end_address + expand_size` passes the assertion on `max_address` with a wrapped
value.

*The inductive invariant* `HeapInv` is: the blocks tile the heap; the index is
ordered, without duplicates, within its capacity, and lists holes only; holes do
not touch; owners and allocated blocks match; `size = end - start`; the request
in progress is one of `Requests`. None is inductive alone. Tiling needs the
index (`Place` and the merges change the block the index names), the order of
the index needs tiling (the size of a listed hole changes only while it is out
of the index, and this is only seen when blocks do not overlap), and the
absence of touching holes needs the order of the merges with the owners.
*Not* part of it is that every hole is indexed: it is false when the index
overflows, and the proof shows that safety does not depend on it.

`KHeapProofs` begins with the lemmas about the array: insertion and removal keep
order, distinctness and capacity and change the set of elements as expected, and
order depends only on the sizes of the elements listed. Then come, layer
upon layer, lemmas about one written block (`MakeBlock`), about a block cut in
two or three and two blocks joined, and then one lemma per action.

*With room in the index.* `RoomForAll` says that the index has more places than
the kernel holds pointers at a time, and one (`MaxLive + 1 < IndexCapacity`; in
the code 131072 places). That is enough, because holes never touch: each but the
last is followed by an allocated block, so there is at most one more than there
are pointers (`HolesAreFew`), and the index never is full. Then `RoomInv` holds:
every hole is in the index, no assertion but that on the end of the address
space has failed, and the heap that `alloc` has added for a request is in the
last hole (`GrownEnough`). After two rounds that hole takes the request wherever
it begins: unless it is as large as two extensions it was made at the old end of
the heap, which is a page boundary (`FitsAfterTwo`).

The walk of `kheap_validate_print` is a function that is defined by recursion from
a block to the next. That there is such a function (`SomethingWalks`) is shown by
giving it: at each address the number of holes and of allocated blocks from there
on. That every such function has these values (`WalkCounts`) follows from the
last block where it would not. Its counts are then those of the index, where no
hole is missing, and of the pointers, each in a block of its own.

| theorem | states |
|---|---|
| `HeapInvariant` | `HeapInv` always holds |
| `BlocksAlwaysTileTheHeap`, `IndexIsAlwaysOrdered`, `NoHolesAreEverAdjacent`, `OwnersAlwaysMatchBlocks`, `FreeingAllAlwaysLeavesOneHole` | the first four are invariants of the run `heap`; the last is that freeing everything leaves one hole |
| `HeldBlocksAlwaysStay` | the action property: no call touches the block of a pointer that stays held |
| `TypeCorrectness` | `TypeOK` |
| `HeapImplementsHeapSpec` | `KHeap` implements `HeapSpec`: `Place` maps to an allocation of bytes nobody holds, `Kfree` to a free, failing assertions to a stop, everything else to a stutter |
| `NoHoleIsLost`, `AssertionsNeverFail`, `AllocExpandsTwiceAtMost` | with `RoomForAll`: every hole is in the index; no assertion fails but that on the end of the address space; two extensions at most |
| `CallsAlwaysSucceed` | with `RoomForAll`: `CallsSucceed`, the walk of `kheap_validate_print` included |
| `AllocationIsBestFit` | with `RoomForAll`: `TakesSmallestHole` |

### Frames

`PmmInv` of `PmmProofs` holds for every E820 map, page size and bitmap. Beside
`TypeOK`, `CountMatchesBitmap` and `NoReservedFrameIsHeld` it says what `pmm_init`
has done so far: the numbers it measured in the map, that the regions it has
passed are locked (`RegionsLocked`), that nothing is held before it ends, and that
no bit is set without a region or a caller that uses the frame
(`InUseForAReason`). `PagesAreOverlaps` reduces the rounding of a region's two
ends to the pages that share a byte with it, and `AllocPage` needs that the
next-fit distance has a least value exactly when some frame is free.

The loop of `pmm_dump_regions` has an invariant of its own (`ScanInv`): before
page `p` the runs printed so far are maximal, in order, and end before `p - 1`
(the page in between has the other colour), the open run begins where its colour
does and no run touches it, and together they hold exactly the pages wanted below `p`. The lines of
`pmm_dump` put side by side are the bitmap, one mark for each page, whatever the
width of a line (`LinesShowTheBitmap`).

| theorem | states |
|---|---|
| `PmmInvariant`, `PmmTypeCorrectness` | `PmmInv`; `TypeOK` |
| `PmmCountIsRight` | `CountMatchesBitmap` |
| `PmmNeverHandsOutReserved` | `NoReservedFrameIsHeld` |
| `PmmDumpsAreRight` | `DumpsShowTheBitmap` |
| `PmmImplementsFramePool` | `Pmm` implements `FramePool`: a frame handed out was nobody's, and a call fails only when all are held |

### Virtual memory

`VmmInv` of `VmmProofs` contains `PmmInv` of the allocator inside it; a step of
`vmm.c` is one of `Pmm` or leaves the frames alone, so the proofs of `PmmProofs`
are used as they are. Its own part is `TablesStand`: the directory and the first
table never change, since an entry is written through the self map only for
pages of `Mapped`, which none of these two tables holds. From it follows which
table a page belongs to and that two pages never share a place in one, and with
that that flushing one address is enough for the TLB.

That frames are not shared needs more (`ShareInv`): a page that shows a frame of
the pool shows one that is held, and no two show the same. It is false of
`Leftover`, the pages that the loader maps for the buffer of the ELF file and for
the end of the kernel's megabyte: their frames are free memory, and the entries
stay. The property leaves these pages out, which nothing uses after boot. It is
false also where the kernel's stack is RAM that the allocator knows of, on any
machine with 32 MB: the run `vmm_stack_frames` shows it, and `StackIsNotRam` is
the hypothesis of the theorem.

| theorem | states |
|---|---|
| `VmmInvariant`, `VmmTypeCorrectness` | `VmmInv`; `TypeOK` |
| `TlbNeverDisagrees` | `TlbAgreesWithTables` |
| `SelfMapHolds` | `SelfMapReachesTheTables` |
| `FaultIsServed` | `RetrySucceeds` |
| `FramesAreNotShared` | `StackIsNotRam => (Spec => []HandedOutFramesAreMappedOnce)` |

### Interrupts

`InterruptsInv` of `InterruptsProofs` is the shape of the stack, for any number
of requests and NMIs, any devices, exceptions and masks of the BIOS: it is empty
in `main`, has one frame of 6 or 5 words (exception or device) in a handler, and
6 more in the handler of an NMI on top. All parts need each other. That an `iret`
finds its words needs the frame below a handler; that there is never a third
frame needs the flag that every gate clears and that `main` can be interrupted
by a device only after its `sti`; so the place of `main`, which the frame keeps
while a handler runs (`MainPc`), is part of the shape, and with it `SetUp`, what
each chip has got of its initialisation words when `main` is at each of its
instructions. `ServiceFits` says which lines may be in service at each place of a
handler.

| theorem | states |
|---|---|
| `InterruptsInvariant`, `InterruptsTypeCorrectness` | `InterruptsInv`; `TypeOK` |
| `ProcessorNeverResets` | `NeverReset` |
| `StackIsBounded` | the stack has at most 12 words above `main`, and handlers run with interrupts disabled |
| `NoLineStaysBlocked` | `InServiceIsOwed` |
| `DevicesNeverNest` | `OneIrqAtATime` |
| `PicInitIsRight` | `ControllersAreSetUp` |

### Locks

`LocksInv` of `LocksProofs`, for any number of locks and any depth of handlers:
a word is taken exactly while some context holds the lock (`WordsTellHolders`);
what a context is busy with fits what it holds (`TargetsFit`); saved masks and
flags are those of the owner (`FlagsSaved`), where only the outermost spin lock's
mask may say that interrupts are on; and a handler runs on top of `main` only
where `main` has them on, with them off itself (`ContextsStack`). The last part
is why no handler ever meets a spin lock that its interrupted code holds, and
why handlers never nest.

| theorem | states |
|---|---|
| `LocksInvariant`, `LocksTypeCorrectness` | `LocksInv`; `TypeOK` |
| `FlagIsAlwaysRestored` | `FlagRestored` |
| `HandlersNeverNest` | one handler at most, with interrupts disabled |
| `LocksImplementMutex` | `Locks` implements `MutexSpec` |

### Console

`ConsoleInv` of `ConsoleProofs`, for a screen of any size and any number of calls
and of handlers between their accesses, has four parts. `Nested` is the order of
the two contexts. `CursorFits` says how far the cursor, the registers and the
indices may be off the screen at each place of each context: the row by one line
until it is scrolled, the column by one until it is wrapped. A call of `main`
that goes on after a handler finds the cursor as `Near` says; a handler may
begin on any cursor that `main` leaves half moved, one of the two a step too
far but never both (`Beside`), and `Far` says what becomes of it. `Undisturbed`
says of a call that nothing has interrupted how far it has come from the terminal
it began with: which cells are written, erased or moved already (`Exact`), that
what is shown at last is what was asked for (`Shown`), and which half of the
cursor's position the CRTC has got (`Sent`). It says nothing of mixed calls; that
a mixed call ends in *some* terminal, from which the next undisturbed one begins,
is the first three parts' matter.

| theorem | states |
|---|---|
| `ConsoleInvariant` | `ConsoleInv` |
| `ConsoleStoresStayInTheBuffer` | `StoresStayInTheBuffer` |
| `ConsoleCursorComesBack` | `CursorComesBack` |
| `ConsoleImplementsTerminal` | `Console` implements `Terminal` |

### Boot

`BootProofs` has three inductive invariants, one for each thing that the boot hands
over. Each holds through resets, which are steps like any other, and so says what
an earlier boot may have left.

`SegmentsInv`: the entries that `gdt_init` has set are there until the next reset,
whatever the table held before (`TablesAreBuilt`), and at each place the registers
hold what was loaded from the table of that time (`SegmentsAreFlat`). The bits of
the entries are computed for any address of the TSS.

`MapInv`: each cell of the buffer that belongs to the map is clear or holds the
firmware's entry, those below `di` hold it, and the cell behind the map is clear
(`BufferHoldsTheMap`). An earlier boot can have left only the same map there, and no
sector is read over it. `boot_info` holds as many entries as it has counted.

`LoadInv`: while a sector is waited for and read, the drive has been asked for that
sector, and words are taken only when it is ready (`DriveIsAsked`); the buffer has
the words before the present one (`ImageIsTheFile`); the segments of the headers before the present one are in
memory, which the copy of the next does not touch (`SegmentsAreLoaded`).

The assumptions are these. `FirmwareAssumption`: the loader's sectors end before the
E820 buffer, which has room for the map and a clear entry behind it; a map without
an entry ends by the carry flag. `DiskAssumption`: sector numbers fit into the 28
bits of the LBA registers. `KernelFileAssumption`: what is loaded of the file is in
the sectors that are read, a segment has no more in the file than in memory, and
segments do not overlap; the linker makes such files. `TssAssumption`: the address
of the TSS is a 32-bit word.

| theorem | states |
|---|---|
| `DescriptorsStayRight` | `DescriptorsAreRight` |
| `MapStaysTheFirmwares` | `MapIsTheFirmwares` |
| `KernelStaysLoaded` | `KernelIsLoaded` |

### Library

A call of `Library` depends on no call before it, so the invariant is the property
itself, and the proof is of the operators. Their loops are recursive functions;
what they hold after each round is shown for 0 and, from one round, for the next.
`memmove` needs that the direction it chooses never reads a byte it has written,
`strcmp` and `strcpy` that the terminator they stop at is the first, `div` and `mod`
that the remainder of C has the sign of the dividend. `rand` settles
because its multiplier is a multiple of 4096: two steps remove 24 bits of the seed,
the third the rest. It is proved in numbers below 2^31, as the code has them, for
every seed and every tick.

The conversions are compared with a definition that has no loop: the length of a
number is the least power of the base above it, its digit number k the quotient by
that power, modulo the base. The lemmas on the way are about quotients of quotients
and about powers that rise. After n rounds the loop of `vga_utoa` has the n lowest
digits (`DigitsBackwardsIs`), the decimal loop of `vga_ulltoa` those for the first n
powers of its array, without the leading zeros (`ForwardDigitsIs`); so what does not
fit is the front of the number in the one and its end in the other. `vga_itoa` negates as a
word, which is right for the most negative int as well; the tenths that
`vga_human_size` computes from the remainder are those of ten times the number.

`NumberAssumption`: long values are 64-bit numbers, sizes natural ones, and the longest
decimal is shorter than the 32 bytes of `tmp` in `vga_human_size`; with 64 bits it
has 20 digits. `FormatAssumption`: a word has an even number of values, a long
word no fewer of them, and a Kilo is more than 1.
`MemoryAssumption`: a memory is bytes at the addresses from 0 on, with a zero at its
end, so that every string ends; the C functions promise nothing for others.
`SeedAssumption`: seeds and ticks are natural numbers.

| theorem | states |
|---|---|
| `HelpersStayRight` | `HelpersAreRight` |
| `ConversionsStayRight` | `ConversionsAreRight` |

### Model-checked only

* Liveness, which is beyond the prover, and with it anything about ENABLED:
  `KmallocReturns`, `TouchEnds`, that requests are served, that nobody spins for
  ever and that the boot ends.
* `PrintfFollowsItsFormat`. The texts that its directives mean are written out for
  the words of 6 and 12 bits and the Kilo of 8 of the run: `%h` of one less than a
  Kilo is one digit there and four in the code. The numbers that the directives
  print are covered for every word by `ConversionsStayRight`; that each directive
  takes its own arguments, TLC checks for all pairs.

## 5. Not modelled

* Requests near 4 GB, which wrap around: neither promised nor prevented.
* Page tables left over from before a warm reboot (only the directory is
  cleared): listed as a hazard.
* E820 entries of size 0, page numbers beyond 32 bits (machines with 16 TB).
* Faults inside interrupt handlers and software interrupts: no handler of the
  kernel faults, nothing executes `int`.
* The instruction after `sti`, during which interrupts still wait; machine
  checks.
* The wording of messages; `kheap_validate_print`'s and `gdt_dump`'s layout.
* The A20 gate, the FPU, the printing of the boot stages in real mode; a drive
  other than the one the BIOS names.
* `kheap_contract`, `tss_set_stack`, `linked_list.h`, `bitmap.h` and the rest of
  `lock.S`, which nothing calls.
* The whole of `main` in one model: `Boot` ends where `Interrupts`, `Pmm` and
  `Vmm` begin, each of which starts from the state the one before leaves.
* Chapters 01 to 07, earlier states of the same program.

## 6. Plan

In the order of what matters most to the system:

1. *Done:* `KHeap` with `OrderedArray` and `HeapSpec`, its invariant and its
   refinement proved; `Pmm` with `FramePool`; `Vmm` over `Pmm`; `Interrupts`
   over `Pic`.
2. *Done:* `Locks` with `MutexSpec`; `Console` with `Terminal`; `Library` with
   `Format`, `Printf`, `Strings` and `Rand`; `Boot` over `Segments`; the dumps.
3. *Done:* the proofs of section 4: the heap with and without room in its index
   and its validation, the frames and their dumps, the virtual memory, the
   interrupts, the locks, the console, the boot and the library.
4. What remains: a meaning of `vga_printf`'s directives that does not depend on the
   instance, to prove that each takes its own arguments.
