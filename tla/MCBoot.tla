------------------------------- MODULE MCBoot -------------------------------
(* Memory maps shorter than, as long as and longer than the kernel's array; *)
(* a kernel of two segments, one with zeroed memory behind it, and a note.  *)
EXTENDS Boot

Map(entries, byCarry) == [map |-> entries, byCarry |-> byCarry]
Maps ==
    {Map(<< >>, TRUE), Map(<<1>>, FALSE), Map(<<1>>, TRUE), Map(<<1, 2>>, FALSE),
     Map(<<1, 2, 3>>, TRUE)}

ElfHeader(type, offset, vaddr, filesz, memsz) ==
    [type |-> type, offset |-> offset, vaddr |-> vaddr, filesz |-> filesz, memsz |-> memsz]
KernelHeaders == << ElfHeader(1, 1, 0, 2, 2), ElfHeader(4, 0, 2, 1, 1), ElfHeader(1, 3, 2, 2, 3) >>

Tss       == W(49281, 16640)      \* 0xC0814100
Low       == 0..11
FiveWords == 0..4
=============================================================================
