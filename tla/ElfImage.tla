------------------------------ MODULE ElfImage ------------------------------
(***************************************************************************)
(* The executable file the compiler and the assembler write, and the       *)
(* kernel's loader that reads it.  A file is its header fields and its     *)
(* cells, one per byte; the HEADER cells of the header come first because  *)
(* the one segment starts at file offset 0.                                *)
(***************************************************************************)
EXTENDS Integers, Sequences, SequencesExt

CONSTANTS
    HEADER,        \* bytes of the ELF and program headers (84 in the code)
    FILE_BUF_MAX,  \* largest file the loader reads
    GUARD_OFF      \* USER_STACK_GUARD_OFF: where a program's memory ends

LINK_BASE == 0
Cells(n) == [i \in 1 .. n |-> 0]

\* Little-endian words; values stay below 2^24, so four bytes hold them.
Word32(v) == << v % 256, (v \div 256) % 256, (v \div 65536) % 256, (v \div 16777216) % 256 >>
OfBytes(b) == b[1] + 256 * b[2] + 65536 * b[3] + 16777216 * (IF b[4] >= 128 THEN b[4] - 256 ELSE b[4])

\* One PT_LOAD segment that covers the whole file, bss behind it.
ElfFile(entry, body, bss_len) ==
    [entry |-> entry, vaddr |-> LINK_BASE, filesz |-> HEADER + Len(body), memsz |-> HEADER + Len(body) + bss_len,
     cells |-> Cells(HEADER) \o body]

\* The user memory below the guard page and the break, as exec_user leaves
\* them: everything the previous program left is cleared first.
Loaded(file) ==
    LET rest == GUARD_OFF - file.vaddr - file.memsz
    IN [mem |-> Cells(file.vaddr) \o SubSeq(file.cells, 1, file.filesz) \o Cells(file.memsz - file.filesz) \o Cells(rest),
        brk |-> file.vaddr + file.memsz, entry |-> file.entry]

CanLoad(file) == Len(file.cells) <= FILE_BUF_MAX /\ file.vaddr + file.memsz <= GUARD_OFF

\* The cell at an address, the word at an address.
At(m, a) == IF a \in 0 .. Len(m) - 1 THEN m[a + 1] ELSE -1
WordAt(m, a) == OfBytes(<<At(m, a), At(m, a + 1), At(m, a + 2), At(m, a + 3)>>)
=============================================================================
