# TLA+ models of mini-os32

mini-os32 is a 32-bit x86 operating system with its own C compiler: a kernel
(`kernel/`), a shell and a tool chain in user space (`user/`), a C library that
the in-OS compiler builds (`fs/lib/`) and host tools (`tools/`).  This directory
models two kinds of parts.  The first depend on the order of events: the file
system under several handles, programs, crashes and power cuts, the NVMe queue pair, the
threads, the life of a program and the keyboard.  The second translate: the
preprocessor, compiler, linker and assembler, whose output is loaded, run or read back
and compared with what the source means; with them goes the allocator that programs
link.  TLC checks small instances, TLAPS proves the main invariants for all of them.

Paths below are relative to `src/`.  `PROJECT.json` lists every run, the source
lines each definition stands for, the hazards and the theorems.

## 1. Inventory

| Part | State it keeps | Operations | What makes it correct |
|---|---|---|---|
| Flat file system (`kernel/kernel.c` 1624-1718, 2539-2568) | `dir[512]`, the sectors of the RAM disk | `SYS_SAVE`, `SYS_LOAD`, `SYS_RENAME`, `SYS_DELETE`, `SYS_LIST` | no two files share a sector; names are unique; a name leads to what was last stored under it; data stays out of the directory |
| Open file table (1720-1757, 2754-2884) | `ofiles[8]`, each with a one-sector write-back cache | `SYS_OPEN`, `SYS_FREAD`, `SYS_FWRITE`, `SYS_SEEK`, `SYS_CLOSE` | reads deliver the file, writes reach it, a remembered entry number is never used for another file |
| Block layer and store (1462-1622) | RAM disk, `store_ready`, bounds of the partition | `disk_read_sectors`, `disk_write_sectors`, `store_init`, `SYS_SYNC` | nothing outside one partition is written; RAM disk and store agree; after a crash every call that returned is found |
| NVMe driver (`kernel/nvme.c`) | submission and completion ring, `io_cq_head`, `io_phase`, `next_cid`, bounce buffer | `nvme_init`, `nvme_read`, `nvme_write` | a completion belongs to the command it is taken for; a successful transfer moved its data |
| Threads (2135-2262) | `threads[8]`, `thread_count`, `current_tid` | `SYS_TCREATE`, `SYS_TEXIT`, `SYS_SLEEP`, `SYS_SLEEPF`, timer interrupt | the table is consistent; every runnable thread runs |
| Program lifecycle (2891-2973, 3080-3094; `kernel/syscall.S`) | `next_prog_set`, `exit_requested`, `kill_program`, `sched_esp/eip` | `exec_user`, `after_user`, `SYS_EXEC`, `SYS_EXIT`, faults, Ctrl+C | Ctrl+C and faults end the program they hit and no other |
| Keyboard (1295-1396) | 64-entry ring, shift, ctrl, `0xE0` prefix, held keys | IRQ1, `SYS_GETKEY`, `SYS_GETKEY_NB`, `SYS_KEYDOWN`, `SYS_READLINE` | no key doubled or reordered, keys lost only when the ring is full |
| Text console (630-800) | cells, 512-line history ring, view offset | `vga_putc`, scroll, `console_view` | the view shows a window of what was written |
| Memory (entry.S, paging, `SYS_SBRK`, MMIO and DMA windows) | `user_brk_off`, `user_mmio_used`, `user_dma_used` | `SYS_SBRK`, `SYS_MAPPHYS`, `SYS_DMA_ALLOC` | ranges handed out are disjoint and inside their region |
| Timers (2030-2130) | `timer_ticks`, `timer_alive`, `tsc_khz` | PIT, LAPIC or TSC | every wait ends |
| ATA, ACPI, PCI, ports | hardware registers | one access per call | (pure I/O) |
| Shell and editor (`user/sh.c`) | current directory, line buffer, edit buffer | commands | path folding; the editor's buffer |
| System call library (`user/libc.c`) | - | `path_resolve`, `path_fs`, `path_dir`, `path_base`, one wrapper per call | a typed name leads to the file it names, or is refused |
| C library (`fs/lib/`) | free list, `FILE` buffers | `malloc`, `calloc`, `realloc`, `free`, `fread`, `fwrite`, `path_*` | blocks are disjoint and keep what they hold; buffered and direct I/O agree |
| Preprocessor (`user/cc.c` 389-420, 3853-4426) | macro table, stack of conditions, stack of files, line map | one step per line and per directive | the lines and expansions C selects; the line map names each line's origin |
| Compiler (`user/cc.c` 600-3805) | types, structs, typedefs, enums, locals, globals, functions, labels, break stack, code and data | `parse_*`, `gen_*` in one pass | the code does what the program says, keeps its frame, and no non-program is compiled |
| Linker (`user/cc.c` 4509-4849) | objects, link symbols, output sections | compile each source, link, write the file | every use of a name leads to its one definition |
| Assembler (`user/as.c`) | symbols, three sections, pass number | two passes and an emit pass | the file decodes to the source; no file for a wrong source |
| Boot loaders, host tools | - | straight-line set-up, image builders | not modelled |

### How they interact

One program runs at a time.  It enters the kernel through `int 0x80`, an interrupt
gate: the call runs with interrupts off unless it waits, so file system calls are
atomic and only whole calls interleave (of the program's threads, and of one
program after the next, which inherits `ofiles[]`).  Calls that wait
(`SYS_SLEEP`, `SYS_SLEEPF`, `SYS_GETKEY`) re-enable interrupts and let the timer
and the keyboard in; the timer switches threads only when it interrupted user
code.  `syscall_entry` looks at `exit_requested` on the way out and leaves through
`after_user` to the loop of `kmain`.  The file system writes its sectors to the
RAM disk and through it to the NVMe store, whose driver polls.

`cc` preprocesses and compiles each source into an object in memory, links the objects
with `/lib/stdio.c` and a start stub and writes one ELF file; `as` writes the same kind
of file; `exec_user` loads it and sets the break that `SYS_SBRK` moves for `malloc`.

### What is hard here

Extents placed by sizes that a handle has not published yet; entry numbers and
extents remembered by handles across deletes, renames and program ends; the
write-back cache across seeks and sector boundaries; the phase bit of the
completion ring across wraps, timeouts and late completions; Ctrl+C at any moment
of one program's end and the next one's load; a redirected thread that is switched
out before it reaches the trampoline; a wake-up tick of 0, which means "awake", in
a counter that wraps; a crash between two sectors of one call, and a drive that holds
sectors in a volatile cache; the polling keyboard reader against IRQ1.  In the
tools: operands that travel over the run-time stack through branches and calls; scopes,
labels and initialisers in a single pass; skipped groups inside skipped groups; lengths
that depend on addresses that depend on lengths; relocations over several objects.
`PROJECT.json` lists each one at its line.

## 2. Modules

| Module | Models | Kind |
|---|---|---|
| `FlatFS` | directory, data sectors, open file table, one action per call | specification |
| `FlatFSClients` | the same under programs that keep the rules the calls need, and end at any moment | composition, refinement |
| `FileMap` | a map from names to contents and at most one writer | abstract specification |
| `DurableMap` | the same map across crashes, boots and write errors | abstract specification |
| `MCFlatFS`, `MCFlatFSClients` | small sets of names, buffers and offsets | instances for TLC |
| `FlatFSProofs` | theorems about `FlatFS` | proofs |
| `FlatFSClientProofs` | theorems about `FlatFSClients`, on top of `FlatFSProofs` | proofs |
| `FlatFSStore` | `FlatFSClients` on the persistent store: write-through sector by sector, write errors, `SYS_SYNC`, crash and boot | composition, refinement |
| `MCFlatFSStore` | two names, contents of one and two sectors | instance for TLC |
| `DriveCache` | `FlatFSStore` on a drive that may have a volatile write cache, and power cuts | composition |
| `MCDriveCache` | as `MCFlatFSStore` | instance for TLC |
| `FlatFSStoreProofs` | theorems about `FlatFSStore` and `DriveCache`, on top of `FlatFSClientProofs` | proofs |
| `NvmeQueue` | driver and controller around the I/O queue pair | specification |
| `MCNvme` | `NvmeQueue` with a controller that answers in time and one that may be late or dead | instance for TLC |
| `NvmeQueueProofs` | theorems about `NvmeQueue` and `MCNvme` | proofs |
| `Scheduler` | threads, waiting calls, timer, keyboard interrupt, faults, program lifecycle | specification |
| `SchedulerProofs` | theorems about `Scheduler` | proofs |
| `Keyboard` | i8042 buffer, IRQ1, decoding, the ring, the two readers | specification |
| `KeyboardProofs` | theorems about `Keyboard` | proofs |
| `CCPreproc` | the preprocessor of `cc.c` | specification |
| `PPReference`, `MCPreproc` | what C says its output is; the source files | reference, instance |
| `CCFront` | types, symbol tables, expressions, declarators and constant folding of `cc.c` | operators |
| `CCGen` | its code for expressions, conditions and calls | operators |
| `CCProgram` | its declarations, initialisers, statements, functions and globals: `compile(tokens)` | operators |
| `CCMachine` | the processor on which the emitted code runs | external |
| `CReference`, `MCCompiler` | what a C program means; the source programs | reference and specification, instance |
| `Linker`, `MCLinker` | driver and linker of `cc.c`; the programs of several files | specification, instance |
| `Assembler` | symbols, directives, encoding and passes of `as.c` | operators |
| `X86Reference`, `MCAssembler` | an x86 decoder that reads the loaded file back; the sources | reference and specification, instance |
| `ElfImage`, `Paths` | the file that `cc` and `as` write and `exec_user` loads; the path functions of `libc.c` | operators |
| `Heap` | `malloc`, `calloc`, `realloc`, `free` and `SYS_SBRK` | specification |
| `HeapProofs` | theorems about `Heap` | proofs |
| `ArithmeticLemmas` | minimum, maximum and division, for the proofs | lemmas |
| `MCToolchain` | one run of one of the four tools or of the allocator | composition for TLC |

**FlatFS.** `dir`, `disk` and `ofiles` are the kernel's arrays; each call is one
action, because it runs with interrupts off.  A name is its first 15 characters, its
16th and the rest, since that is what `normalize_name`, `name_eq_ci` and `SYS_OPEN`
tell apart, and its case.  Sectors have `SectorSize` bytes; the loops of
`SYS_FREAD` and `SYS_FWRITE` over sectors are definitions by position.

**FlatFSClients.** Three rules that programs must keep, with the reason in the code
for each, are guards here; everything else is `FlatFS`.  `held` are the handles of
the running program, and `ProgramEnds` forgets them without closing them, as the
kernel does.  The refinement maps the directory and its extents to `FileMap!files`
and the one open write handle, its cached sector included, to `FileMap!writer`.

**FlatFSStore.** A call changes the RAM disk in one step; then each sector it wrote
reaches the drive in a step of its own, in any order within a transfer, and the
directory after the data.  `Restart` is a crash or reset that the drive survives with
power: what it has accepted stays.  It may come at any of these moments.  `before` is
the store at the start of the call.  The refinement maps the RAM disk to
`DurableMap!files` as in `FlatFSClients`, the store at the start of the call to
`DurableMap!old`, and an outstanding write error to `DurableMap!behind`.  A sector that
reaches the drive is then invisible, the last one of a call is `Return`, and `Restart`
must be a `Crash`, which may choose between the two maps, or damage one file that the
two both have and that differs between them, in its old length.  A file written through
a handle is empty in both maps until `SYS_CLOSE`, so a crash before that finds it empty.

**DriveCache.** Adds what has reached the medium.  The drive either has no volatile
cache, and then accepting a sector is committing it, or it commits accepted sectors in
any order, whenever it pleases: `kernel/nvme.c` never sends a Flush and never asks which
kind of drive it has.  `PowerCut` goes back to the medium.

**NvmeQueue.** `submit` is cut at its doorbell and at each poll.  The controller is
external: it fetches in order and completes in any order, with success or error.
`TimeoutsHappen` says whether the spin limit is ever reached.

**Scheduler.** `stage` is where `kmain` and `exec_user` are; `at` is each thread's
user position as far as it matters (own code or the trampoline) and `kern` the
waiting call the current thread is in.  Ticks are counted modulo `TickMod`.

**Keyboard.** `port` and `irq` are the controller's output buffer and the latched
interrupt.  `kbd_getkey` is cut wherever an interrupt can come between: at the two
halves of `kbd_pop`, before `kbd_drain_port` and before `hlt`; `iflag` says whether
one can.  `typed` and `due` are the keys as meant by the person typing.

**The compiler.** `cc.c` reads tokens, parses and emits in one pass over file-scope
variables; here these are the fields of one record that every operator takes and
returns, and the C function of the same name is the operator of the same name.
Recursion goes through one operator per module (`Parse`, `Gen`, `Do`).  Bytes have
`BYTE_BITS` bits, so an int is small while all sizes in bytes are those of the code.
Code is a sequence of abstract instructions, one for each x86 instruction or fixed
group that `cc.c` emits; `CCMachine` runs it with registers, flags, a byte memory and
the x87 stack.  `CReference` gives the meaning of source trees independently, as an
evaluator over objects made of cells, and `Unparse` writes the tree with no more
parentheses than C needs, so that precedence is the parser's business.  A behaviour
compiles one program and runs it to its end.

**The preprocessor.** A line is a sequence of names, numbers and single characters,
because `cc.c` compares characters: `&&` is two of them.  Each step handles one line,
enters a file or leaves one.  `PPReference` finds the selected lines by the structure
of the whole file, and expands macros by C's rule.

**The linker.** A unit is what the compiler's tables hold at its end.  Cells of the
sections carry marks (definition, use, string), so that the loaded program can be
asked, for every use, where its relocated field leads.

**The assembler.** Lines are split into operands and expressions; everything after
that, to the last byte, is the code's.  `X86Reference` decodes the loaded bytes from
the processor's opcode map, derives from the lengths where every label must be, and
compares each decoded line with the written one.

**Heap.** A block is the address of its header.  The size fields and list links lie in
the headers, which a program that stays within its blocks never writes, so they are
variables of their own; `memory` is what programs fill.  `Fill` is the program.

Definitions whose comment begins with "Mutant" are wrong versions of the one that
follows; no specification uses them.  Each property is known to fail when the
definition `PROJECT.json` names is replaced by its mutant.

## 3. Runs

| Run | Shows | Bounds |
|---|---|---|
| `fs_any_program` | whatever a program calls, in whatever order: names stay unique, unwritten bytes stay at the handle's position, no extent enters the directory | 2 entries, 1 handle, 2 sectors of 2 bytes, one name in both cases, a write of 1 and one of 3 bytes, seeks to -1 and 1 |
| `fs_is_a_map` | under the rules no two files share a sector, the writer owns the tail, read handles deliver their file, and the whole implements `FileMap` | 2 entries, 1 handle, 2 sectors of 2 bytes |
| `fs_store` | on a drive that keeps what it accepted, the store follows the RAM disk; a boot after a crash finds disjoint extents; at most the one file being replaced is torn; the whole implements `DurableMap` | 2 entries, 1 handle, 3 sectors, contents of 1 and 2 sectors, 1 write error at a time |
| `fs_overlap` | violation: a second file placed while a write handle is open shares its sectors | 2 handles |
| `power_cut_loses` | violation: a power cut loses what a call that returned had saved, because the drive held it in its volatile cache | as `fs_store`, no write error |
| `nvme` | a controller that answers in time: every completion is the submitted command's, success means the data moved, failure does not count the failed chunk; one that may be late or dead: every transfer returns and the phase bit stays right | ring of 3, 2 blocks, transfers of 1 and 2, identifiers modulo 2; the late controller gets reads of one block |
| `nvme_late` | violation: after a timeout the late completion is taken for the next command's | as `nvme`, identifiers modulo 4 |
| `threads` | the thread table is consistent, no Ctrl+C or fault ends a later program, every runnable thread runs, and a redirected thread ends its program, unless waiting calls hold the CPU again and again | 2 threads, ticks modulo 6, sleeps of 1 and 2, all waiting calls |
| `ctrl_c_ignored` | violation: Ctrl+C does not end a program that waits in `sys_getkey` | 1 thread |
| `keyboard` | keys arrive once, in order, with their modifiers; held keys are known; a waiting program gets its key | a ring of 3 (two keys), a letter and a prefixed key with the same code, shift, control, 2 held at a time |
| `toolchain` | the four tools and the allocator, below | below |
| `cc_float_truth` | violation: a float used as a condition counts as true whatever its value | two values, four kinds of condition |

The run `toolchain` starts from each of these sources and follows it to its end:

- *compiler*: every binary operator between every two of int, unsigned, char, short and
  float with values on both sides of zero; every pair of operators in both groupings;
  loops, switches, gotos and scopes; short circuits nested in conditionals; pointers,
  arrays, records, calls, varargs, function pointers, initialisers; typedefs, enums,
  unions and declarators as tokens; fourteen programs that are none.  The result, the
  output and the calls made are C's (`CompilerMeansC`), the stack pointer is level between
  statements (`CompilerKeepsFrame`; the x87 stack is not, see below), and of these sources
  exactly the non-programs are refused (`CompilerRefuses`);
- *assembler*: every instruction with every kind of operand, between labels whose
  addresses depend on its length; a program with three interleaved sections, forward
  `.equ`, alignment and the location counter; one source for each mistake that `as.c` looks for,
  a full symbol table included (it does not look for all, see below);
- *linker*: two files and the library, with 4 x 4 sets of definitions in every section,
  6 combinations of uses, strings pointed to from text and data, found by relative and
  absolute names, in `/lib` and below it; missing files, a name too long, more files than
  `MAX_OBJ`, a file too large for the output, an output without a name, a full disk;
- *preprocessor*: every pair of operators of `#if` but `&&`; all balanced nestings of
  up to seven directives with redefinitions between; macros inside macros and arguments and
  beside string and character literals;
  includes from four places, nested, guarded, too deep and missing; outputs that outgrow
  the line map and the buffer;
- *allocator*: any sequence of calls with requests of 0, 3 and 5 bytes below a guard at
  38, which holds at most three blocks: splitting never happens in the code, so three
  show reuse, first fit past a block that is too small, moves and exhaustion.

*Why the bounds are enough.*  Two entries and two sectors make every placement happen:
in place, after the last file, past the end.  With one handle a reader and a writer of
one program do not overlap; for the extents the theorem of section 4 covers any number.
Two-byte sectors give partial, exact and crossing transfers.  In the store run sectors
have one byte, so that a file has several and the crash falls between them; with three of
them a file that grows moves, and one of two sectors is replaced in place and may come
back damaged.  Rings of 3
wrap many times and can be full, and a completion may stay unreaped over the wrap.
Ticks modulo 6 wrap many times, so the tick 0, which as a wake-up time means
"awake", is met; sleeps stay below half the range, as the signed difference in the code
needs.  Bytes of 2 bits make ints of 8: every width, sign and wrap occurs, and products
of two program values overflow.  The tables of the assembler, the linker and the preprocessor are
sized so that some sources reach their ends and most do not.  `MaxSize` and `MaxLba` end
the growth of handles and of extents past the RAM disk, `MaxFailures` the errors between
two `SYS_SYNC`, `WireMax` and `MaxHeld` what the keyboard does at a time.  `fs_store`
exchanges the two names by symmetry: nothing orders names, and the run checks invariants
and single steps only.

*Fairness.*  `NvmeQueue`: `submit` is a loop that nothing interrupts and that counts
to its limit; nothing is assumed of the controller.  `Scheduler`: the timer ticks, and
the kernel's own steps are taken; the trampoline is three instructions against a tick
of 10 ms, so a thread that gets the CPU there again and again runs it (strong
fairness).  `Keyboard`: the keyboard sends what it has, an enabled interrupt is taken,
the timer ticks (on a machine whose timer is dead the wait can indeed last until the
next key), the kernel runs.  The tools and
the allocator need none: their properties are invariants, and each run of a tool ends.
Nothing is ever assumed of programs or people.
`sys_sleep` and `sys_getkey` hold the CPU against the other threads, so the progress
properties of the scheduler excuse a CPU that is held again and again (`HoldsCpu`).

### Findings

1. `SYS_OPEN` for writing and `SYS_SAVE` place a file after the largest end in the
   directory, where a file still being written has size 0 (`kernel/kernel.c:2785`).
2. `submit` never compares the command identifier (`kernel/nvme.c:142`).
3. `SYS_GETKEY` repeats `kbd_getkey` when that returns 0 for Ctrl+C
   (`kernel.c:2571`).
4. After a floating comparison the compiler moves the stack pointer with `add`, which
   overwrites the flags before they are read (`user/cc.c:2114`): `if (f)`, `!f`, `f && g`
   and conversions to bool take every float for true.
5. No NVMe Flush follows a write (`kernel/kernel.c:1518`), so on a drive with a volatile
   write cache a power cut may lose sectors of calls that returned.  The comment at
   `kernel/kernel.c:1465` says that it loses at most the sector in flight; `README.md:320`
   says what the code does.

Noticed while modelling, without a run of their own:

- `SYS_OPEN` stores 15 characters of a name (`kernel.c:2787`), so a longer name opened
  for writing is not found again (`README.md:35` says 47 characters);
- names are compared at 16 characters (`kernel.c:312`), the `README.md` says 47;
- a save past the end of the RAM disk is dropped and returns 0 (`kernel.c:1538`;
  `doc/reference.html:326` says 0 is success);
- `ofile_load_sector` compares an absolute sector number with a count of sectors
  (`kernel.c:1748`), so after a seek back on a write handle the next write zero-fills
  the rest of the sector;
- a thread that loops over `sys_sleep` starves the others (`kernel.c:2611`;
  `README.md:37` says round-robin), and `sys_sleepf` returns to its caller at once
  when another thread is runnable (`kernel.c:2630`);
- `sys_exec` from a program other than the shell starts the shell first and the asked
  program after it (`kernel.c:3085`; `doc/reference.html:370`);
- handles of ended programs are never freed: after eight of them `SYS_OPEN` fails
  until the next boot;
- `sys_ticks` counts 10 ms units (`fs/doc/gfx.txt:112` says milliseconds);
- `SYS_OPEN` for writing empties the file on the store at once, so that a crash before
  `SYS_CLOSE` has lost the old contents;
- `doc/reference.html:382` says of `sys_sleep` "Give up the CPU", which it holds;
- the keypad's part of `keymap` begins at 0x4F instead of 0x47 (`kernel.c:1276`), so
  the keypad types nothing or the wrong digits;
- one flag stands for both shift keys (`kernel.c:1322`);
- `SYS_SBRK` lets the heap grow over the trampoline page, which lies just below the
  guard; `exec_user` does not bound `p_memsz`, and a program loaded past the guard would
  make the difference in `SYS_SBRK` wrap (the model starts below it, `HeapAssumption`);
- `malloc` of more than `INT_MAX - 3` rounds to a negative size and returns any free
  block; `malloc` and `free` take no lock although a program may have threads;
- preprocessor: `#if A && B` is always false, because `pp_parse_bitand` takes the first
  `&`; `||` works as a bitwise or; a macro in `#if` counts as the first number of its
  body, or 1; a macro that names itself is expanded eight deep; `F (x)` with a blank is
  not a call; parentheses and commas in strings split arguments, and parameters are
  replaced inside strings of the body; an empty file counts as missing; macros beyond
  256 are dropped in silence;
- compiler: a stored value is not truncated where the assignment is itself a value, nor
  is a narrow return value; `short` is not promoted; `>>` is logical when its right
  operand is unsigned; an unsigned above `INT_MAX` becomes a negative float;
  `sizeof(*a)` of an array and the empty statement are rejected; locals declared
  directly in a switch body, typedefs and externs are not block scoped; `op=`, `++` and
  `--` evaluate their operand's address twice (documented); several tables
  (`break_stack`, `cond_active`, fixups) are not checked for overflow; the truth of a
  float and its conversion to bool leave a value on the x87 stack (`cc.c:2110`, 2640, 2861,
  3213), which is full after eight of them; a function may be defined twice (`cc.c:3563`);
  the name of a static local ends in one digit of its number and is then cut to 31
  characters (`cc.c:3099`, `cc.c:1178`), so that two of them may be refused as `dup sym`, where the model
  gives each a name of its own;
- linker: `link ovf` (`cc.c:4663`) cannot happen, because the output sections have room for
  `MAX_OBJ` full ones;
- assembler: 16-bit operands get no operand-size prefix, so no source of the run has one;
  chains of forward `.equ` may stay stale; `xchg` on byte registers and `imulb` encode the
  32-bit form; `.align` of a symbol that is defined later pads nothing in the first pass
  and pads in the second (`as.c:790`), so labels after it move, although `as.c:12` says the
  passes cannot disagree; `jne %eax` (`as.c:680`), `push %al` (580), `mov %al,%ebx` (508)
  and `ret $4` (709) are accepted and encoded as something else, and `.equ` may redefine a
  label (802).

The sources of `toolchain` stay inside what these leave working; the reference is C's in
every case they contain.

## 4. Proofs

TLAPS checks all of these, for every value of the constants that the named
assumptions allow: positive sizes; buffers of bytes and positive lengths; names of the
parts described above; queues and key rings of at least two entries; an even tick range
and naps below half of it, as the signed comparison of ticks needs; names of modifiers
and of the prefix that are not names of keys; an image that ends at or below the guard
and requests far below 2^32.  `ShortNames` (no name has a 16th character) is a
hypothesis of the theorems that say so.

| Theorem | States | Rests on |
|---|---|---|
| `FlatFSProofs!TypeCorrect` | `Spec => []TypeOK` | `TypeOK` is inductive |
| `FlatFSProofs!DirectoryIsSafe` | `Spec => []DataPastDirectory` | with `TypeOK`; `fs_next_free` never returns less than `DataLba` |
| `FlatFSProofs!NamesStayUnique` | `ShortNames => (Spec => []UniqueNames)` | a name is added only where `fs_find` found none |
| `FlatFSProofs!DirtyCacheStaysAtPosition` | `Spec => []DirtyCacheAtPosition` | inductive with `TypeOK`; `PartialSector` |
| `FlatFSClientProofs!ExtentsStayDisjoint` | `CSpec => []ExtentsDisjoint` | `ExtentInv` |
| `FlatFSClientProofs!WriterKeepsTheTail` | `CSpec => []WriterOwnsTheTail` | `ExtentInv` |
| `FlatFSClientProofs!ReadersKeepTheFile` | `CSpec => []ReadersSeeTheFile` | `ReaderInv` |
| `FlatFSClientProofs!ClientTypeCorrect` | `CSpec => []CTypeOK` | `ReaderInv` |
| `FlatFSClientProofs!ClientImplementsFileMap` | `ShortNames => (CSpec => ImplementsFileMap)` | `RefInv` |
| `FlatFSStoreProofs!StoreStaysInStep` | `SSpec => []StoreInStep` | `StoreInv` |
| `FlatFSStoreProofs!RestartIsSafe` | `SSpec => [](StoreExtentsDisjoint /\ ExtentsDisjoint)` | `StoreInv` |
| `FlatFSStoreProofs!CrashIsContained` | `ShortNames => (SSpec => []CrashTearsOnlyAReplacedFile)` | `TornInv` |
| `FlatFSStoreProofs!StoreImplementsDurableMap` | `ShortNames => (SSpec => ImplementsDurableMap)` | `DurableInv` |
| `FlatFSStoreProofs!CommittedCutsAreCrashes` | `ShortNames => (PSpec /\ [][NothingCached]_pvars => ImplementsDurableMap)` | `CommittedStep` |
| `FlatFSStoreProofs!UncachedDriveIsDurable` | `ShortNames => (PSpec /\ ~cached => ImplementsDurableMap /\ []CrashTearsOnlyAReplacedFile)` | `OnMediumStep` |
| `FlatFSStoreProofs!StoreTypeCorrect` | `SSpec => []STypeOK` | `STypeInv` |
| `NvmeQueueProofs!TypeCorrect` | `Spec => []TypeOK` | `TypeInv` |
| `NvmeQueueProofs!PhaseBitCorrect` | `Spec => []PhaseTellsFresh` | `RingInv` |
| `NvmeQueueProofs!TransfersInTime` | without timeouts `CompletionIsOurs`, `ReturnedDataIsOnMedia` and `FailedWriteKeepsPrefix` | `InTimeInv` |
| `NvmeQueueProofs!OwnCompletionTaken`, `SuccessMeansTransferred`, `FailureKeepsPrefix` | the same for `MCSpec`, as the run states them | `InTimeInv` while the controller answers |
| `SchedulerProofs!TypeCorrect` | `Spec => []TypeOK` | `SchedInv` |
| `SchedulerProofs!TableStaysConsistent` | `Spec => []ThreadTableConsistent` | `SchedInv` |
| `SchedulerProofs!NoKillIsStray` | `Spec => []NoStrayKill` | `SchedInv` |
| `KeyboardProofs!TypeCorrect` | `Spec => []TypeOK` | `KeyboardInv` |
| `KeyboardProofs!RingKeepsTyped` | `Spec => []RingHoldsTyped` | `KeyboardInv` |
| `KeyboardProofs!KeyStateIsTrue` | `Spec => []KeyStateTracksKeys` | `KeyboardInv` |
| `HeapProofs!HeapBlocksApart` | `HeapSpec => []BlocksApart` | `HInv` |
| `HeapProofs!HeapContentsKept` | `HeapSpec => []ContentsKept` | `HInv` |

`DirtyCacheAtPosition` is inductive as it stands: `SYS_FWRITE` leaves a dirty sector
only when the position it ends at is inside that sector (`PartialSector`), and every
other call drops or keeps the cache together with the position.

`ExtentsDisjoint` alone is not inductive: `SYS_CLOSE` publishes an extent that grew
while nothing in the directory showed it.  `ExtentInv` therefore adds that the handles
a program holds are open, that at most one of them writes, and that no other file lies
at or past the start of that one; with these, a close cannot overlap, and nothing is
placed while the handle is open.  Handles left behind by ended programs need no
condition, because nobody knows their numbers.

`ReaderInv` is what a read handle needs on top: files lie on the RAM disk as a whole
(a file past its end reads back as zeroes, in units that differ between `SYS_LOAD` and
`SYS_FREAD`); a fresh handle agrees with its entry in start and size; its cached sector
lies in the file's extent and equals the disk.  Every call that writes sectors writes
them outside the extents of other files (`SaveElsewhere`, `FlushElsewhere`,
`FWriteElsewhere`), so the last part survives; that is where disjoint extents, the tail
that the writer owns and the place of the dirty sector are used.

`RefInv` carries the refinement of `FileMap`.  It joins `ReaderInv` and `UniqueNames`
with two facts.  A write handle stands at the end of its file, and its cache holds the
last sector, dirty, exactly while that sector is partial (`WritersAtEnd`): so a write
appends (`FWriteExtends`), and what `SYS_CLOSE` publishes is what was written
(`PublishedContent`).  And no entry's name has a 16th character, so that the entry of a
deleted file has the key `FileMap` calls `Orphan`, and the name `SYS_OPEN` stores is the
one it was given.  The initial state maps to the empty map (`InitIsEmptyMap`); then there
is one lemma for each kind of step: `SaveIsPut`, `RenameIsMove`, `DeleteIsRemove`,
`OpenWriteIsBegin`, `FWriteIsExtend`, `CloseIsPublish`, `EndIsAbandon`, and
`ReadStepIsInvisible` for the calls that change neither view.  Each splits into what
happens to one entry (`SavedContent`, `PublishedContent`, `EmptyContent`), that every
other entry keeps its content, and a lemma that turns this into an equation between
functions (`ViewBound`, `ViewUnbound`, `ViewMoved` or `ViewKept`); `WriterViewKept` and
`WriterViewRekeyed` do the same for the writer.

`StoreInv` adds that every sector not pending has reached the store, and that store and
RAM disk differ in one entry at most.  The second part is what makes a torn directory
harmless: a mixture of two directories that differ in one entry is one of the two.

`TornInv` describes the middle of a call: every sector and every entry on the store is
the one from before the call or the one after it, the directory follows only when the
data is there, and the call changes one entry and no sector of another file; if it
changes sectors of the entry's own old extent, the entry keeps its name.  The last part
fails when a name equal to another in 16 characters but different after them is saved,
because the entry then takes the new spelling: hence `ShortNames`.

`DurableInv` carries the refinement of `DurableMap`: `RefInv`, `TornInv`, and
`GoodBefore` about the store at the start of the call.  Its directory must be as good as
the one in use (unique short names, every file on the disk and past the directory),
because a crash may bring it back and `RefInv` has to hold of it after the boot
(`RestartKeepsRef`): by `StoreDirIsOne` the boot finds one of the two.  And a file that
keeps its size keeps its place (`CallKeepsStart`), because `SYS_SAVE` then rewrites it in
place.  That last part is what excludes a damaged file whose old and new contents are the
same: each of its bytes on the store is the old or the new one, at the same position
(`MixedContent`).  Then `CallOperates` reuses the refinement of `FileMap`, `QuietMaps`
covers the sectors on their way, `SYS_SYNC` and write errors, and `RestartIsCrash`
rests on `CutLeaves`: if the directory on the store is the new one its data is there too;
if it is the old one, all contents are old but those of the entry being replaced
(`CutDamages`).

These theorems are about a drive that keeps what it accepted.  For power cuts they are
carried over to `DriveCache`: a `PowerCut` with nothing left in the cache is a `Restart`
(`CommittedCutIsRestart`) and the drive's own commits are invisible, so whoever cuts the
power only at such moments gets the same durable map (`CommittedCutsAreCrashes`), and a
drive without a cache is always at such a moment (`UncachedDriveIsDurable`).  Without either
condition the promise is false, as `power_cut_loses` shows.

`RingInv` says which entries of the completion ring carry which phase, relative to the
controller's tail: the flip at the wrap is only right if the whole ring is.  `TypeInv`
adds where a transfer stands, so that a chunk never leaves it.  `submit` compares no
identifiers, so that a completion is its own rests on there being no other: `InTimeInv`
says that at most one command is outstanding, and where it is (queued, fetched or
answered), with the driver's and the controller's indexes for each case, and that the
chunks before the current one have moved.

`SchedInv` adds to the table's consistency what the flags mean between programs:
`exit_requested` always has a cause since the last load or during it, while
`kill_program` and the trampoline have one only once `exec_user` has cleared what the
last program left.

`KeyboardInv` treats the bytes on their way as a debt.  Decoding them, from the
decoder's state of now, must end in the state that the keys held imply, and must yield
exactly the keys typed and not yet decoded (`Leads`, whose witnesses are the states and
the number of keys before each byte).  The keyboard adds a byte at the end of the debt
(`LeadsAppend`), whoever reads the port pays at its front (`LeadsTail`), and with no byte
on its way nothing is owed (`LeadsNowhere`), which is the key state's correctness.  The
ring's part (`PushHolds`, `TakeHolds`) is arithmetic modulo its size.  That an arrow's
code is never taken for a letter is in the debt too: after a prefix only an arrow fits.

`HInv` joins the two properties of the allocator with the shape of its state, because
neither stands alone: contents survive a write because blocks are apart, and a block
that `malloc` takes from the list is apart from the others because no block was ever
free and held, or free twice.  `MallocFinds` states what the search returns; `malloc`,
`calloc` and a moving `realloc` are three uses of one lemma about a step that writes only
to such a block (`InstallLemma`), a resize in place and the program's own writes are two
uses of another (`RewriteLemma`).

`ArithmeticLemmas` holds minimum and maximum of the sets that the kernel's loops run
over, from a well-foundedness theorem of the library, and that quotient and remainder
are unique, which places a byte in its sector and a key in its slot.

Only model-checked: everything under fairness (`DeadControllerIsLeft`,
`RunnableThreadRuns`, `TrampolineEndsProgram`, `KeyReachesReader`), which this prover
does not reach; and the properties of the four tools, whose definitions are recursive
operators.

## 5. Not modelled

Boot loaders, ACPI tables, PCI and port access, the ATA path and timer calibration are
straight-line set-up or single hardware accesses.  Page tables are data for the
hardware.  `FlatFSStore` leaves out the search of the partition table and the boot on
which `store_init` fails, after which nothing is written to the store, or whose read
fails midway and leaves half of each image; a restart with a write error outstanding is
not followed.
`Keyboard` has one shift and one control key and a keyboard that sends no shift codes of
its own; a keyboard that overruns its own buffer is not modelled.

Of the tools: scanning of characters into tokens and lines, the wording of diagnostics,
warnings and debug output, and the sizes of the compiler's own tables are left out; the
compiler's instructions are checked as instructions, not as bytes.
`tools/cc_host_src.c` is a shorter version of the compiler that no build file uses.  The
text console, the shell's commands and editor, stdio's formatting and the graphics
library have one actor and long, plain loops over text.  Host tools build images and
drive tests.

## 6. Plan

Done, in this order: file system, clients and refinement; NVMe queue; scheduler and
program lifecycle; store; keyboard; compiler; assembler; linker; preprocessor; allocator;
the drive's cache; the theorems of section 4.

Next, modelling: `FlatFSStore` over `NvmeQueue`, so that a late completion and a crash
meet; boots on which `store_init` fails; a `.align` of a forward symbol and the x87 stack as runs of
their own; buffered streams of `fs/lib/stdio.c` against `FileMap`; the console's history ring with `readline` echoing while Shift+PgUp arrives in
IRQ1; the allocator under two threads.

Next, proofs: whatever safety the next models add.
