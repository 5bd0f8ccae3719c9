---------------------------- MODULE MCToolchain -----------------------------
(***************************************************************************)
(* The four tools that turn a source into a program in memory, each on its *)
(* own family of inputs, and the allocator that the program links: a       *)
(* behaviour is one run of one of them, and the variables of the others    *)
(* keep an idle value (for the allocator, the state before its first call).*)
(***************************************************************************)
EXTENDS MCCompiler, Heap

CONSTANTS HEADER, FILE_BUF_MAX, GUARD_OFF, MAX_TEXT, MAX_DATA, MAX_SYM,
          MAX_OBJ, MAX_SECTION, FS_NAME_MAX,
          PP_MAX_DEPTH, MAX_MACRO, MAX_MACRO_PARAMS, EXPAND_DEPTH, PP_OUT_MAX, MAX_LM_LINES, MAX_LM_FILES

VARIABLES tool,
          asrc, ast, astep, arun,
          lsrc, todo, objs, lstep, lrun,
          psrc, files, ppst, pstep

Asm == INSTANCE MCAssembler
Lnk == INSTANCE MCLinker
Cpp == INSTANCE MCPreproc WITH pp <- ppst

compiler == mvars
assembler == << asrc, ast, astep, arun >>
linker == << lsrc, todo, objs, lstep, lrun >>
preprocessor == << psrc, files, ppst, pstep >>
allocator == hvars
allvars == << tool, compiler, assembler, linker, preprocessor, allocator >>

NoCompiler == src = "idle" /\ cc = "idle" /\ m = "idle"
NoAssembler == asrc = "idle" /\ ast = "idle" /\ astep = "idle" /\ arun = "idle"
NoLinker == lsrc = "idle" /\ todo = "idle" /\ objs = "idle" /\ lstep = "idle" /\ lrun = "idle"
NoPreprocessor == psrc = "idle" /\ files = "idle" /\ ppst = "idle" /\ pstep = "idle"

ToolInit ==
    /\ HeapInit
    /\ \/ tool = "compiler" /\ CompilerInit /\ NoAssembler /\ NoLinker /\ NoPreprocessor
       \/ tool = "assembler" /\ Asm!AsInit(Asm!Assembly) /\ NoCompiler /\ NoLinker /\ NoPreprocessor
       \/ tool = "linker" /\ Lnk!LinkInit(Lnk!LinkSources) /\ NoCompiler /\ NoAssembler /\ NoPreprocessor
       \/ tool = "preprocessor" /\ Cpp!PPInit(Cpp!PreprocSources) /\ NoCompiler /\ NoAssembler /\ NoLinker
       \/ tool = "allocator" /\ NoCompiler /\ NoAssembler /\ NoLinker /\ NoPreprocessor

ToolNext ==
    \/ tool = "compiler" /\ CCNext /\ UNCHANGED << tool, assembler, linker, preprocessor, allocator >>
    \/ tool = "assembler" /\ Asm!AsNext /\ UNCHANGED << tool, compiler, linker, preprocessor, allocator >>
    \/ tool = "linker" /\ Lnk!LinkNext /\ UNCHANGED << tool, compiler, assembler, preprocessor, allocator >>
    \/ tool = "preprocessor" /\ Cpp!PPNext /\ UNCHANGED << tool, compiler, assembler, linker, allocator >>
    \/ tool = "allocator" /\ HeapNext /\ UNCHANGED << tool, compiler, assembler, linker, preprocessor >>

ToolSpec == ToolInit /\ [][ToolNext]_allvars

---------------------------------------------------------------------------
\* The compiler (cc.c): running the generated code makes the calls, gives the
\* output and returns the exit code that the C program's meaning says.
CompilerMeansC == tool = "compiler" => CompiledMeansC

\* The compiler: between two statements the machine stack holds the frame and
\* nothing else, whatever jumps, calls and conditions came before.  (The
\* floating point stack is not level: see the README.)
CompilerKeepsFrame == tool = "compiler" => FrameBetweenStatements

\* The compiler: a source with one of fourteen kinds of mistake is refused,
\* and none of the programs is.
CompilerRefuses == tool = "compiler" => IllFormedRefused

\* The assembler (as.c): the processor reads back, from the loaded file, the
\* instructions, data and addresses that the source wrote.
AssemblerMeansSource == tool = "assembler" => Asm!AssembledMeansSource

\* The assembler: a source with a mistake of a kind that as.c looks for yields
\* no file, and every correct one does.
AssemblerRefuses == tool = "assembler" => Asm!IllFormedAssemblyRefused

\* The linker (cc.c): in the loaded program every use of a name, in whichever
\* file, leads to its one definition.
LinkerReachesDefinitions == tool = "linker" => Lnk!LinkedUsesReachDefinitions

\* The linker: a missing file or an unusable name, a symbol defined twice or
\* never, no main, too many files, a program too large for the loader and a
\* full disk leave no file, and nothing else does.
LinkerRefuses == tool = "linker" => Lnk!IllLinkedRefused

\* The preprocessor (cc.c): its output is the lines C selects, with C's
\* macro expansions, from the files the documented search order finds.
PreprocessorMeansC == tool = "preprocessor" => Cpp!PreprocessedMeansC

\* The preprocessor: the line map gives every output line the file and line
\* it came from, so that diagnostics point at the source.
PreprocessorMapsLines == tool = "preprocessor" => Cpp!LineMapNamesOrigin
=============================================================================
