------------------------------- MODULE Linker -------------------------------
(***************************************************************************)
(* The compiler's driver and linker (user/cc.c): main compiles every       *)
(* source into an object, links the objects, writes the file, and the      *)
(* kernel loads it.  A source file is what the compiler's tables hold when *)
(* parse_program ends: the three sections' cells, and its functions,       *)
(* globals and fixups.                                                     *)
(***************************************************************************)
EXTENDS ElfImage, Paths, TLC

CONSTANTS MAX_OBJ,                    \* objects a program may have
          MAX_SECTION                 \* bytes a section of one object may have

\* The output sections hold whatever MAX_OBJ objects can, so that the test
\* of link_objects against it never fails.
MAX_OUT == MAX_SECTION * MAX_OBJ

\* A symbol's link name: statics are told apart by their unit.
LinkName(x, static, unit) == << x, IF static THEN unit ELSE 0 >>

Obj(text, rodata, data, bss) == [text |-> text, rodata |-> rodata, data |-> data, bss |-> bss, syms |-> <<>>, lreloc |-> <<>>, sreloc |-> <<>>]

\* Each function and global becomes a symbol, defined or not; each fixup a
\* relocation against a section or against a symbol.
compile_obj(u, unit) ==
    LET name(r) == LinkName(r.name, r.static, unit)
        funcs == [i \in DOMAIN u.funcs |-> [name |-> name(u.funcs[i]), sec |-> "text", value |-> u.funcs[i].off, defined |-> u.funcs[i].defined]]
        globals == [i \in DOMAIN u.globals |-> [name |-> name(u.globals[i]), sec |-> u.globals[i].sec, value |-> u.globals[i].off, defined |-> ~u.globals[i].extern]]
        strs == [i \in DOMAIN u.strfix |-> [sec |-> u.strfix[i].sec, off |-> u.strfix[i].pos, target |-> "rodata", addend |-> u.strfix[i].index]]
        globs == [i \in DOMAIN u.globfix |-> [sec |-> "text", off |-> u.globfix[i].pos, type |-> "abs32", name |-> name(u.globals[u.globfix[i].g])]]
        calls == [i \in DOMAIN u.symfix |-> [sec |-> "text", off |-> u.symfix[i].pos, type |-> u.symfix[i].type, name |-> name(u.symfix[i])]]
    IN [Obj(u.text, u.rodata, u.data, u.bss) EXCEPT !.syms = funcs \o globals, !.lreloc = strs, !.sreloc = globs \o calls]

\* The start object: a call of main between code that sets up and code that exits.
START == 900
EXIT == 901
build_start_obj ==
    [Obj(<< START >> \o Cells(4) \o << EXIT >>, <<>>, <<>>, 0) EXCEPT
        !.sreloc = << [sec |-> "text", off |-> 1, type |-> "rel32", name |-> LinkName("main", FALSE, 0)] >>]

---------------------------------------------------------------------------
(* link_objects.                                                           *)

Total(objs, s) == FoldLeft(LAMBDA n, o: n + Len(o[s]), 0, objs)
TotalBss(objs) == FoldLeft(LAMBDA n, o: n + o.bss, 0, objs)
Before(objs, i) == SubSeq(objs, 1, i - 1)
OffsetOf(objs, i, s) == IF s = "bss" THEN TotalBss(Before(objs, i)) ELSE Total(Before(objs, i), s)

BaseOf(objs, s) ==
    LET text == LINK_BASE + HEADER
    IN CASE s = "text" -> text
         [] s = "rodata" -> text + Total(objs, "text")
         [] s = "data" -> text + Total(objs, "text") + Total(objs, "rodata")
         [] OTHER -> text + Total(objs, "text") + Total(objs, "rodata") + Total(objs, "data")

AddressOf(objs, i, s, off) == BaseOf(objs, s) + OffsetOf(objs, i, s) + off

\* The symbol table, object by object: a second definition is an error, an
\* undefined entry is completed by a later definition.
AddSym(objs, i, tab, sy) ==
    LET addr == AddressOf(objs, i, sy.sec, sy.value)
    IN IF sy.defined
       THEN IF sy.name \in DOMAIN tab.t /\ tab.t[sy.name].defined THEN [tab EXCEPT !.dup = TRUE]
            ELSE [tab EXCEPT !.t = (sy.name :> [addr |-> addr, defined |-> TRUE]) @@ @]
       ELSE IF sy.name \in DOMAIN tab.t THEN tab ELSE [tab EXCEPT !.t = (sy.name :> [addr |-> 0, defined |-> FALSE]) @@ @]

link_syms(objs) ==
    FoldLeft(LAMBDA tab, i: FoldLeft(LAMBDA q, sy: AddSym(objs, i, q, sy), tab, objs[i].syms),
             [t |-> <<>>, dup |-> FALSE], [i \in DOMAIN objs |-> i])

Undefined(tab, name) == name \notin DOMAIN tab.t \/ ~tab.t[name].defined

\* write32 at a place of an output section.
write32(out, s, at, v) == [out EXCEPT ![s] = SubSeq(@, 1, at) \o Word32(v) \o SubSeq(@, at + 5, Len(@))]

\* Mutant: a call is measured from the field, not from the instruction's end.
PatchFromField(objs, out, i, s, off, type, target) ==
    write32(out, s, OffsetOf(objs, i, s) + off, IF type = "rel32" THEN target - AddressOf(objs, i, s, off) ELSE target)

Patch(objs, out, i, s, off, type, target) ==
    LET here == AddressOf(objs, i, s, off)
    IN write32(out, s, OffsetOf(objs, i, s) + off, IF type = "rel32" THEN target - (here + 4) ELSE target)

PatchObject(objs, tab, out, i) ==
    LET locals == FoldLeft(LAMBDA o, r: Patch(objs, o, i, r.sec, r.off, "abs32", AddressOf(objs, i, r.target, r.addend)), out, objs[i].lreloc)
    IN FoldLeft(LAMBDA o, r: Patch(objs, o, i, r.sec, r.off, r.type, tab.t[r.name].addr), locals, objs[i].sreloc)

link_objects(objs) ==
    LET all(s) == FlattenSeq([i \in DOMAIN objs |-> objs[i][s]])
        tab == link_syms(objs)
        copied == [text |-> all("text"), rodata |-> all("rodata"), data |-> all("data")]
        ok == /\ \A s \in {"text", "rodata", "data"} : Total(objs, s) <= MAX_OUT
              /\ ~tab.dup
              /\ \A i \in DOMAIN objs : \A j \in DOMAIN objs[i].sreloc : ~Undefined(tab, objs[i].sreloc[j].name)
    IN [ok |-> ok,
        out |-> IF ok THEN FoldLeft(LAMBDA o, i: PatchObject(objs, tab, o, i), copied, [i \in DOMAIN objs |-> i]) ELSE copied,
        bss |-> TotalBss(objs)]

build_elf(l) == ElfFile(LINK_BASE + HEADER, l.out.text \o l.out.rodata \o l.out.data, l.bss)

\* outbuf is sized to the kernel's FILE_BUF_MAX.
FitsOutput(file) == file.filesz <= FILE_BUF_MAX

---------------------------------------------------------------------------
(* main, one step per object; then the program runs.                       *)

VARIABLES lsrc,     \* the files of the disk and whether it takes another, the
                    \* directory, the typed names and the output's
          todo,     \* the files main has still to compile
          objs,     \* the objects so far
          lstep,    \* how far main got
          lrun      \* the program in memory

lvars == << lsrc, todo, objs, lstep, lrun >>
NotRun == [mem |-> <<>>, brk |-> 0, entry |-> 0]
StdioPath == << "lib", "stdio.c" >>

LinkInit(sources) ==
    /\ lsrc \in sources
    /\ todo = <<>> /\ objs = <<>> /\ lstep = "prompt" /\ lrun = NotRun

\* split_sources keeps the first MAX_OBJ names; stdio.c is added unless typed.
ReadNames ==
    /\ lstep = "prompt"
    /\ LET names == SubSeq(lsrc.names, 1, IF Len(lsrc.names) > MAX_OBJ THEN MAX_OBJ ELSE Len(lsrc.names))
           files == [i \in DOMAIN names |-> path_fs(lsrc.cwd, names[i])]
           has_stdio == \E i \in DOMAIN files : files[i] # <<>> /\ path_base(files[i]) = "stdio.c"
       IN IF \/ files = <<>> \/ \E i \in DOMAIN files : files[i] = <<>>
             \/ path_fs(lsrc.cwd, lsrc.output) = <<>>
          THEN lstep' = "refused" /\ UNCHANGED << todo, objs >>
          ELSE /\ todo' = (IF has_stdio THEN <<>> ELSE << StdioPath >>) \o files
               /\ objs' = << build_start_obj >>
               /\ lstep' = "compile"
    /\ UNCHANGED << lsrc, lrun >>

\* A missing source that is not below /lib falls back to it by its base name.
SourceOf(f) == IF f \in DOMAIN lsrc.disk \/ (Len(f) > 1 /\ Head(f) = "lib") THEN f ELSE << "lib", path_base(f) >>

\* Mutant: the number of objects is not checked.
CompileAnyNumber ==
    /\ lstep = "compile" /\ todo # <<>>
    /\ LET f == SourceOf(Head(todo))
           ok == f \in DOMAIN lsrc.disk
       IN /\ lstep' = IF ok THEN "compile" ELSE "refused"
          /\ objs' = IF ok THEN Append(objs, compile_obj(lsrc.disk[f], Len(objs))) ELSE objs
    /\ todo' = Tail(todo)
    /\ UNCHANGED << lsrc, lrun >>

CompileNext ==
    /\ lstep = "compile" /\ todo # <<>>
    /\ LET f == SourceOf(Head(todo))
           ok == Len(objs) < MAX_OBJ /\ f \in DOMAIN lsrc.disk
       IN /\ lstep' = IF ok THEN "compile" ELSE "refused"
          /\ objs' = IF ok THEN Append(objs, compile_obj(lsrc.disk[f], Len(objs))) ELSE objs
    /\ todo' = Tail(todo)
    /\ UNCHANGED << lsrc, lrun >>

LinkAndSave ==
    /\ lstep = "compile" /\ todo = <<>>
    /\ LET l == link_objects(objs)
           file == build_elf(l)
           ok == l.ok /\ FitsOutput(file) /\ lsrc.room
       IN /\ lstep' = IF ok THEN "saved" ELSE "refused"
          /\ lrun' = IF ok /\ CanLoad(file) THEN Loaded(file) ELSE NotRun
    /\ UNCHANGED << lsrc, todo, objs >>

LinkDone == lstep \in {"refused", "saved"} /\ UNCHANGED lvars

LinkNext == ReadNames \/ CompileNext \/ LinkAndSave \/ LinkDone

---------------------------------------------------------------------------
(* What linking means, read back from memory.  Cells from 1000 mark places:*)
(* a unit's cell for each definition and before each reference is unique.  *)

DefMark(u, i) == 1000 + 20 * u.id + i
RefMark(u, i) == 5000 + 20 * u.id + i
StrMark(u, i) == 9000 + 20 * u.id + i

\* The units of the program, in order, each with what it defines and uses.
FilesOf(s) ==
    LET files == [i \in DOMAIN s.names |-> path_fs(s.cwd, s.names[i])]
    IN IF \E i \in DOMAIN files : path_base(files[i]) = "stdio.c" THEN files ELSE << StdioPath >> \o files
UnitsOf(s) == [i \in DOMAIN FilesOf(s) |-> LET f == FilesOf(s)[i] IN IF f \in DOMAIN s.disk THEN s.disk[f] ELSE s.disk[<< "lib", path_base(f) >>]]

\* u and i: the unit and definition that unit v's use of a name means.
Means(units, v, x) ==
    LET own == {<< w, i >> \in {v} \X (1 .. 8) : i \in DOMAIN units[w].defs /\ units[w].defs[i].name = x}
        ext == {<< w, i >> \in (DOMAIN units) \X (1 .. 8) : i \in DOMAIN units[w].defs /\ units[w].defs[i].name = x /\ ~units[w].defs[i].static}
    IN IF own # {} THEN own ELSE ext
TheDef(units, v, x) == CHOOSE d \in Means(units, v, x) : TRUE

\* The file that the start code and the units make.
FileSize(units) ==
    FoldLeft(LAMBDA n, u: n + Len(u.text) + Len(u.rodata) + Len(u.data), HEADER + Len(build_start_obj.text), units)

WellFormed(s) ==
    \E units \in {UnitsOf(s)} :
       /\ Len(units) + 1 <= MAX_OBJ
       /\ FileSize(units) <= FILE_BUF_MAX
       /\ \A v, w \in DOMAIN units : \A i \in DOMAIN units[v].defs, j \in DOMAIN units[w].defs :
            units[v].defs[i].name = units[w].defs[j].name /\ << v, i >> # << w, j >> => units[v].defs[i].static \/ units[w].defs[j].static
       /\ \A v \in DOMAIN units : \A k \in DOMAIN units[v].uses : Means(units, v, units[v].uses[k].name) # {}
       /\ \E v \in DOMAIN units : \E i \in DOMAIN units[v].defs : units[v].defs[i].name = "main" /\ ~units[v].defs[i].static

PlaceOf(m, mark) == CHOOSE a \in 0 .. Len(m) - 1 : At(m, a) = mark
Follow(m, a, type) == IF type = "rel32" THEN a + 4 + WordAt(m, a) ELSE WordAt(m, a)

\* Where unit v's use k leads.
Target(m, units, v, k) == Follow(m, PlaceOf(m, RefMark(units[v], k)) + 1, units[v].uses[k].type)

UseReaches(r, units, v, k) ==
    LET d == TheDef(units, v, units[v].uses[k].name)
        def == units[d[1]].defs[d[2]]
        t == Target(r.mem, units, v, k)
    IN IF def.sec # "bss" THEN At(r.mem, t) = DefMark(units[d[1]], d[2])
       ELSE /\ t + def.size <= r.brk
            /\ \A a \in t .. t + def.size - 1 : At(r.mem, a) = 0
            /\ \A a \in t .. r.brk - 1 : At(r.mem, a) < 900

UsesReach(r, units) ==
    \A v \in DOMAIN units : \A k \in DOMAIN units[v].uses : UseReaches(r, units, v, k)

\* Every use of an uninitialised object: which object, where it leads, its size.
BssUses(r, units) ==
    {<< TheDef(units, v, units[v].uses[k].name), Target(r.mem, units, v, k) >> :
        << v, k >> \in {<< v, k >> \in (DOMAIN units) \X (1 .. 8) : k \in DOMAIN units[v].uses}}

BssApart(uses, units) ==
    LET Size(a) == units[a[1][1]].defs[a[1][2]].size
        bss == {a \in uses : units[a[1][1]].defs[a[1][2]].sec = "bss"}
    IN \A a, b \in bss : IF a[1] = b[1] THEN a[2] = b[2] ELSE a[2] + Size(a) <= b[2] \/ b[2] + Size(b) <= a[2]

StringsReach(m, units) ==
    \A v \in DOMAIN units : \A k \in DOMAIN units[v].strs :
        At(m, WordAt(m, PlaceOf(m, RefMark(units[v], 10 + k)) + 1)) = StrMark(units[v], k)

EntryCallsMain(r, units) ==
    /\ At(r.mem, r.entry) = START
    /\ LET main == TheDef(units, 1, "main")
       IN At(r.mem, Follow(r.mem, r.entry + 1, "rel32")) = DefMark(units[main[1]], main[2])

\* The program in memory: every use of a name, in any unit, leads to its one
\* definition, pointers to strings lead to the strings, uninitialised objects
\* are zero and apart from one another, and the entry calls main.
LinkedUsesReachDefinitions ==
    (lstep = "saved" /\ lrun # NotRun) =>
        \E units \in {UnitsOf(lsrc)} :
            /\ UsesReach(lrun, units)
            /\ BssApart(BssUses(lrun, units), units)
            /\ StringsReach(lrun.mem, units)
            /\ EntryCallsMain(lrun, units)

\* main writes no file exactly when a source is missing, a source or the
\* output has no usable name, a name is defined twice or used and never
\* defined, main is missing, the files are too many, the program is larger
\* than the loader takes, or the disk takes no other file.
IllLinkedRefused == lstep \in {"refused", "saved"} => (lstep = "saved" <=> lsrc.ok /\ WellFormed(lsrc))
=============================================================================
