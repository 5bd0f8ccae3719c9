------------------------------ MODULE MCLinker ------------------------------
(***************************************************************************)
(* Programs of several source files for the linker: definitions in every   *)
(* section, calls and addresses across files, statics of the same name,    *)
(* strings, and programs that must be refused.                             *)
(***************************************************************************)
EXTENDS Linker

Def(x, sec)  == [name |-> x, static |-> FALSE, sec |-> sec, size |-> 1]
Stat(x, sec) == [name |-> x, static |-> TRUE, sec |-> sec, size |-> 1]
Zero(x, size) == [name |-> x, static |-> FALSE, sec |-> "bss", size |-> size]
CallOf(x)    == [name |-> x, type |-> "rel32"]
AddrOfName(x) == [name |-> x, type |-> "abs32"]
Globals == {"v", "w"}

IndicesIn(defs, sec) == SelectSeq([i \in DOMAIN defs |-> i], LAMBDA i: defs[i].sec = sec)
SizeBefore(defs, sec, i) == FoldLeft(LAMBDA q, d: q + (IF d.sec = sec THEN d.size ELSE 0), 0, SubSeq(defs, 1, i - 1))
IndexOfName(defs, x) == SelectInSeq(defs, LAMBDA d: d.name = x)

\* The tables of a unit that defines defs, uses the names uses and has one
\* string for each of strs, pointed to from "text" or from "data".
Unit(id, defs, uses, strs) ==
    LET u == [id |-> id, defs |-> defs, uses |-> uses, strs |-> strs]
        cells(sec) == LET is == IndicesIn(defs, sec) IN [j \in DOMAIN is |-> DefMark(u, is[j])]
        field(k) == << RefMark(u, k) >> \o Cells(4)
        strsIn(sec) == SelectSeq([k \in DOMAIN strs |-> k], LAMBDA k: strs[k] = sec)
        after(sec, n) == Len(cells(sec)) + 5 * n + 1
        textStrs == strsIn("text")
        dataStrs == strsIn("data")
        others == {uses[k].name : k \in DOMAIN uses} \ {defs[i].name : i \in DOMAIN defs}
        decls == SetToSeq(others)
        entry(x, sec) == LET i == IndexOfName(defs, x) IN
            [name |-> x, static |-> i # 0 /\ defs[i].static, defined |-> i # 0, extern |-> i = 0, sec |-> sec,
             off |-> IF i = 0 THEN 0 ELSE SizeBefore(defs, sec, i)]
        names == [i \in DOMAIN defs |-> << defs[i].name, defs[i].sec >>] \o [i \in DOMAIN decls |-> << decls[i], "text" >>]
        globals == SelectSeq(names, LAMBDA q: q[1] \in Globals)
        isGlob(k) == uses[k].name \in Globals
        useFix == [k \in DOMAIN uses |-> [pos |-> after("text", k - 1), type |-> uses[k].type, name |-> uses[k].name,
                                          static |-> LET i == IndexOfName(defs, uses[k].name) IN i # 0 /\ defs[i].static,
                                          g |-> SelectInSeq(globals, LAMBDA q: q[1] = uses[k].name)]]
    IN [id |-> id, defs |-> defs, uses |-> uses, strs |-> strs,
        text |-> cells("text") \o FlattenSeq([k \in DOMAIN uses |-> field(k)]) \o FlattenSeq([k \in DOMAIN textStrs |-> field(10 + textStrs[k])]),
        rodata |-> [k \in DOMAIN strs |-> StrMark(u, k)],
        data |-> cells("data") \o FlattenSeq([k \in DOMAIN dataStrs |-> field(10 + dataStrs[k])]),
        bss |-> SizeBefore(defs, "bss", Len(defs) + 1),
        funcs |-> [i \in DOMAIN SelectSeq(names, LAMBDA q: q[1] \notin Globals) |-> entry(SelectSeq(names, LAMBDA q: q[1] \notin Globals)[i][1], "text")],
        globals |-> [i \in DOMAIN globals |-> entry(globals[i][1], globals[i][2])],
        strfix |-> [k \in DOMAIN strs |-> [sec |-> strs[k], index |-> k - 1,
                        pos |-> IF strs[k] = "text" THEN after("text", Len(uses) + SelectInSeq(textStrs, LAMBDA j: j = k) - 1)
                                ELSE after("data", SelectInSeq(dataStrs, LAMBDA j: j = k) - 1)]],
        symfix |-> SelectSeq(useFix, LAMBDA r: r.g = 0),
        globfix |-> SelectSeq(useFix, LAMBDA r: r.g # 0)]

Stdio == Unit(1, << Def("print", "text"), Stat("f", "text"), Stat("v", "data") >>, << CallOf("f"), AddrOfName("v") >>, << "text" >>)
OwnStdio == Unit(5, << Def("print", "text") >>, <<>>, <<>>)

\* a.c and b.c: what each defines and uses.
DefsA == { << Def("main", "text") >>, << Def("main", "text"), Def("f", "text"), Def("v", "data"), Zero("w", 3) >>,
           << Stat("f", "text"), Zero("v", 2), Def("main", "text") >>, << Def("f", "text"), Def("w", "data") >> }
DefsB == { << Zero("w", 2), Def("f", "text"), Def("g", "text") >>, << Stat("f", "text"), Def("v", "data"), Def("g", "text"), Stat("w", "bss") >>,
           << Def("main", "text") >>, <<>> }
UsesA == { << CallOf("f"), AddrOfName("w") >>, << AddrOfName("v"), CallOf("g"), AddrOfName("f") >>, << CallOf("print") >> }
UsesB == { << CallOf("f"), AddrOfName("w"), CallOf("print") >>, << AddrOfName("v"), CallOf("main") >> }
StrsA == { <<>>, << "text", "data" >>, << "data", "data", "text" >> }

Nothing == Unit(4, <<>>, <<>>, <<>>)

Disk(a, b) == (<< "lib", "stdio.c" >> :> Stdio) @@ (<< "d", "a.c" >> :> a) @@ (<< "lib", "b.c" >> :> b)
              @@ (<< "d", "stdio.c" >> :> OwnStdio) @@ (<< "d", "e.c" >> :> Nothing)
Case(ok, a, b, names) == [ok |-> ok, disk |-> Disk(a, b), room |-> TRUE, cwd |-> << "d" >>, names |-> names, output |-> Rel(<< "out" >>)]

\* b.c is found in /lib from the directory /d.
TwoFiles == {Case(TRUE, Unit(2, da, ua, sa), Unit(3, db, ub, << "data" >>), names) :
               da \in DefsA, ua \in UsesA, sa \in StrsA, db \in DefsB, ub \in UsesB,
               names \in { << Rel(<< "a.c" >>), Rel(<< "b.c" >>) >>, << Rel(<< "..", "d", "b.c" >>), Abs(<< "d", ".", "a.c" >>), Rel(<< "stdio.c" >>) >> }}
Small == Unit(2, << Def("main", "text") >>, <<>>, <<>>)
NoFile ==
    {Case(FALSE, Small, Small, names) : names \in { <<>>, << Rel(<< "a.c" >>), Rel(<< "x.c" >>) >>, << Rel(<< ".." >>) >>,
                                              << Rel(<< "a.c" >>), Rel(<< "a", "b", "c", "a.c" >>) >>,
                                              << Abs(<< "lib", "d", "a.c" >>) >>, << Abs(<< "lib", "d", "b.c" >>) >> }}

\* One file and empty ones, up to and past MAX_OBJ objects, with the library
\* and with a stdio.c of one's own in its place.
ManyFiles ==
    {Case(TRUE, Small, Small, first \o [i \in 1 .. n |-> Rel(<< "e.c" >>)]) :
        n \in 0 .. MAX_OBJ, first \in { << Rel(<< "a.c" >>) >>, << Rel(<< "a.c" >>), Rel(<< "stdio.c" >>) >> }}

\* A file as large as the loader takes, and one byte larger.
Large == LET rest == FILE_BUF_MAX - FileSize(<< Stdio, Small >>)
         IN {Case(TRUE, [Small EXCEPT !.data = @ \o Cells(n)], Small, << Rel(<< "a.c" >>) >>) : n \in {rest, rest + 1}}

NoOutput == LET c == Case(FALSE, Small, Small, << Rel(<< "a.c" >>) >>)
            IN {[c EXCEPT !.room = FALSE], [c EXCEPT !.output = Rel(<<>>)], [c EXCEPT !.output = Rel(<< "a", "b", "c", "out" >>)]}

LinkSources == TwoFiles \cup NoFile \cup ManyFiles \cup Large \cup NoOutput
=============================================================================
