----------------------------- MODULE MCPreproc ------------------------------
(***************************************************************************)
(* Source files for the preprocessor: conditions, nested conditionals,     *)
(* macros, includes and outputs that outgrow the tables.                   *)
(***************************************************************************)
EXTENDS PPReference

Main == << "d", "m.c" >>
Tx(i) == Text(<< Id("t"), NumT(i) >>)
On1(lines) == [disk |-> Main :> lines, cwd |-> <<>>, file |-> Main, skip_stdio |-> TRUE]

\* Every pair of operators, grouped either way; the value is compared with
\* the one C gives, so that the group that holds is the first.
Ops == UNION {Binding[l] : l \in 1 .. 8}
Atoms == << Numb(7), Name("K"), Unary("-", Numb(3)), Unary("!", Defined("K")), Unary("~", Unary("-", Numb(4))) >>
KTable == "K" :> [is_func |-> FALSE, params |-> <<>>, body |-> << NumT(2) >>]
\* No division by zero, and bits and shifts of small positive numbers only.
RECURSIVE Sensible(_)
Sensible(e) ==
    e.k = "bin" => /\ Sensible(e.a) /\ Sensible(e.b)
                   /\ e.o \in {"/", "%"} => ValueOf(KTable, e.b) # 0
                   /\ e.o \in {"&", "^", "|", "<<", ">>"} => ValueOf(KTable, e.a) \in 0 .. 500 /\ ValueOf(KTable, e.b) \in 0 .. 8
Trees == {e \in UNION {{Binary(o, Binary(q, Atoms[s[1]], Atoms[s[2]]), Atoms[s[3]]), Binary(o, Atoms[s[1]], Binary(q, Atoms[s[2]], Atoms[s[3]]))} :
                        o \in Ops, q \in Ops, s \in {<< 1, 2, 3 >>, << 2, 5, 4 >>, << 1, 5, 2 >>}} : Sensible(e)}
Equals(e) == LET v == ValueOf(KTable, e) IN Binary("==", e, IF v < 0 THEN Unary("-", Numb(-v)) ELSE Numb(v))
Conditions ==
    {On1(<< Define("K", << NumT(2) >>), Conditional("if", c), Tx(1), Else, Tx(2), Endif >>) :
       c \in {Equals(e) : e \in Trees} \cup
             {Binary("||", Unary(o, Defined(x)), Binary(">", Name(y), Numb(1))) : o \in {"!", "+"}, x \in {"K", "L"}, y \in {"K", "L"}}}

\* Nested conditionals: every balanced sequence of six directives that
\* starts with A defined and B not, with text between them.
Directives == {Ifdef("A"), Ifndef("B"), Conditional("elif", Binary("||", Defined("B"), Numb(0))), Else, Endif,
               Define("B", << NumT(1) >>), Undef("A")}
Balanced(ls) ==
    /\ \A i \in DOMAIN ls : Nest(ls, 1, i) >= 0
    /\ Nest(ls, 1, Len(ls)) = 0
    /\ \A i \in DOMAIN ls : ls[i].k \in {"elif", "else"} =>
         \E j \in Enclosing(ls, i) : Nest(ls, j, i) = 1 /\ \A k \in Heads(ls, j, i) : ls[k].k # "else"
RECURSIVE WithText(_, _)
WithText(ls, i) == IF ls = <<>> THEN << Tx(i) >> ELSE << Tx(i), Head(ls) >> \o WithText(Tail(ls), i + 1)
Chains == {ls \in [1 .. 5 -> Directives] : IsOpen(ls[1])}
Nestings == {On1(<< Define("A", << NumT(1) >>) >> \o WithText(ls \o e, 1)) :
               << ls, e >> \in {q \in Chains \X {<<>>, << Endif >>, << Endif, Endif >>} : Balanced(q[1] \o q[2])}}

\* Macros: with and without parameters, one in another's body and arguments,
\* redefined, undefined, missing arguments, names in strings, a line's own name.
a == Id("a")
b == Id("b")
Paren(ts) == << Ch("(") >> \o ts \o << Ch(")") >>
CallF(f, args) == << Id(f) >> \o Paren(FoldLeft(LAMBDA s, t: IF s = <<>> THEN t ELSE s \o << Ch(",") >> \o t, <<>>, args))
Tables == { << DefineF("F", << "x", "y" >>, << Id("x"), Ch("-"), Id("y") >>), Define("N", << NumT(3), Ch("+"), Id("M") >>), Define("M", << Ch("("), NumT(1), Ch(")") >>) >>,
            << DefineF("F", << "y", "x" >>, CallF("G", << << Id("x") >>, << Id("y"), Id("N") >> >>)), DefineF("G", << "x", "x2" >>, << Id("x2"), Ch("*"), Id("x") >>),
               Define("N", <<>>), Define("M", << Quote, Id("N"), Quote >>) >>,
            << Define("F", << Id("G") >>), Define("N", << Id("a") >>), Undef("N"), Define("M", << Id("__LINE__") >>), Define("M", << Id("N"), Id("__FILE__") >>) >> }
TextOf == { << Id("N"), Blank, Id("M"), Ch(";") >>, << Quote, Id("N"), Ch(","), Quote, Id("M") >>, << Id("F"), Id("F") >> \o Paren(<< a, Ch(","), b >>),
            CallF("F", << CallF("F", << << a >>, << Id("N") >> >>), Paren(<< a, Ch(","), Id("M") >>) >>) \o << Id("M") >>,
            << Id("__LINE__"), Ch(":"), Id("__FILE__") >>, << Apostrophe, Id("N"), Apostrophe, Id("M"), Quote, Apostrophe, Id("N"), Quote, Id("N") >> }
Macros == {On1(t \o << Text(l), Pragma, Text(l) >>) : t \in Tables, l \in TextOf}

\* Includes: where they are looked for, nested, guarded, too deep, missing,
\* empty, in a group that is not selected.
Header(x) == << Ifndef(x), Define(x, <<>>), Text(<< Id(x), Id("__LINE__") >>), Endif >>
Inc(cs) == Include(Rel(cs), TRUE)
Sys(cs) == Include(Rel(cs), FALSE)
Has(dirs, x) == UNION {{d \o << x >>} : d \in dirs}
Places == SUBSET {<< "d" >>, << "w" >>, <<>>, << "lib" >>}
Includes ==
    {[disk |-> (Main :> << Tx(1), inc, Tx(2), inc, Tx(3) >>) @@ [f \in Has(places, "h") |-> Header(IF Len(f) = 1 THEN "root" ELSE f[1])]
                @@ (<< "w", "k" >> :> << inc, Tx(4) >>), cwd |-> << "w" >>, file |-> Main, skip_stdio |-> TRUE] :
       inc \in {Inc(<< "h" >>), Sys(<< "h" >>), Inc(<< "..", "w", "h" >>), Include(Abs(<< "d", ".", "h" >>), FALSE), Inc(<< "k" >>), Inc(<< "x", "y", "z", "h" >>)},
       places \in Places}
Deep == {[disk |-> (Main :> << Inc(<< "a" >>), Tx(1) >>) @@ (<< "d", "a" >> :> << Tx(2) >> \o guard \o << Tx(3), Inc(<< "e", "b" >>), Tx(4), Inc(<< "c" >>) >>)
                    @@ (<< "d", "e", "b" >> :> << Tx(5), Inc(<< "c" >>), Tx(6), Ifdef("A") >>) @@ (<< "c" >> :> << Tx(7), last, Tx(8) >>)
                    @@ (<< "d", "e", "c" >> :> <<>>) @@ (<< "lib", "stdio.c" >> :> << Tx(9) >>),
          cwd |-> <<>>, file |-> Main, skip_stdio |-> skip] :
           guard \in {<<>>, << Ifndef("A"), Define("A", <<>>), Include(Rel(<< "d", "a" >>), FALSE), Endif >>},
           last \in {Pragma, Sys(<< "d", "a" >>), Sys(<< "stdio.c" >>), Tx(10)}, skip \in BOOLEAN}
Long == {On1([i \in 1 .. n |-> Tx(i)]) : n \in 1 .. 12}

PreprocSources == Conditions \cup Nestings \cup Macros \cup Includes \cup Deep \cup Long
=============================================================================
