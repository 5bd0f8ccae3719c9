----------------------------- MODULE CReference -----------------------------
(***************************************************************************)
(* What a C program means, as a reference for the compiler: an evaluator   *)
(* over source trees, and Unparse, which writes a tree as tokens with no   *)
(* more parentheses than C needs.  It shares with the compiler only the    *)
(* constructors of trees and types; objects are lists of scalar cells, a   *)
(* pointer is an object and a cell, and ints are numbers.                  *)
(***************************************************************************)
EXTENDS CCMachine

\* Source trees the compiler has no node for.
OpAs(o, a, b) == [k |-> "opas", op |-> o, l |-> a, r |-> b]
Pre(o, a)     == [k |-> "pre", op |-> o, l |-> a]
Post(o, a)    == [k |-> "post", op |-> o, l |-> a]
SizeT(t)      == [k |-> "sizet", ty |-> t]
SizeE(a)      == [k |-> "sizee", l |-> a]
InitL(es)     == [k |-> "init", es |-> es]

\* Statements.
DeclAs(spec, t, x, i) == [k |-> "decl", spec |-> spec, ty |-> t, name |-> x, init |-> i]
Decl(t, x, e) == DeclAs(<<>>, t, x, <<e>>)
Decl0(t, x)   == DeclAs(<<>>, t, x, <<>>)
Ex(e)         == [k |-> "expr", e |-> e]
IfS(c, a)     == [k |-> "if", c |-> c, a |-> a, b |-> <<>>]
IfE(c, a, b)  == [k |-> "if", c |-> c, a |-> a, b |-> <<b>>]
While(c, b)   == [k |-> "while", c |-> c, b |-> b]
DoW(b, c)     == [k |-> "do", c |-> c, b |-> b]
For(i, c, p, b) == [k |-> "for", i |-> i, c |-> c, p |-> p, b |-> b]
Switch(e, ss) == [k |-> "switch", e |-> e, ss |-> ss]
CaseL(v)      == [k |-> "case", v |-> v]
DefaultL      == [k |-> "default"]
Block(ss)     == [k |-> "block", ss |-> ss]
Ret(e)        == [k |-> "return", e |-> <<e>>]
Ret0          == [k |-> "return", e |-> <<>>]
Break         == [k |-> "break"]
Continue      == [k |-> "continue"]
Goto(x)       == [k |-> "goto", name |-> x]
Label(x)      == [k |-> "label", name |-> x]

Fun(ret, name, ps, va, body) == [name |-> name, ret |-> ret, ps |-> ps, va |-> va, body |-> body]
Prog(structs, globals, funs) == [structs |-> structs, globals |-> globals, funs |-> funs]

---------------------------------------------------------------------------
(* Types: structs by index, each a list of <<name, type>>.                 *)

RECURSIVE Cells(_, _), SizeOf(_, _), AlignOf(_, _)
Cells(p, t) == CASE is_array(t) -> t.len * Cells(p, Base(t))
                 [] is_record(t) -> FoldLeft(LAMBDA a, f: a + Cells(p, f[2]), 0, p.structs[t.sd])
                 [] OTHER -> 1
AlignOf(p, t) == CASE is_array(t) -> AlignOf(p, Base(t))
                   [] is_record(t) -> FoldLeft(LAMBDA a, f: IF AlignOf(p, f[2]) > a THEN AlignOf(p, f[2]) ELSE a, 1, p.structs[t.sd])
                   [] OTHER -> SizeOf(p, t)
SizeOf(p, t) == CASE t.k \in {"int", "float", "ptr"} -> 4 [] t.k = "short" -> 2 [] is_byte(t) -> 1
                  [] is_array(t) -> t.len * SizeOf(p, Base(t))
                  [] OTHER -> align_to(FoldLeft(LAMBDA a, f: align_to(a, AlignOf(p, f[2])) + SizeOf(p, f[2]), 0, p.structs[t.sd]), AlignOf(p, t))

\* The type of the c-th cell of an object of type t.
RECURSIVE CellType(_, _, _)
CellType(p, t, c) ==
    CASE is_array(t) -> CellType(p, Base(t), c % Cells(p, Base(t)))
      [] is_record(t) ->
           LET fs == p.structs[t.sd]
               Before(i) == FoldLeft(LAMBDA a, f: a + Cells(p, f[2]), 0, SubSeq(fs, 1, i - 1))
               i == CHOOSE i \in DOMAIN fs : Before(i) <= c /\ c < Before(i) + Cells(p, fs[i][2])
           IN CellType(p, fs[i][2], c - Before(i))
      [] OTHER -> t

Bits(t) == BYTE_BITS * (IF t.k = "int" THEN 4 ELSE IF t.k = "short" THEN 2 ELSE 1)
InType(t, v) == IF t.u THEN v % 2 ^ Bits(t) ELSE SignedOf(v, Bits(t))
IsTrue(t, v) == is_ptr(t) \/ v # 0

ConvertTo(t, from, v) ==
    CASE is_ptr(t) -> v
      [] t.k = "bool" -> Bool01(IsTrue(from, v))
      [] is_float(t) -> IF is_float(from) THEN v ELSE v * FSCALE
      [] OTHER -> InType(t, IF is_float(from) THEN TDiv(v, FSCALE) ELSE v)

Promoted(t) == IF t.k \in {"char", "short", "bool"} THEN type_int ELSE t
Common(a, b) == IF is_float(a) \/ is_float(b) THEN type_float
                ELSE IF Promoted(a).u \/ Promoted(b).u THEN type_uint ELSE type_int

CArith(t, op, a, b) ==
    CASE is_float(t) -> FOp(op, a, b)
      [] op = "+" -> a + b [] op = "-" -> a - b [] op = "*" -> a * b
      [] op = "/" -> TDiv(a, b) [] op = "%" -> TMod(a, b)
      [] op = "&" -> ToWord(a) & ToWord(b) [] op = "|" -> ToWord(a) | ToWord(b) [] OTHER -> ToWord(a) ^^ ToWord(b)
CCompare(op, a, b) == CASE op = "<" -> a < b [] op = "<=" -> a <= b [] op = ">" -> a > b [] op = ">=" -> a >= b
                        [] op = "==" -> a = b [] OTHER -> a # b

---------------------------------------------------------------------------
(* Evaluation.  r holds the objects, the names in scope, the output and    *)
(* the reason a statement list was left early.                             *)

V(v, t, r) == [v |-> v, ty |-> t, r |-> r]
NewObject(r, cells) == [r EXCEPT !.store = Append(@, cells)]
Bind(r, x, t, o) == [r EXCEPT !.env = (x :> [o |-> o, ty |-> t]) @@ @]

\* Eval(what, p, x, r): the evaluators that call one another.
RECURSIVE Eval(_, _, _, _)
RECURSIVE ArgsV(_, _, _, _), ExecLoop(_, _, _), InitCells(_, _, _, _)

\* Where an lvalue is: [o, c, ty, r].
L(o, c, t, r) == [o |-> o, c |-> c, ty |-> t, r |-> r]
LV(p, e, r) ==
    CASE e.k = "var" -> L(r.env[e.name].o, 0, r.env[e.name].ty, r)
      [] e.k = "deref" -> LET a == Eval("value", p, e.l, r) IN L(a.v.o, a.v.c, Base(a.ty), a.r)
      [] e.k = "index" -> Eval("place", p, Deref(Bin("+", e.l, e.r)), r)
      [] OTHER -> LET a == IF e.op = "." THEN Eval("place", p, e.l, r) ELSE Eval("place", p, Deref(e.l), r)
                      fs == p.structs[a.ty.sd]
                      i == CHOOSE i \in DOMAIN fs : fs[i][1] = e.name
                  IN L(a.o, a.c + FoldLeft(LAMBDA n, f: n + Cells(p, f[2]), 0, SubSeq(fs, 1, i - 1)), fs[i][2], a.r)

\* The value at an lvalue: a pointer for an array, the cells for a record.
Fetch(p, a) == CASE is_array(a.ty) -> V([o |-> a.o, c |-> a.c], type_ptr(Base(a.ty)), a.r)
                 [] is_record(a.ty) -> V(SubSeq(a.r.store[a.o], a.c + 1, a.c + Cells(p, a.ty)), a.ty, a.r)
                 [] OTHER -> V(a.r.store[a.o][a.c + 1], a.ty, a.r)

Store(p, a, b) ==
    IF is_record(a.ty)
    THEN V(b.v, a.ty, [b.r EXCEPT !.store[a.o] = [i \in DOMAIN @ |-> IF i \in (a.c + 1)..(a.c + Len(b.v)) THEN b.v[i - a.c] ELSE @[i]]])
    ELSE LET v == ConvertTo(a.ty, b.ty, b.v) IN V(v, a.ty, [b.r EXCEPT !.store[a.o][a.c + 1] = v])

\* l op r for operands already evaluated.
BinV(p, op, a, b) ==
    LET t == Common(a.ty, b.ty)
        x == ConvertTo(t, a.ty, a.v)
        y == ConvertTo(t, b.ty, b.v)
        Move(q, n) == V([q.v EXCEPT !.c = @ + n * Cells(p, Base(q.ty))], q.ty, b.r)
    IN CASE is_ptr(a.ty) /\ is_ptr(b.ty) -> IF op = "-" THEN V((a.v.c - b.v.c) \div Cells(p, Base(a.ty)), type_int, b.r)
                                            ELSE V(Bool01(CCompare(op, a.v.c, b.v.c)), type_int, b.r)
         [] is_ptr(a.ty) -> Move(a, IF op = "+" THEN b.v ELSE -b.v)
         [] is_ptr(b.ty) -> Move(b, a.v)
         [] op \in Compares -> V(Bool01(CCompare(op, x, y)), type_int, b.r)
         [] op \in {"<<", ">>"} -> LET s == Promoted(a.ty)
                                   IN V(InType(s, IF op = "<<" THEN a.v * 2 ^ b.v ELSE a.v \div 2 ^ b.v), s, b.r)
         [] is_float(t) -> V(CArith(t, op, x, y), t, b.r)
         [] OTHER -> V(InType(t, CArith(t, op, x, y)), t, b.r)

RV(p, e, r) ==
    CASE e.k = "num"  -> V(e.v, type_int, r)
      [] e.k = "fnum" -> V(e.v, type_float, r)
      [] e.k = "str"  -> V([o |-> Len(r.store) + 1, c |-> 0], type_ptr(type_char), NewObject(r, Append(e.v, 0)))
      [] e.k = "var" /\ e.name \notin DOMAIN r.env -> V(e.name, type_ptr(type_void), r)
      [] e.k \in {"var", "deref", "index", "member"} -> Fetch(p, Eval("place", p, e, r))
      [] e.k = "addr" -> LET a == Eval("place", p, e.l, r) IN V([o |-> a.o, c |-> a.c], type_ptr(a.ty), a.r)
      [] e.k = "assign" -> LET b == Eval("value", p, e.r, r) IN LET a == Eval("place", p, e.l, b.r) IN Store(p, a, [b EXCEPT !.r = a.r])
      [] e.k = "opas" -> LET b == Eval("value", p, e.r, r) IN LET a == Eval("place", p, e.l, b.r)
                         IN Store(p, a, BinV(p, e.op, Fetch(p, a), [b EXCEPT !.r = a.r]))
      [] e.k \in {"pre", "post"} ->
            LET a == Eval("place", p, e.l, r)
                old == Fetch(p, a)
                new == Store(p, a, BinV(p, e.op, old, V(1, type_int, a.r)))
            IN IF e.k = "pre" THEN new ELSE [old EXCEPT !.r = new.r]
      [] e.k = "cast" -> LET a == Eval("value", p, e.l, r) IN V(ConvertTo(e.ty, a.ty, a.v), e.ty, a.r)
      [] e.k = "un"   -> LET a == Eval("value", p, e.l, r)
                             t == Promoted(a.ty)
                         IN CASE e.op = "!" -> V(Bool01(~IsTrue(a.ty, a.v)), type_int, a.r)
                              [] is_float(t) -> V(-a.v, t, a.r)
                              [] e.op = "-" -> V(InType(t, -a.v), t, a.r)
                              [] OTHER -> V(InType(t, -a.v - 1), t, a.r)
      [] e.k = "bin" /\ e.op \in {"&&", "||"} ->
            LET a == Eval("value", p, e.l, r)
                b == Eval("value", p, e.r, a.r)
            IN IF IsTrue(a.ty, a.v) = (e.op = "||") THEN V(Bool01(e.op = "||"), type_int, a.r)
               ELSE V(Bool01(IsTrue(b.ty, b.v)), type_int, b.r)
      [] e.k = "bin"  -> LET a == Eval("value", p, e.l, r) IN BinV(p, e.op, a, Eval("value", p, e.r, a.r))
      [] e.k = "tern" -> LET c == Eval("value", p, e.c, r)
                             a == Eval("value", p, e.l, c.r)
                             b == Eval("value", p, e.r, c.r)
                             t == IF is_ptr(a.ty) THEN a.ty ELSE Common(a.ty, b.ty)
                             x == IF IsTrue(c.ty, c.v) THEN a ELSE b
                         IN V(ConvertTo(t, x.ty, x.v), t, x.r)
      [] e.k = "sizet" -> V(SizeOf(p, e.ty), type_int, r)
      [] e.k = "sizee" -> V(SizeOf(p, Eval("place", p, e.l, r).ty), type_int, r)
      [] e.k = "vaarg" -> V(ConvertTo(e.ty, Head(r.va).ty, Head(r.va).v), e.ty, [r EXCEPT !.va = Tail(@)])
      [] OTHER -> Eval("call", p, e, r)

\* Arguments, right to left as README.md says of this compiler.
ArgsV(p, as, i, r) ==
    IF i > Len(as) THEN [vs |-> <<>>, r |-> r]
    ELSE LET rest == ArgsV(p, as, i + 1, r)
             a == Eval("value", p, as[i], rest.r)
         IN [vs |-> <<[v |-> a.v, ty |-> a.ty]>> \o rest.vs, r |-> a.r]

CallV(p, e, r) ==
    LET as == ArgsV(p, e.args, 1, r)
        direct == e.callee.k = "var" /\ e.callee.name \notin DOMAIN r.env
        name == IF direct THEN e.callee.name ELSE Eval("value", p, e.callee, as.r).v
        b == builtin_index(name)
        i == SelectInSeq(p.funs, LAMBDA f: f.name = name)
        f == p.funs[i]
        Enter1(x, j) == LET n == NewObject(x, IF is_record(f.ps[j][2]) THEN as.vs[j].v
                                              ELSE <<ConvertTo(f.ps[j][2], as.vs[j].ty, as.vs[j].v)>>)
                        IN Bind(n, f.ps[j][1], f.ps[j][2], Len(n.store))
        start == [FoldLeft(Enter1, [as.r EXCEPT !.env = r.globals], [j \in DOMAIN f.ps |-> j])
                  EXCEPT !.va = SubSeq(as.vs, Len(f.ps) + 1, Len(as.vs)), !.rv = 0]
        done == Eval("list", p, <<f.body, 1>>, [start EXCEPT !.ret = f.ret])
        back == [done EXCEPT !.env = r.env, !.sig = "", !.va = r.va, !.ret = r.ret]
    IN CASE name \in {"va_start", "va_end"} -> V(0, type_int, r)
         [] b > 0 -> V(0, type_int, [as.r EXCEPT !.out = Append(@, <<Builtins[b][2]>> \o [j \in DOMAIN as.vs |-> ToWord(as.vs[j].v)])])
         [] OTHER -> V(done.rv, IF f.ret.k = "void" THEN type_int ELSE f.ret, back)

\* The cells of an object of type t that starts at cell c, from a nested list.
InitCells(p, t, e, r) ==
    IF e.k # "init"
    THEN LET a == Eval("value", p, e, r) IN IF is_record(t) THEN a.v ELSE <<ConvertTo(t, a.ty, a.v)>>
    ELSE LET Elem(i) == IF is_array(t) THEN Base(t) ELSE p.structs[t.sd][i][2]
             Put(acc, i) == acc \o InitCells(p, Elem(i), e.es[i], r)
             front == FoldLeft(Put, <<>>, [i \in DOMAIN e.es |-> i])
         IN front \o [i \in 1..(Cells(p, t) - Len(front)) |-> 0]

DeclareV(p, d, r) ==
    LET n == IF is_array(d.ty) /\ d.ty.len = 0
             THEN [d EXCEPT !.ty.len = IF d.init[1].k = "str" THEN Len(d.init[1].v) + 1 ELSE Len(d.init[1].es)] ELSE d
        raw == CASE d.init = <<>> -> [i \in 1..Cells(p, n.ty) |-> 0]
                 [] is_array(n.ty) /\ d.init[1].k = "str" ->
                      [i \in 1..n.ty.len |-> IF i <= Len(d.init[1].v) THEN d.init[1].v[i] ELSE 0]
                 [] OTHER -> InitCells(p, n.ty, d.init[1], r)
        after == IF d.init = <<>> \/ (is_array(n.ty) /\ d.init[1].k = "str") \/ d.init[1].k = "init" THEN r ELSE Eval("value", p, d.init[1], r).r
        x == NewObject(after, raw)
    IN Bind(x, n.name, n.ty, Len(x.store))

ExecList(p, ss, i, r) ==
    LET x == Eval("stmt", p, ss[i], r)
        to == SelectInSeq(ss, LAMBDA s: s.k = "label" /\ x.sig = "goto" /\ s.name = x.to)
    IN CASE i > Len(ss) -> r
         [] x.sig = "goto" /\ to > 0 -> Eval("list", p, <<ss, to>>, [x EXCEPT !.sig = ""])
         [] x.sig # "" -> x
         [] OTHER -> Eval("list", p, <<ss, i + 1>>, x)

\* One round of a loop and the rest of them; the body has been entered with r.
ExecLoop(p, s, r) ==
    LET c == Eval("value", p, s.c, r)
        b == Eval("stmt", p, s.b, IF s.k = "do" THEN r ELSE c.r)
        n == [b EXCEPT !.sig = IF @ = "continue" THEN "" ELSE @]
        q == IF s.k = "for" /\ s.p # <<>> THEN Eval("value", p, s.p[1], n).r ELSE n
        d == Eval("value", p, s.c, n)
    IN CASE s.k # "do" /\ ~IsTrue(c.ty, c.v) -> c.r
         [] n.sig = "break" -> [n EXCEPT !.sig = ""]
         [] n.sig # "" -> n
         [] s.k = "do" -> IF IsTrue(d.ty, d.v) THEN ExecLoop(p, s, d.r) ELSE d.r
         [] OTHER -> ExecLoop(p, s, q)

Exec(p, s, r) ==
    LET Scoped(x) == [x EXCEPT !.env = r.env] IN
    CASE s.k = "decl" -> IF s.spec = <<"static">> THEN Bind(r, s.name, s.ty, r.globals[s.name].o) ELSE Eval("decl", p, s, r)
      [] s.k = "expr" -> Eval("value", p, s.e, r).r
      [] s.k = "block" -> Scoped(Eval("list", p, <<s.ss, 1>>, r))
      [] s.k = "if" -> LET c == Eval("value", p, s.c, r)
                       IN IF IsTrue(c.ty, c.v) THEN Eval("stmt", p, s.a, c.r) ELSE IF s.b = <<>> THEN c.r ELSE Eval("stmt", p, s.b[1], c.r)
      [] s.k \in {"while", "do"} -> ExecLoop(p, s, r)
      [] s.k = "for" -> Scoped(ExecLoop(p, s, Eval("list", p, <<s.i, 1>>, r)))
      [] s.k = "switch" ->
            LET e == Eval("value", p, s.e, r)
                at == SelectInSeq(s.ss, LAMBDA x: x.k = "case" /\ x.v = e.v)
                df == SelectInSeq(s.ss, LAMBDA x: x.k = "default")
                x == IF at > 0 \/ df > 0 THEN Eval("list", p, <<s.ss, IF at > 0 THEN at ELSE df>>, e.r) ELSE e.r
            IN Scoped([x EXCEPT !.sig = IF @ = "break" THEN "" ELSE @])
      [] s.k = "return" -> IF s.e = <<>> THEN [r EXCEPT !.sig = "return"]
                           ELSE LET a == Eval("value", p, s.e[1], r) IN [a.r EXCEPT !.sig = "return", !.rv = ConvertTo(r.ret, a.ty, a.v)]
      [] s.k \in {"break", "continue"} -> [r EXCEPT !.sig = s.k]
      [] s.k = "goto" -> [r EXCEPT !.sig = "goto", !.to = s.name]
      [] OTHER -> r

Eval(what, p, x, r) ==
    CASE what = "value" -> RV(p, x, r)
      [] what = "place" -> LV(p, x, r)
      [] what = "call"  -> CallV(p, x, r)
      [] what = "decl"  -> DeclareV(p, x, r)
      [] what = "stmt"  -> Exec(p, x, r)
      [] OTHER          -> ExecList(p, x[1], x[2], r)

\* What the program does: its calls, ending with the exit code of main.
Meaning(p) ==
    LET r0 == [store |-> <<>>, env |-> <<>>, globals |-> <<>>, out |-> <<>>, sig |-> "", to |-> "", rv |-> 0, va |-> <<>>, ret |-> type_int]
        Started(r) == [r EXCEPT !.globals = r.env]
        Ending(x) == Append(x.r.out, <<6, ToWord(x.v)>>)
    IN Ending(Eval("call", p, Call(Var("main"), <<>>), Started(FoldLeft(LAMBDA r, d: Eval("decl", p, d, r), r0, p.globals))))

---------------------------------------------------------------------------
(* Writing a program as tokens.                                            *)

Tok(k) == [k |-> k, v |-> ""]
TokV(k, v) == [k |-> k, v |-> v]
Id(x) == TokV("id", x)
Toks(ks) == [i \in DOMAIN ks |-> Tok(ks[i])]

UnType(t) == CASE is_ptr(t) -> <<>>
               [] is_record(t) -> << Tok(t.k), Id("S" \o ToString(t.sd)) >>
               [] OTHER -> (IF t.u /\ t.k # "bool" THEN <<Tok("unsigned")>> ELSE <<>>) \o <<Tok(t.k)>>
RECURSIVE Stars(_), Root(_), UnE(_, _), UnS(_, _), UnInit(_)
Stars(t) == IF is_ptr(t) THEN Append(Stars(Base(t)), Tok("*")) ELSE <<>>
Root(t) == IF is_ptr(t) \/ is_array(t) THEN Root(Base(t)) ELSE t
TypeName(t) == UnType(Root(t)) \o Stars(t)

\* A declarator: the stars, the name and the dimensions from the outermost.
RECURSIVE Dims(_)
Dims(t) == IF is_array(t) THEN <<Tok("[")>> \o (IF t.len = 0 THEN <<>> ELSE <<TokV("num", t.len)>>) \o <<Tok("]")>> \o Dims(Base(t)) ELSE <<>>
RECURSIVE Elt(_)
Elt(t) == IF is_array(t) THEN Elt(Base(t)) ELSE t
UnDecl(t, x) == UnType(Root(t)) \o Stars(Elt(t)) \o <<Id(x)>> \o Dims(t)

LevelOf(op) == CHOOSE l \in DOMAIN Levels : op \in Levels[l]
Paren(ts, b) == IF b THEN <<Tok("(")>> \o ts \o <<Tok(")")>> ELSE ts
CommaSep(parts) == IF parts = <<>> THEN <<>>
                   ELSE FoldLeft(LAMBDA a, x: a \o <<Tok(",")>> \o x, parts[1], Tail(parts))

\* Tokens of e where the context binds as tightly as level c: 0 unary, 11 ?:, 12 assignment.
UnE(e, c) ==
    CASE e.k \in {"num", "fnum", "str"} -> IF e.k = "num" /\ e.v < 0 THEN Paren(<<Tok("-"), TokV("num", -e.v)>>, TRUE) ELSE <<TokV(e.k, e.v)>>
      [] e.k = "var" -> <<Id(e.name)>>
      [] e.k = "bin" -> LET l == LevelOf(e.op) IN Paren(UnE(e.l, l) \o <<Tok(e.op)>> \o UnE(e.r, l - 1), c < l)
      [] e.k = "un" -> Paren(<<Tok(e.op)>> \o UnE(e.l, 0), c < 0)
      [] e.k \in {"addr", "deref"} -> Paren(<<Tok(IF e.k = "addr" THEN "&" ELSE "*")>> \o UnE(e.l, 0), c < 0)
      [] e.k = "pre" -> Paren(<<Tok(e.op \o e.op)>> \o UnE(e.l, 0), c < 0)
      [] e.k = "post" -> UnE(e.l, -1) \o <<Tok(e.op \o e.op)>>
      [] e.k = "cast" -> Paren(Paren(TypeName(e.ty), TRUE) \o UnE(e.l, 0), c < 0)
      [] e.k = "sizet" -> <<Tok("sizeof")>> \o Paren(TypeName(e.ty), TRUE)
      [] e.k = "sizee" -> <<Tok("sizeof")>> \o UnE(e.l, 0)
      [] e.k = "index" -> UnE(e.l, -1) \o <<Tok("[")>> \o UnE(e.r, 12) \o <<Tok("]")>>
      [] e.k = "member" -> UnE(e.l, -1) \o <<Tok(e.op), Id(e.name)>>
      [] e.k = "call" -> UnE(e.callee, -1) \o Paren(CommaSep([i \in DOMAIN e.args |-> UnE(e.args[i], 12)]), TRUE)
      [] e.k = "vaarg" -> <<Id("va_arg")>> \o Paren(UnE(e.l, 12) \o <<Tok(",")>> \o TypeName(e.ty), TRUE)
      [] e.k = "tern" -> Paren(UnE(e.c, 10) \o <<Tok("?")>> \o UnE(e.l, 12) \o <<Tok(":")>> \o UnE(e.r, 11), c < 11)
      [] e.k = "assign" -> Paren(UnE(e.l, 0) \o <<Tok("=")>> \o UnE(e.r, 12), c < 12)
      [] OTHER -> Paren(UnE(e.l, 0) \o <<TokV("op=", e.op)>> \o UnE(e.r, 12), c < 12)

UnInit(e) == IF e.k = "init" THEN <<Tok("{")>> \o CommaSep([i \in DOMAIN e.es |-> UnInit(e.es[i])]) \o <<Tok("}")>> ELSE UnE(e, 12)

UnList(p, ss) == FlattenSeq([i \in DOMAIN ss |-> UnS(p, ss[i])])
Semi == <<Tok(";")>>
UnS(p, s) ==
    CASE s.k = "decl" -> Toks(s.spec) \o UnDecl(s.ty, s.name) \o (IF s.init = <<>> THEN <<>> ELSE <<Tok("=")>> \o UnInit(s.init[1])) \o Semi
      [] s.k = "expr" -> UnE(s.e, 12) \o Semi
      [] s.k = "block" -> <<Tok("{")>> \o UnList(p, s.ss) \o <<Tok("}")>>
      [] s.k = "if" -> <<Tok("if")>> \o Paren(UnE(s.c, 12), TRUE) \o UnS(p, s.a) \o (IF s.b = <<>> THEN <<>> ELSE <<Tok("else")>> \o UnS(p, s.b[1]))
      [] s.k = "while" -> <<Tok("while")>> \o Paren(UnE(s.c, 12), TRUE) \o UnS(p, s.b)
      [] s.k = "do" -> <<Tok("do")>> \o UnS(p, s.b) \o <<Tok("while")>> \o Paren(UnE(s.c, 12), TRUE) \o Semi
      [] s.k = "for" -> <<Tok("for"), Tok("(")>> \o (IF s.i = <<>> THEN Semi ELSE UnList(p, s.i)) \o UnE(s.c, 12) \o Semi
                        \o (IF s.p = <<>> THEN <<>> ELSE UnE(s.p[1], 12)) \o <<Tok(")")>> \o UnS(p, s.b)
      [] s.k = "switch" -> <<Tok("switch")>> \o Paren(UnE(s.e, 12), TRUE) \o <<Tok("{")>> \o UnList(p, s.ss) \o <<Tok("}")>>
      [] s.k = "case" -> <<Tok("case")>> \o UnE(Num(s.v), 10) \o <<Tok(":")>>
      [] s.k = "default" -> Toks(<<"default", ":">>)
      [] s.k = "return" -> <<Tok("return")>> \o (IF s.e = <<>> THEN <<>> ELSE UnE(s.e[1], 12)) \o Semi
      [] s.k = "goto" -> <<Tok("goto"), Id(s.name)>> \o Semi
      [] s.k = "label" -> <<Id(s.name), Tok(":")>>
      [] OTHER -> <<Tok(s.k)>> \o Semi

UnStruct(p, i) == <<Tok("struct"), Id("S" \o ToString(i)), Tok("{")>>
                  \o FlattenSeq([f \in DOMAIN p.structs[i] |-> UnDecl(p.structs[i][f][2], p.structs[i][f][1]) \o Semi]) \o Toks(<<"}", ";">>)
UnFun(p, f) == UnDecl(f.ret, f.name) \o Paren(CommaSep([i \in DOMAIN f.ps |-> UnDecl(f.ps[i][2], f.ps[i][1])]
                                                       \o (IF f.va THEN << <<Tok("...")>> >> ELSE <<>>)), TRUE) \o UnS(p, Block(f.body))

\* A static local is a global of the reference: it is written where it is declared.
Unparse(p) == FlattenSeq([i \in DOMAIN p.structs |-> UnStruct(p, i)])
              \o UnList(p, SelectSeq(p.globals, LAMBDA d: d.spec # <<"hidden">>))
              \o FlattenSeq([i \in DOMAIN p.funs |-> UnFun(p, p.funs[i])]) \o <<Tok("eof")>>

---------------------------------------------------------------------------
(* The compiler reads the source, then the processor runs what it emitted. *)

Idle == [halted |-> FALSE, steps |-> 0]

CompileSource ==
    /\ cc.toks = <<>>
    /\ cc' = [compile(IF src.text = <<>> THEN Unparse(src.prog) ELSE src.text) EXCEPT !.toks = <<Tok("eof")>>]
    /\ m' = Boot(cc')
    /\ UNCHANGED src

RunInstruction ==
    /\ cc.toks # <<>>
    /\ ~m.halted
    /\ m.steps < MAX_STEPS
    /\ m' = [Step(m, cc) EXCEPT !.steps = @ + 1]
    /\ UNCHANGED <<src, cc>>

\* The program has ended or run too long, or the compiler refused it.
Stopped == m.halted \/ m.steps = MAX_STEPS
Ended == Stopped /\ UNCHANGED mvars

CCInit(programs) ==
    /\ src \in programs
    /\ cc = CompilerStart(<<>>)
    /\ m = Idle

CCNext == CompileSource \/ RunInstruction \/ Ended

\* A program the compiler accepts ends, and makes the calls and returns the
\* exit code that C gives it: parser, code generator, labels and layout together.
CompiledMeansC == (src.ok /\ Stopped) => m.halted /\ m.out = Meaning(src.prog)

\* A program that C or this compiler's own rules exclude is refused, and no
\* program outside them is.
IllFormedRefused == (cc.toks # <<>>) => (cc.err = ~src.ok)

\* Between two statements the machine stack holds the frame and nothing else:
\* every expression leaves one word and every statement takes it off, on the
\* jumping paths of && || ?: too.
FrameBetweenStatements ==
    (cc.toks # <<>> /\ m.pc \in DOMAIN cc.code /\ cc.code[m.pc] = <<"stmt">>) =>
        LET f == SelectLastInSubSeq(cc.code, 1, m.pc, LAMBDA i: i[1] = "enter")
        IN m.r["esp"] = ToWord(m.r["ebp"] - cc.code[f][2])

=============================================================================
