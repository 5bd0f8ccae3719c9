----------------------------- MODULE MCCompiler -----------------------------
(***************************************************************************)
(* Source programs for the compiler: every binary operator between every   *)
(* two arithmetic types, every pair of operators in both nestings, and     *)
(* programs for statements, pointers, records, calls and initialisers.     *)
(***************************************************************************)
EXTENDS CReference

x == Var("x")
y == Var("y")
z == Var("z")
i == Var("i")
a == Var("a")
pp == Var("p")

MainOf(ss) == Fun(type_int, "main", <<>>, FALSE, ss)
Ok(p) == [ok |-> TRUE, prog |-> p, text |-> <<>>]
Bad(p) == [ok |-> FALSE, prog |-> p, text |-> <<>>]
Main(ss) == Ok(Prog(<<>>, <<>>, <<MainOf(ss)>>))
BadMain(ss) == Bad(Prog(<<>>, <<>>, <<MainOf(ss)>>))

ArithOps == UNION {Levels[l] : l \in 1..10}
IntOnly == {"%", "<<", ">>", "&", "|", "^"}
ValuesOf(t) == CASE t.k = "float" -> {3, -4} [] t = type_uint -> {250, 3} [] t.k = "char" -> {-2, 1}
                 [] OTHER -> {-7, 3}
OpTypes == {type_int, type_uint, type_char, type_short, type_float}
Lit(t, v) == IF is_float(t) THEN (IF v < 0 THEN Un("-", FNum(-v)) ELSE FNum(v)) ELSE Cast(t, Num(ToInt(v)))

\* int main() { T x = v; U y = w; return (int)(x op y); }  An unsigned above
\* the largest int does not meet a float: see the README.
TwoTypes ==
    {Main(<< Decl(t, "x", Lit(t, v)), Decl(u, "y", Lit(u, w)), Ret(Cast(type_int, Bin(op, x, y))) >>) :
        <<t, u, op, v, w>> \in
          {q \in {<<t, u, op, v, w>> : t \in OpTypes, u \in OpTypes, op \in ArithOps, v \in {-7, -4, -2, 1, 3, 250}, w \in {-7, -4, -2, 1, 3, 250}} :
              /\ q[4] \in ValuesOf(q[1]) /\ q[5] \in ValuesOf(q[2])
              /\ 250 \in {q[4], q[5]} => ~is_float(q[1]) /\ ~is_float(q[2])
              /\ q[3] \in IntOnly => ~is_float(q[1]) /\ ~is_float(q[2])
              /\ q[3] \in {"<<", ">>"} => q[5] \in 1..3 /\ ~q[2].u}}

\* return v op1 w op2 u, grouped either way.
Groupings ==
    {Main(<< Decl(type_int, "x", Num(5)), Ret(IF left THEN Bin(o2, Bin(o1, x, Num(2)), Num(3)) ELSE Bin(o1, x, Bin(o2, Num(2), Num(3)))) >>) :
        <<o1, o2, left>> \in {q \in ArithOps \X ArithOps \X BOOLEAN :
             /\ ~(~q[3] /\ q[1] \in {"/", "%"} /\ q[2] \in {"/", "<", "<=", ">", ">=", "==", "!=", "&&", "||", "&", "-", ">>"})
             /\ ~(~q[3] /\ q[1] \in {"<<", ">>"})}}

Add(b, c) == Bin("+", b, c)
N(v) == Num(v)
S1 == type_record("struct", 1)
S2 == type_record("struct", 2)
IntP == type_ptr(type_int)
Note(e) == Ex(Call(Var("sys_sleep"), <<e>>))
TwoFuns(ss, f) == Ok(Prog(<<>>, <<>>, <<f, MainOf(ss)>>))

\* Statements: loops with break and continue through a switch, goto, scopes.
Statements == {
    Main(<< Decl(type_int, "x", N(0)),
            For(<<Decl(type_int, "i", N(0))>>, Bin("<", i, N(5)), <<Post("+", i)>>,
                Switch(i, << CaseL(1), Continue, CaseL(3), Ex(OpAs("+", x, N(9))), CaseL(0), Ex(OpAs("+", x, N(2))), Break,
                             DefaultL, Ex(OpAs("-", x, N(1))) >>)),
            Ret(x) >>),
    Main(<< Decl(type_int, "x", N(3)), DoW(Block(<< IfS(Bin("==", x, N(2)), Block(<<Ex(Pre("-", x)), Continue>>)), Ex(Post("-", x)) >>), Bin(">", x, N(0))),
            Ret(x) >>),
    Main(<< Decl(type_int, "x", N(0)), While(N(1), Block(<< IfE(Bin("&&", Bin(">", x, N(3)), Un("!", Bin("&", x, N(1)))), Break, Ex(Pre("+", x))) >>)), Ret(x) >>),
    Main(<< Decl(type_int, "x", N(1)), Label("top"), Ex(OpAs("+", x, x)), IfS(Bin(">", x, N(20)), Goto("out")), Goto("top"),
            Label("out"), Ret(x) >>),
    Main(<< Decl(type_int, "x", N(1)), Block(<< Decl(type_int, "x", N(2)), Note(x), For(<<Decl(type_int, "x", N(4))>>, Bin("<", x, N(6)), <<Pre("+", x)>>, Note(x)) >>),
            Note(x), Ret(x) >>),
    Main(<< Decl(type_int, "x", N(2)),
            While(Bin(">", x, N(0)), Block(<< Decl(type_int, "y", N(3)), While(N(1), Block(<< IfS(Bin("==", Post("-", y), N(0)), Break), Note(y) >>)), Ex(Post("-", x)) >>)),
            Switch(x, << DefaultL, Note(N(7)), CaseL(5), Note(N(8)), Break, CaseL(0), Note(N(9)) >>), Ret(x) >>)
    }

\* Short circuits and conditionals nested in one another.
Logic == {Main(<< Decl(type_int, "x", N(v)), Decl(type_int, "y", N(w)),
                  Ex(Asg(x, Bin(o1, Bin(o2, Bin(">", Post("+", x), N(0)), Asg(y, Add(y, N(1)))), Tern(Bin("||", y, x), N(0), N(5))))),
                  IfE(Bin(o2, Bin(o1, Un("!", x), y), x), Note(x), Note(y)), Ret(Add(x, Bin("*", y, N(8)))) >>) :
            <<v, w, o1, o2>> \in {-1, 0, 1} \X {-1, 0} \X {"&&", "||"} \X {"&&", "||"}}

\* Pointers, arrays, records, calls and initialisers.
Objects == {
    Main(<< Decl(type_array(type_int, 0), "a", InitL(<<N(4), N(5), N(6)>>)), Decl(IntP, "p", Add(a, N(1))),
            Ex(OpAs("+", Deref(pp), N(3))), Ex(Post("+", pp)), Ex(Asg(Index(a, N(0)), Bin("-", pp, a))),
            Ret(Add(Add(Index(a, N(0)), Bin("*", Index(a, N(1)), N(3))), Index(pp, Un("-", N(1))))) >>),
    Main(<< Decl(type_array(type_char, 4), "a", Str(<<1, 1>>)), Decl(type_ptr(type_char), "p", a), Decl(type_int, "x", N(0)),
            While(Deref(Post("+", pp)), Ex(Pre("+", x))), Ret(Add(x, Bin("*", N(4), SizeE(a)))) >>),
    Ok(Prog(<< << <<"c", type_char>>, <<"s", type_short>>, <<"v", type_array(type_int, 2)>> >>, << <<"t", S1>>, <<"d", type_uchar>> >> >>,
            << Decl(S2, "g", InitL(<< InitL(<<N(1), N(2), InitL(<<N(3)>>)>>), N(2) >>)), DeclAs(<<>>, IntP, "q", <<>>), Decl(type_char, "h", N(-2)) >>,
            << Fun(type_int, "sum", << <<"t", S1>>, <<"p", type_ptr(S1)>> >>, FALSE,
                   << Ex(OpAs("+", Member(".", Var("t"), "s"), N(1))), Ex(Asg(Index(Member("->", pp, "v"), N(1)), Member(".", Var("t"), "s"))),
                      Ret(Add(Member(".", Var("t"), "s"), Index(Member(".", Var("t"), "v"), N(0)))) >>),
               MainOf(<< Decl(S2, "x", Var("g")), Ex(Asg(Var("q"), Addr(Index(Member(".", Member(".", x, "t"), "v"), N(1))))), Ex(Asg(Deref(Var("q")), N(9))),
                         Note(Index(Member(".", Member(".", x, "t"), "v"), N(1))),
                         Note(Call(Var("sum"), << Member(".", x, "t"), Addr(Member(".", x, "t")) >>)), Note(Deref(Var("q"))),
                         Note(Add(Member(".", x, "d"), Member(".", Member(".", x, "t"), "c"))), Ret(Add(SizeT(S2), Var("h"))) >>) >>)),
    TwoFuns(<< Ret(Call(Var("f"), <<N(4)>>)) >>,
            Fun(type_int, "f", << <<"x", type_int>> >>, FALSE,
                << IfS(Bin("<=", x, N(1)), Ret(x)), Ret(Add(Call(Var("f"), <<Bin("-", x, N(1))>>), Call(Var("f"), <<Bin("-", x, N(2))>>))) >>)),
    TwoFuns(<< Decl(type_ptr(type_void), "p", Var("f")), Decl(type_float, "x", Call(Var("f"), <<N(3), FNum(3)>>)),
               Ret(Cast(type_int, Bin("*", x, FNum(4)))) >>,
            Fun(type_float, "f", << <<"x", type_float>>, <<"y", type_int>> >>, FALSE, << Ret(Bin("/", x, Cast(type_float, Add(y, N(1))))) >>)),
    TwoFuns(<< Decl(type_ptr(type_void), "p", Var("f")), Ret(Call(pp, <<N(3), N(2)>>)) >>,
            Fun(type_int, "f", << <<"x", type_int>>, <<"y", type_int>> >>, FALSE, << Ret(Bin("-", x, y)) >>)),
    TwoFuns(<< Ret(Call(Var("f"), <<N(3), N(5), N(7), N(9)>>)) >>,
            Fun(type_int, "f", << <<"x", type_int>> >>, TRUE,
                << Decl0(type_ptr(type_char), "p"), Decl(type_int, "y", N(0)), Ex(Call(Var("va_start"), <<pp, x>>)),
                   While(Bin(">", Post("-", x), N(0)), Ex(Asg(y, Bin("-", Bin("*", y, N(2)), VaArg(pp, type_int))))), Ex(Call(Var("va_end"), <<pp>>)), Ret(y) >>)),
    Ok(Prog(<<>>, << DeclAs(<<"hidden">>, type_int, "n", <<N(3)>>) >>,
            << Fun(type_int, "f", <<>>, FALSE, << DeclAs(<<"static">>, type_int, "n", <<N(3)>>), Ret(Post("+", Var("n"))) >>),
               MainOf(<< Ex(Call(Var("f"), <<>>)), Note(Call(Var("f"), <<>>)), Ret(Call(Var("f"), <<>>)) >>) >>)),
    Main(<< Decl(type_array(type_array(type_short, 3), 2), "a", InitL(<< InitL(<<N(1), N(2), N(3)>>), InitL(<<N(4)>>) >>)),
            Ret(Add(Bin("*", Index(Index(a, N(0)), N(2)), N(10)), Add(Index(Index(a, N(1)), N(0)), Index(Index(a, N(1)), N(2))))) >>),
    Main(<< Decl(type_bool, "x", FNum(3)), Decl(type_float, "y", x), Ex(OpAs("+", y, FNum(1))), Ret(Bin("<", FNum(1), y)) >>),
    Main(<< Decl(type_int, "x", N(1)), Ex(Call(Var("sys_io_out"), <<N(5), Tern(x, N(2), N(3)), Un("~", x)>>)), Ret(SizeT(type_ptr(type_char))) >>)
    }

\* Programs written as tokens, with what they return.
Keywords == {"int", "char", "bool", "void", "unsigned", "typedef", "struct", "union", "enum", "extern", "static", "const",
             "register", "sizeof", "return", "for", "if", "break", "(", ")", "{", "}", "[", "]", ";", ",", "=", "+", "-", "*",
             "&", ">", ".", "->", "++", "...", "?", ":"}
Digits == [d \in {"0", "1", "2", "3", "5", "9"} |-> CHOOSE n \in 0..9 : ToString(n) = d]
Word(w) == IF w \in Keywords THEN Tok(w) ELSE IF w \in DOMAIN Digits THEN TokV("num", Digits[w]) ELSE Id(w)
Words(ws) == [k \in DOMAIN ws |-> Word(ws[k])]
Returns(v, toks) == [ok |-> TRUE, prog |-> Prog(<<>>, <<>>, <<MainOf(<<Ret(N(v))>>)>>), text |-> toks \o <<Tok("eof")>>]

Written == {
    \* typedef, enum, union, extern and a prototype before the definitions.
    Returns(12, Words(<< "typedef", "unsigned", "char", "T", ";", "enum", "E", "{", "A", ",", "B", "=", "5", ",", "C", ",", "}", ";",
                         "typedef", "struct", "R", "{", "T", "c", ";", "int", "v", ";", "}", "P", ";", "union", "U", "{", "char", "c", ";", "int", "v", ";", "}", ";",
                         "extern", "int", "g", ";", "int", "f", "(", "int", "x", ")", ";", "int", "g", "=", "-", "3", ";",
                         "int", "main", "(", "void", ")", "{", "P", "p", ";", "union", "U", "u", ";", "register", "int", "x", "=", "C", ";",
                         "u", ".", "v", "=", "0", ";", "u", ".", "c", "=", "1", ";", "p", ".", "c", "=", "(", "T", ")", "A", ";", "p", ".", "v", "=", "u", ".", "v", "+", "x", ";",
                         "return", "p", ".", "v", "+", "sizeof", "(", "union", "U", ")", "+", "g", "+", "f", "(", "2", "-", "p", ".", "c", ")", ";", "}",
                         "int", "f", "(", "const", "int", "x", ")", "{", "return", "x", "*", "2", ";", "}" >>)),
    \* Several declarators, a function pointer, strings in globals, folded constants.
    Returns(16, Words(<< "int", "f", "(", "int", "x", ")", "{", "return", "x", "+", "1", ";", "}", "static", "int", "t", "=", "2", "+", "3", "*", "2", ";",
                         "char", "s", "[", "]", "=" >>) \o <<TokV("str", <<1, 1>>)>> \o
                Words(<< ",", "*", "m", "=" >>) \o <<TokV("str", <<1>>)>> \o
                Words(<< ";", "int", "main", "(", ")", "{", "int", "a", "=", "1", ",", "*", "b", "=", "&", "a", ",", "c", "[", "1", "+", "1", "]", ";",
                         "int", "(", "*", "fp", ")", "(", "int", "x", ")", ";", "fp", "=", "f", ";",
                         "for", "(", ";", ";", ")", "{", "if", "(", "fp", "(", "*", "b", ")", ">", "3", ")", "break", ";", "++", "*", "b", ";", "}",
                         "c", "[", "1", "]", "=", "sizeof", "s", ";", "return", "a", "+", "t", "+", "c", "[", "1", "]", "+", "s", "[", "1", "]", "+", "*", "m", ";", "}" >>))
    }

\* Outside the language, one for each kind of mistake: a jump out of no loop
\* or to no label, an unknown name, an assignment to a value, a constant
\* division by 0, operands of the wrong type, a name or label defined twice,
\* a call with too few arguments, a record returned, a typedef of no name.
Refused == {
    BadMain(<< Break >>), BadMain(<< Switch(N(1), <<CaseL(1), Continue>>) >>), BadMain(<< Goto("nowhere") >>),
    BadMain(<< Ret(x) >>), BadMain(<< Ex(Asg(N(1), N(2))) >>), BadMain(<< Ret(Bin("/", N(1), N(0))) >>),
    BadMain(<< Decl(type_float, "x", FNum(2)), Ret(Bin("&", x, N(1))) >>), BadMain(<< Decl(type_int, "x", N(1)), Ret(Deref(x)) >>),
    BadMain(<< Label("l"), Ex(N(1)), Label("l"), Ex(N(1)) >>),
    Bad(Prog(<<>>, << Decl0(type_int, "g"), Decl0(type_int, "g") >>, <<MainOf(<<Ret(N(0))>>)>>)),
    Bad(Prog(<<>>, <<>>, << Fun(type_int, "f", << <<"x", type_int>> >>, FALSE, <<Ret(x)>>), MainOf(<< Ret(Call(Var("f"), <<>>)) >>) >>)),
    Bad(Prog(<< << <<"c", type_int>> >> >>, <<>>, << Fun(S1, "f", <<>>, FALSE, <<Ret0>>), MainOf(<<Ret(N(0))>>) >>)),
    [BadMain(<<>>) EXCEPT !.text = Words(<< "typedef", "int", ";", "int", "main", "(", ")", "{", "return", "0", ";", "}" >>) \o <<Tok("eof")>>],
    [BadMain(<<>>) EXCEPT !.text = Words(<< "int", "main", "(", ")", "{", "return", "sizeof", "(", "x", "+", "1", ")", ";", "}" >>) \o <<Tok("eof")>>]
    }

CompilerInit == CCInit(TwoTypes \cup Groupings \cup Statements \cup Logic \cup Objects \cup Written \cup Refused)
CompilerSpec == CompilerInit /\ [][CCNext]_mvars

\* The truth of a float: if, while, !, && and conversion to bool.
FloatTruth == {Main(<< Decl(type_float, "x", FNum(v)), Ret(e) >>) :
                 v \in {0, 3}, e \in {Tern(x, N(1), N(2)), Un("!", x), Bin("&&", x, N(1)), Cast(type_bool, x)}}
FloatTruthSpec == CCInit(FloatTruth) /\ [][CCNext]_mvars
=============================================================================
