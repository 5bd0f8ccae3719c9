----------------------------- MODULE CCProgram -----------------------------
(***************************************************************************)
(* Declarations, statements, functions and globals of src/user/cc.c, and   *)
(* the translation of one source: compile(toks).  The marker <<"stmt">>    *)
(* in s.code is the model's own: it emits nothing and shows where an       *)
(* expression statement ends.                                              *)
(***************************************************************************)
EXTENDS CCGen

\* Do(what, s, a): what the functions below have done for them.
RECURSIVE Do(_, _, _)
Read(what, s)       == Do(what, s, <<>>)            \* parse_expr and its like
Value(s, n)         == Do("value", s, n)            \* gen_expr
JumpUnless(s, n, l) == Do("jump", s, <<n, l>>)      \* gen_cond
Statement(s)        == Do("stmt", s, <<>>)          \* gen_stmt

---------------------------------------------------------------------------
(* Locals and globals.                                                     *)

Sym(name, ty, off, alias) == [name |-> name, ty |-> ty, off |-> off, alias |-> alias]

\* Slots grow downwards from ebp and are never reused.
add_local(s, name, ty) ==
    LET a   == IF type_align(s, ty) < 4 THEN 4 ELSE type_align(s, ty)
        off == -align_to(type_size(s, ty) - s.loff, a)
    IN [s EXCEPT !.loff = off, !.locals = Append(@, Sym(name, ty, off, 0))]

add_local_alias(s, name, ty, g) == [s EXCEPT !.locals = Append(@, Sym(name, ty, 0, g))]

\* data_seg keeps what was written past data_len; the next object clears its own part.
Zeros(n) == IF n <= 0 THEN <<>> ELSE [i \in 1..n |-> 0]
FirstBytes(v, n) == SubSeq(v, 1, IF Len(v) < n THEN Len(v) ELSE n)
PutData(s, off, bytes) ==
    LET end == off + Len(bytes)
        old == s.data \o Zeros(end - Len(s.data))
    IN [s EXCEPT !.data = SubSeq(old, 1, off) \o bytes \o SubSeq(old, end + 1, Len(old))]

SetGlobal(s, name, ty, off, sec) ==
    LET g == [name |-> name, ty |-> ty, off |-> off, alias |-> 0, sec |-> sec]
        i == find_global(s, name)
    IN IF i > 0 THEN [s EXCEPT !.globals[i] = g] ELSE [s EXCEPT !.globals = Append(@, g)]

\* add_global_data and define_global_data_existing.
add_global_data(s, name, ty) ==
    LET off == align_to(s.dlen, type_align(s, ty))
        end == off + type_size(s, ty)
    IN [SetGlobal(PutData(s, s.dlen, Zeros(end - s.dlen)), name, ty, off, "data") EXCEPT !.dlen = end]

\* add_global_bss and define_global_bss_existing.
add_global_bss(s, name, ty) ==
    LET off == align_to(s.bss, type_align(s, ty))
    IN [SetGlobal(s, name, ty, off, "bss") EXCEPT !.bss = off + type_size(s, ty)]

add_global_decl(s, name, ty) ==
    IF find_global(s, name) > 0 THEN s ELSE SetGlobal(s, name, ty, 0, "extern")

WordBytes(v) == [b \in 1..4 |-> (ToWord(v) \div BMOD ^ (b - 1)) % BMOD]

add_typedef(s, name, ty) ==
    LET i == Found(s.typedefs, name)
    IN IF i > 0 THEN [s EXCEPT !.typedefs[i].ty = ty]
       ELSE [s EXCEPT !.typedefs = Append(@, [name |-> name, ty |-> ty])]

---------------------------------------------------------------------------
(* Braced initialisers: a list of items (offset, type, expression).        *)

RECURSIVE parse_braced(_, _, _), parse_braced_rest(_, _, _, _), parse_storage_spec(_)

note_span(s, end) == [s EXCEPT !.span = IF end > @ THEN end ELSE @]

parse_init_item(s, ty, off) ==
    IF Tk(s) = "{" THEN parse_braced(s, ty, off)
    ELSE LET e == Read("expr", s)
         IN note_span([e EXCEPT !.items = Append(@, [off |-> off, ty |-> ty, e |-> e.n])], off + type_size(s, ty))

\* The i-th element of the array or field of the record, and what follows it.
parse_braced_rest(s, ty, base, i) ==
    LET sd  == s.structs[ty.sd]
        x   == IF is_array(ty) THEN parse_init_item(s, Base(ty), base + (i - 1) * type_size(s, Base(ty)))
               ELSE parse_init_item(s, sd.fields[i].ty, base + sd.fields[i].off)
        end == IF is_array(ty) /\ ty.len = 0 THEN 0 ELSE base + type_size(s, ty)
    IN CASE s.err \/ (is_record(ty) /\ i > Len(sd.fields)) -> Err(s)
         [] Tk(x) = "," /\ Tk(Next1(x)) # "}" -> parse_braced_rest(Next1(x), ty, base, i + 1)
         [] OTHER -> note_span(expect(IF Tk(x) = "," THEN Next1(x) ELSE x, "}"), end)

parse_braced(s, ty, base) ==
    LET x == Next1(s)
    IN CASE Tk(x) = "}" -> note_span(Next1(x), base + type_size(s, ty))
         [] is_array(ty) \/ is_record(ty) -> parse_braced_rest(x, ty, base, 1)
         [] OTHER -> expect(parse_init_item(x, ty, base), "}")

\* "[]" takes its length from what the list covers.
parse_init_for(s, ty) ==
    LET x   == parse_braced([s EXCEPT !.items = <<>>, !.span = 0], ty, 0)
        esz == type_size(s, Base(ty))
    IN IF is_array(ty) /\ ty.len = 0
       THEN [Check(x, esz > 0) EXCEPT !.ty = type_array(Base(ty), IF esz > 0 THEN (x.span + esz - 1) \div esz ELSE 0)]
       ELSE Typed(x, ty)

LastLocal(s) == s.locals[Len(s.locals)]

emit_zero_slot(s, size) == IF size <= 0 THEN s ELSE Emit(emit_load_addr(s, LastLocal(s)), << PopA, <<"zero", size>> >>)

emit_local_init_items(s) ==
    LET Item(x, it) ==
          LET a == emit_load_addr(x, LastLocal(s))
              b == IF it.off # 0 THEN Emit(a, << PopA, <<"addi", it.off>>, PushA >>) ELSE a
              c == Value(b, it.e)
          IN Emit(c, ConvForStore(it.ty, c.ty) \o emit_store_to_addr(it.ty) \o << <<"addesp", 4>> >>)
    IN FoldLeft(Item, s, s.items)

emit_char_array_init(s, ty, str) ==
    Emit(emit_load_addr(s, LastLocal(s)),
         << PopA, <<"bytes", [i \in 1..type_size(s, ty) |-> IF i <= Len(str) THEN str[i] ELSE 0]>> >>)

store_global_init_items(s, off) ==
    LET Item(x, it) ==
          CASE it.e.k = "num" -> PutData(x, off + it.off, SubSeq(WordBytes(it.e.v), 1, type_size(x, it.ty)))
            [] it.e.k = "fnum" -> PutData(x, off + it.off, WordBytes(it.e.v))
            [] it.e.k = "str" -> [AddString(PutData(x, off + it.off, Zeros(4)), it.e.v)
                                   EXCEPT !.datafix = Append(@, <<off + it.off, Len(x.rodata)>>)]
            [] OTHER -> Err(x)
    IN FoldLeft(Item, s, s.items)

---------------------------------------------------------------------------
(* Declarations in a function.                                             *)

parse_storage_spec(s) ==
    IF Tk(s) \in {"typedef", "extern", "static", "register", "auto", "const", "volatile"}
    THEN parse_storage_spec([Next1(s) EXCEPT !.spec = @ \cup {Tk(s)}]) ELSE s

\* The global behind a static local.  Its name is made of the function's, the
\* local's and a digit, and cut at 31 characters; here it is always its own.
decl_static_local(s, name, ty) ==
    LET gname == "__st_" \o ToString(Len(s.globals))
        init == Tk(s) = "="
        x == Next1(s)
        e == Read("expr", x)
        g == IF init THEN add_global_data(IF is_array(ty) THEN x ELSE e, gname, ty) ELSE add_global_bss(s, gname, ty)
        off == g.globals[Len(g.globals)].off
        y == CASE ~init -> g
               [] is_array(ty) -> Check(Next1(PutData(g, off, FirstBytes(Val(x), type_size(s, ty)))),
                                        Base(ty).k = "char" /\ Tk(x) = "str")
               [] OTHER -> Check(PutData(g, off, WordBytes(e.n.v)), e.n.k \in {"num", "fnum"})
    IN add_local_alias(y, name, ty, Len(g.globals))

\* v: the address of the new local and its initial value are on the stack.
StoreLocal(v, ty) ==
    IF is_record(ty)
    THEN Emit(Check(v, is_record(v.ty) /\ type_size(v, v.ty) = type_size(v, ty)), << <<"copy", type_size(v, ty)>>, <<"addesp", 4>> >>)
    ELSE Emit(v, ConvForStore(ty, v.ty) \o emit_store_to_addr(ty) \o << <<"addesp", 4>> >>)

decl_local(s, name, ty) ==
    LET init == Tk(s) = "="
        x == IF init THEN Next1(s) ELSE s
        str == init /\ is_array(ty) /\ Base(ty).k = "char" /\ Tk(x) = "str"
        sty == IF ty.len = 0 THEN type_array(Base(ty), Len(Val(x)) + 1) ELSE ty
        Braced(b)  == emit_local_init_items(emit_zero_slot(add_local(b, name, b.ty), type_size(b, b.ty)))
        Valued(e)  == StoreLocal(Value(emit_load_addr(e, LastLocal(e)), e.n), ty)
    IN CASE str -> Next1(emit_char_array_init(add_local(x, name, sty), sty, Val(x)))
         [] init /\ Tk(x) = "{" -> Braced(parse_init_for(x, ty))
         [] ~init -> add_local(x, name, ty)
         [] is_array(ty) -> Err(x)
         [] OTHER -> Valued(Read("expr", add_local(x, name, ty)))

RECURSIVE parse_declarators(_, _), gen_block(_), gen_switch_body(_, _, _)

\* d: a declarator has been read, its storage class is in d.spec.
Declare(d) ==
    CASE d.err -> d
      [] "typedef" \in d.spec -> add_typedef(d, d.id, d.ty)
      [] "extern" \in d.spec -> add_global_decl(d, d.id, d.ty)
      [] "static" \in d.spec -> decl_static_local(d, d.id, d.ty)
      [] OTHER -> decl_local(d, d.id, d.ty)

parse_declarators(s, base) ==
    LET Next(x) == IF Tk(x) = "," THEN parse_declarators(Next1(x), base) ELSE expect(x, ";")
    IN Next(Declare(Read("declarator", Typed(s, base))))

parse_decl_stmt(s) ==
    LET t == Read("type_spec", parse_storage_spec([s EXCEPT !.spec = {}]))
    IN IF t.ty = no_type THEN Err(t) ELSE IF Tk(t) = ";" THEN Next1(t) ELSE parse_declarators(t, t.ty)

---------------------------------------------------------------------------
(* Statements.                                                             *)

ExprStmt(s, n) == Emit(Value(s, n), << <<"addesp", 4>>, <<"stmt">> >>)

\* Names declared in a block go out of scope at its end; their slots stay.
gen_block(s) == IF Tk(s) = "}" THEN Next1(s) ELSE IF s.err \/ Tk(s) = "eof" THEN Err(s) ELSE gen_block(Statement(s))

gen_return(s, has, e) ==
    LET a == Value(s, e)
        fl == (IF is_float(a.ty) THEN <<>> ELSE conv_stack_to_float(0)) \o << <<"fld", 0>>, <<"addesp", 4>> >>
        in == (CASE s.ret.k = "bool" -> emit_boolify(a.ty)
                 [] is_float(a.ty) -> conv_stack_to_int(0)
                 [] OTHER -> <<>>) \o <<PopA>>
    IN CASE ~has -> Emit(s, (IF s.ret = type_int THEN << <<"movi", "eax", 0>> >> ELSE <<>>) \o <<jmp(s.epi)>>)
         [] OTHER -> Emit(a, (IF is_float(s.ret) THEN fl ELSE in) \o <<jmp(s.epi)>>)

Enter(s, brk, cont) == [s EXCEPT !.brk = Append(@, [b |-> brk, c |-> cont])]
Leave(s) == [s EXCEPT !.brk = Front(@)]

gen_if(s) ==
    LET c  == expect(Read("expr", expect(s, "(")), ")")
        lf == Len(s.labels) + 1
        t  == Statement(JumpUnless(NewLabels(c, 2), c.n, lf))
        f  == set_label(Emit(t, <<jmp(lf + 1)>>), lf)
    IN set_label(IF Tk(f) = "else" THEN Statement(Next1(f)) ELSE f, lf + 1)

\* Labels: top, where continue goes, end, and the exit of the condition.
gen_do(s) ==
    LET l == Len(s.labels) + 1
        b == set_label(Leave(Statement(Enter(set_label(NewLabels(s, 3), l), l + 2, l + 1))), l + 1)
        c == Read("expr", expect(expect(b, "while"), "("))
        d == new_label(expect(expect(c, ")"), ";"))
        e == Emit(JumpUnless(d, c.n, Len(d.labels)), <<jmp(l)>>)
    IN set_label(set_label(e, Len(d.labels)), l + 2)

gen_while(s) ==
    LET l == Len(s.labels) + 1
        c == expect(Read("expr", expect(set_label(NewLabels(s, 2), l), "(")), ")")
        b == Leave(Statement(JumpUnless(Enter(c, l + 1, l), c.n, l + 1)))
    IN set_label(Emit(b, <<jmp(l)>>), l + 1)

\* The post expression is parsed before the body and generated after it.
ForLoop(p, test, post, l) ==
    LET h == set_label(NewLabels(expect(p, ")"), 3), l)
        t == IF test = <<>> THEN h ELSE JumpUnless(h, test[1], l + 1)
        b == set_label(Leave(Statement(Enter(t, l + 1, l + 2))), l + 2)
    IN set_label(Emit(IF post = <<>> THEN b ELSE ExprStmt(b, post[1]), <<jmp(l)>>), l + 1)

\* c: the state at the ";" after the test.
ForPost(c, test) ==
    LET p == Read("expr", expect(c, ";"))
    IN IF Tk(Next1(c)) = ")" THEN ForLoop(Next1(c), test, <<>>, Len(c.labels) + 1)
       ELSE ForLoop(p, test, <<p.n>>, Len(p.labels) + 1)

ForTest(i) == LET c == Read("expr", i) IN IF Tk(i) = ";" THEN ForPost(i, <<>>) ELSE ForPost(c, <<c.n>>)

ForInit(s) ==
    CASE Tk(s) = ";" -> Next1(s)
      [] is_type_start(s) -> parse_decl_stmt(s)
      [] OTHER -> LET e == Read("expr", s) IN ExprStmt(expect(e, ";"), e.n)

gen_for(s) == [ForTest(ForInit(expect(s, "("))) EXCEPT !.locals = SubSeq(@, 1, Len(s.locals))]

\* The body up to "}", with the cases met so far.
gen_switch_body(s, cases, dflt) ==
    LET e == Read("cond", Next1(s))
        v == eval_const(e.n)
        l == Len(s.labels) + 1
    IN CASE s.err \/ Tk(s) = "eof" -> Err(s)
         [] Tk(s) = "}" -> [Next1(s) EXCEPT !.cases = cases, !.dflt = dflt]
         [] Tk(s) = "case" -> gen_switch_body(set_label(new_label(expect(Check(e, v.ok), ":")), l), Append(cases, <<v.v, l>>), dflt)
         [] Tk(s) = "default" -> gen_switch_body(set_label(new_label(expect(Next1(s), ":")), l), cases, l)
         [] OTHER -> gen_switch_body(Statement(s), cases, dflt)

\* The body comes first and the dispatch after it.  A local declared directly
\* in the body keeps its name after the switch.
gen_switch(s) ==
    LET c == expect(Read("expr", expect(s, "(")), ")")
        off == c.loff - 4
        v == Value([c EXCEPT !.loff = off], c.n)
        w == Emit(v, (IF is_float(v.ty) THEN conv_stack_to_int(0) ELSE <<>>) \o << PopA, <<"movebp", off>> >>)
        d == Len(w.labels) + 1
        x == Check(Enter(NewLabels(w, 2), d + 1, 0), s.swdepth < 8)
        b == gen_switch_body(expect(Emit([x EXCEPT !.swdepth = @ + 1], <<jmp(d)>>), "{"), <<>>, 0)
        y == set_label(Emit(b, <<jmp(d + 1)>>), d)
        Case(z, cs) == Emit(z, << <<"ldebp", off>>, <<"cmpi", ToWord(cs[1])>>, je(cs[2]) >>)
        z == FoldLeft(Case, y, b.cases)
    IN [Leave(set_label(Emit(z, <<jmp(IF b.dflt > 0 THEN b.dflt ELSE d + 1)>>), d + 1)) EXCEPT !.swdepth = @ - 1]

goto_label_find(s, name) ==
    IF Found(s.gotos, name) > 0 THEN s
    ELSE [new_label(s) EXCEPT !.gotos = Append(@, [name |-> name, label |-> Len(s.labels) + 1, defined |-> FALSE, used |-> FALSE])]

gen_goto(s) ==
    LET g == goto_label_find(s, Val(s))
        i == Found(g.gotos, Val(s))
    IN IF Tk(s) # "id" THEN Err(s)
       ELSE Emit(expect(Next1([g EXCEPT !.gotos[i].used = TRUE]), ";"), <<jmp(g.gotos[i].label)>>)

\* Mutant: a label may be defined twice.
LabelTwice(s) ==
    LET g == goto_label_find(Next1(Next1(s)), Val(s))
        i == Found(g.gotos, Val(s))
    IN Statement(set_label([g EXCEPT !.gotos[i].defined = TRUE], g.gotos[i].label))

gen_label(s) ==
    LET g == goto_label_find(Next1(Next1(s)), Val(s))
        i == Found(g.gotos, Val(s))
    IN IF g.gotos[i].defined THEN Err(g)
       ELSE Statement(set_label([g EXCEPT !.gotos[i].defined = TRUE], g.gotos[i].label))

gen_stmt(s) ==
    LET x == Next1(s)
        conts == SelectSeq(s.brk, LAMBDA b: b.c > 0)
        e == Read("expr", IF Tk(s) = "return" THEN x ELSE s)
    IN CASE s.err -> s
         [] Tk(s) = "{" -> [gen_block(x) EXCEPT !.locals = SubSeq(@, 1, Len(s.locals))]
         [] Tk(s) = "return" -> IF Tk(x) = ";" THEN gen_return(Next1(x), FALSE, Num(0))
                                ELSE gen_return(expect(e, ";"), TRUE, e.n)
         [] Tk(s) = "break" -> IF s.brk = <<>> THEN Err(s) ELSE Emit(expect(x, ";"), <<jmp(Last(s.brk).b)>>)
         [] Tk(s) = "continue" -> IF conts = <<>> THEN Err(s) ELSE Emit(expect(x, ";"), <<jmp(Last(conts).c)>>)
         [] Tk(s) = "if" -> gen_if(x)
         [] Tk(s) = "do" -> gen_do(x)
         [] Tk(s) = "goto" -> gen_goto(x)
         [] Tk(s) = "id" /\ Tk(x) = ":" -> gen_label(s)
         [] Tk(s) = "while" -> gen_while(x)
         [] Tk(s) = "for" -> gen_for(x)
         [] Tk(s) = "switch" -> gen_switch(x)
         [] is_type_start(s) -> parse_decl_stmt(s)
         [] OTHER -> ExprStmt(expect(e, ";"), e.n)

---------------------------------------------------------------------------
(* Functions and the whole source.                                         *)

RECURSIVE parse_params(_), parse_global_list(_, _), parse_program(_)

parse_params(s) ==
    LET t == Read("type_spec", parse_storage_spec([s EXCEPT !.spec = {}]))
        d == Read("declarator", t)
        ty == IF is_array(d.ty) THEN type_ptr(Base(d.ty)) ELSE d.ty
        x == [d EXCEPT !.params = Append(@, [name |-> d.id, ty |-> ty])]
    IN CASE t.ty = no_type \/ {"typedef", "extern"} \cap t.spec # {} -> Err(s)
         [] Tk(x) = "," /\ Tk(Next1(x)) = "..." -> [expect(Next1(Next1(x)), ")") EXCEPT !.varargs = TRUE]
         [] Tk(x) = "," -> parse_params(Next1(x))
         [] OTHER -> expect(x, ")")

parse_param_list(s) ==
    LET x == [expect(s, "(") EXCEPT !.params = <<>>, !.varargs = FALSE]
    IN CASE Tk(x) = ")" -> Next1(x)
         [] Tk(x) = "void" /\ Tk(Next1(x)) = ")" -> Next1(Next1(x))
         [] Tk(x) = "..." -> [expect(Next1(x), ")") EXCEPT !.varargs = TRUE]
         [] OTHER -> parse_params(x)

SetFunc(s, name, ret, defined) ==
    LET a == add_func(s, name, ret)
        i == find_func(a, name)
    IN IF ~defined /\ a.funcs[i].defined THEN a
       ELSE [a EXCEPT !.funcs[i].params = [p \in DOMAIN s.params |-> s.params[p].ty],
                      !.funcs[i].varargs = s.varargs, !.funcs[i].declared = TRUE,
                      !.funcs[i].defined = @ \/ defined]

\* Parameters lie above the return address, a record in as many slots as it needs.
add_params(s) ==
    LET Put(a, p) == [a EXCEPT !.syms = Append(@, Sym(p.name, p.ty, a.off, 0)), !.off = @ + arg_slot_bytes(s, p.ty)]
    IN [s EXCEPT !.locals = FoldLeft(Put, [syms |-> <<>>, off |-> 8], s.params).syms]

\* The frame size is patched into the prologue once the body has been read.
FunctionEnd(b, ret) ==
    Emit(set_label(Emit(b, (IF ret = type_int THEN << <<"movi", "eax", 0>> >> ELSE <<>>) \o <<jmp(b.epi)>>), b.epi), << <<"leave">> >>)

FrameSet(y, at, ret) ==
    Check([y EXCEPT !.code[at] = <<"enter", -y.loff>>],
          ~is_record(ret) /\ \A i \in DOMAIN y.gotos : y.gotos[i].used => y.gotos[i].defined)

\* p: the prologue is the last instruction.
FunctionBody(p, ret) ==
    FrameSet(FunctionEnd(Statement([new_label(p) EXCEPT !.epi = Len(p.labels) + 1]), ret), Len(p.code), ret)

parse_function_def(s, ret, name) ==
    LET Start(f) == Emit(set_label(f, f.funcs[find_func(f, name)].label), << <<"enter", 0>> >>)
    IN FunctionBody(Start(add_params([SetFunc(s, name, ret, TRUE) EXCEPT !.loff = 0, !.gotos = <<>>, !.ret = ret])), ret)

end_of_declarator(s) == IF Tk(s) = "," THEN Next1(s) ELSE expect(s, ";")

parse_global(s, ty, name, is_static) ==
    LET i == find_global(s, name)
        x == Next1(s)
        br == parse_init_for(x, ty)
        bd == add_global_data(br, name, br.ty)
        sty == IF is_array(ty) /\ ty.len = 0 /\ Base(ty).k = "char" /\ Tk(x) = "str"
               THEN type_array(Base(ty), Len(Val(x)) + 1) ELSE ty
        g  == add_global_data(x, name, sty)
        At(st) == st.globals[find_global(st, name)].off
        e  == Read("expr", g)
        c  == eval_const(e.n)
    IN CASE i > 0 /\ (s.globals[i].sec # "extern" \/ is_static) -> Err(s)
         [] Tk(s) # "=" -> end_of_declarator(add_global_bss(s, name, ty))
         [] Tk(x) = "{" -> end_of_declarator(store_global_init_items(bd, At(bd)))
         [] is_array(sty) -> end_of_declarator(Check(Next1(PutData(g, At(g), FirstBytes(Val(x), type_size(g, sty)))),
                                               Base(sty).k = "char" /\ Tk(x) = "str"))
         [] e.n.k = "str" -> end_of_declarator([AddString(PutData(e, At(e), Zeros(4)), e.n.v)
                                                EXCEPT !.datafix = Append(@, <<At(e), Len(e.rodata)>>)])
         [] e.n.k = "fnum" -> end_of_declarator(PutData(e, At(e), WordBytes(e.n.v)))
         [] OTHER -> end_of_declarator(Check(PutData(e, At(e), WordBytes(c.v)), c.ok))

\* The declarators of one top-level declaration; a function body ends it.
DeclareGlobal(d) ==
    LET Function(p) == IF Tk(p) \in {";", ","} THEN end_of_declarator(SetFunc(p, d.id, d.ty, FALSE))
                       ELSE parse_function_def(p, d.ty, d.id)
    IN CASE d.err -> d
         [] "typedef" \in d.spec -> end_of_declarator(add_typedef(d, d.id, d.ty))
         [] Tk(d) = "(" -> IF is_array(d.ty) \/ is_record(d.ty) THEN Err(d) ELSE Function(parse_param_list(d))
         [] "extern" \in d.spec -> end_of_declarator(add_global_decl(Check(d, Tk(d) # "="), d.id, d.ty))
         [] OTHER -> parse_global(d, d.ty, d.id, "static" \in d.spec)

parse_global_list(s, base) ==
    LET Next(x) == IF ~x.err /\ x.toks[x.i - 1].k = "," THEN parse_global_list(x, base) ELSE x
    IN Next(DeclareGlobal(Read("declarator", Typed(s, base))))

parse_program(s) ==
    LET t == Read("type_spec", parse_storage_spec([s EXCEPT !.spec = {}]))
    IN CASE s.err \/ Tk(s) = "eof" -> s
         [] t.ty = no_type \/ {"static", "extern"} \subseteq t.spec -> Err(t)
         [] Tk(t) = ";" /\ "typedef" \notin t.spec -> parse_program(Next1(t))
         [] OTHER -> parse_program(parse_global_list(t, t.ty))

\* The file-scope variables of cc.c as compile_obj finds them.
CompilerStart(toks) ==
    [toks |-> toks, i |-> 1, err |-> FALSE, n |-> Num(0), ty |-> type_int, args |-> <<>>, id |-> "", dims |-> <<>>, sd |-> 0,
     structs |-> <<>>, typedefs |-> << [name |-> "va_list", ty |-> type_ptr(type_char)] >>, enums |-> <<>>,
     locals |-> <<>>, loff |-> 0, globals |-> <<>>, funcs |-> <<>>, code |-> <<>>, labels |-> <<>>, bytes |-> 0,
     data |-> <<>>, dlen |-> 0, bss |-> 0, rodata |-> <<>>, datafix |-> <<>>, brk |-> <<>>, gotos |-> <<>>, ret |-> type_int,
     epi |-> 0, items |-> <<>>, span |-> 0, spec |-> {}, cases |-> <<>>, dflt |-> 0, swdepth |-> 0,
     params |-> <<>>, varargs |-> FALSE]

Do(what, s, a) ==
    CASE what = "program" -> parse_program(s)
      [] what = "stmt"    -> gen_stmt(s)
      [] what \in {"value", "jump"} -> Gen(what, s, a)
      [] OTHER            -> Parse(what, s)

compile(toks) == Do("program", CompilerStart(toks), <<>>)
=============================================================================
