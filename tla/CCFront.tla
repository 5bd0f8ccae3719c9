------------------------------ MODULE CCFront ------------------------------
(***************************************************************************)
(* The front half of the compiler src/user/cc.c: types, symbol tables,     *)
(* the recursive descent over expressions and declarators, and the folding *)
(* of constants.                                                           *)
(*                                                                         *)
(* cc.c keeps its state in file-scope variables.  Here they are the fields *)
(* of one record s, which every operator takes and returns: s.i is pos and *)
(* tok, s.n and s.ty are what the C function returns.  A byte has          *)
(* BYTE_BITS bits; all sizes in bytes are those of the code, so an int has *)
(* 4 * BYTE_BITS bits.  An error (error_here or sys_exit(1)) sets s.err    *)
(* and moves to the end of the input.  Names are whole: cc.c keeps the     *)
(* first 31 characters.                                                    *)
(***************************************************************************)
EXTENDS Integers, Sequences, SequencesExt, Bitwise

CONSTANT BYTE_BITS

ASSUME BitsAssumption == BYTE_BITS \in 2..8

---------------------------------------------------------------------------
(* Machine words.                                                          *)

BMOD == 2 ^ BYTE_BITS
WORD_BITS == 4 * BYTE_BITS
WMOD == 2 ^ WORD_BITS

ToWord(v) == v % WMOD

\* The signed reading of the low b bits of v.
SignedOf(v, b) == LET w == v % 2 ^ b IN IF w >= 2 ^ (b - 1) THEN w - 2 ^ b ELSE w

ToInt(v) == SignedOf(v, WORD_BITS)

\* Division of C and of idiv: the quotient goes towards zero.
TDiv(a, b) == LET q == (IF a < 0 THEN -a ELSE a) \div (IF b < 0 THEN -b ELSE b)
              IN IF (a < 0) = (b < 0) THEN q ELSE -q
TMod(a, b) == a - b * TDiv(a, b)

Bool01(p) == IF p THEN 1 ELSE 0

---------------------------------------------------------------------------
(* Types.                                                                  *)

Ty(k, u) == [k |-> k, u |-> u, base |-> <<>>, len |-> 0, sd |-> 0]

type_int    == Ty("int", FALSE)
type_uint   == Ty("int", TRUE)
type_short  == Ty("short", FALSE)
type_ushort == Ty("short", TRUE)
type_char   == Ty("char", FALSE)
type_uchar  == Ty("char", TRUE)
type_bool   == Ty("bool", TRUE)
type_float  == Ty("float", FALSE)
type_void   == Ty("void", FALSE)
no_type     == Ty("none", FALSE)

type_ptr(t) == [Ty("ptr", FALSE) EXCEPT !.base = <<t>>]
type_array(t, n) == [Ty("array", FALSE) EXCEPT !.base = <<t>>, !.len = n]
type_record(k, i) == [Ty(k, FALSE) EXCEPT !.sd = i]

is_float(t)  == t.k = "float"
is_ptr(t)    == t.k = "ptr"
is_array(t)  == t.k = "array"
is_record(t) == t.k \in {"struct", "union"}
is_byte(t)   == t.k \in {"char", "bool"}
Base(t)      == IF t.base = <<>> THEN no_type ELSE t.base[1]

decay_array(t) == IF is_array(t) THEN type_ptr(Base(t)) ELSE t
promote(t) == IF is_byte(t) THEN type_int ELSE t

align_to(n, a) == ((n + a - 1) \div a) * a

\* s.structs holds the layouts, so a type made before the body of its struct
\* was read has its size once the body has been.
RECURSIVE type_size(_, _), type_align(_, _)
type_size(s, t) ==
    CASE t.k \in {"int", "float", "ptr"} -> 4
      [] t.k = "short" -> 2
      [] is_byte(t)    -> 1
      [] is_array(t)   -> t.len * type_size(s, Base(t))
      [] is_record(t)  -> s.structs[t.sd].size
      [] OTHER         -> 0
type_align(s, t) ==
    CASE is_array(t)  -> type_align(s, Base(t))
      [] is_record(t) -> s.structs[t.sd].align
      [] t.k = "void" -> 1
      [] OTHER        -> type_size(s, t)

\* Offsets of the fields in order; a union has all of them at 0.
struct_layout(s, sd) ==
    LET maxa == FoldLeft(LAMBDA m, f: IF type_align(s, f.ty) > m THEN type_align(s, f.ty) ELSE m,
                         1, sd.fields)
        Put(a, f) ==
          LET off == IF sd.union THEN 0 ELSE align_to(a.off, type_align(s, f.ty))
              end == off + type_size(s, f.ty)
          IN [fields |-> Append(a.fields, [f EXCEPT !.off = off]),
              off    |-> IF end > a.off THEN end ELSE a.off]
        all == FoldLeft(Put, [fields |-> <<>>, off |-> 0], sd.fields)
    IN [sd EXCEPT !.fields = all.fields, !.align = maxa, !.size = align_to(all.off, maxa)]

---------------------------------------------------------------------------
(* Tables, searched by name.  Locals are searched backwards, so that an    *)
(* inner declaration hides an outer one.                                   *)

Found(seq, name) == SelectInSeq(seq, LAMBDA e: e.name = name)
FoundLast(seq, name) == SelectLastInSeq(seq, LAMBDA e: e.name = name)

find_local(s, name)  == FoundLast(s.locals, name)
find_global(s, name) == Found(s.globals, name)
find_func(s, name)   == Found(s.funcs, name)
find_field(s, t, name) == Found(s.structs[t.sd].fields, name)

\* The symbol a name stands for in an expression: [ok, sym].
Lookup(s, name) ==
    CASE find_local(s, name) > 0  -> [ok |-> TRUE, sym |-> s.locals[find_local(s, name)]]
      [] find_global(s, name) > 0 -> [ok |-> TRUE, sym |-> [s.globals[find_global(s, name)] EXCEPT !.alias = find_global(s, name)]]
      [] OTHER                    -> [ok |-> FALSE, sym |-> [name |-> name, ty |-> type_int, off |-> 0, alias |-> 0]]

---------------------------------------------------------------------------
(* Tokens.                                                                 *)

Tk(s)   == s.toks[s.i].k
Val(s)  == s.toks[s.i].v
Next1(s) == [s EXCEPT !.i = IF @ < Len(s.toks) THEN @ + 1 ELSE @]
Err(s)  == [s EXCEPT !.err = TRUE, !.i = Len(s.toks)]
Check(s, p) == IF p THEN s ELSE Err(s)
expect(s, k) == IF Tk(s) = k THEN Next1(s) ELSE Err(s)
skip_cv(s) == LET j == SelectInSubSeq(s.toks, s.i, Len(s.toks), LAMBDA t: t.k \notin {"const", "volatile"})
              IN [s EXCEPT !.i = j]

---------------------------------------------------------------------------
(* Nodes.                                                                  *)

Num(v)       == [k |-> "num", v |-> v]
FNum(v)      == [k |-> "fnum", v |-> v]
Str(v)       == [k |-> "str", v |-> v]
Var(x)       == [k |-> "var", name |-> x]
Bin(o, a, b) == [k |-> "bin", op |-> o, l |-> a, r |-> b]
Un(o, a)     == [k |-> "un", op |-> o, l |-> a]
Asg(a, b)    == [k |-> "assign", l |-> a, r |-> b]
Addr(a)      == [k |-> "addr", l |-> a]
Deref(a)     == [k |-> "deref", l |-> a]
Index(a, b)  == [k |-> "index", l |-> a, r |-> b]
Member(o, a, x) == [k |-> "member", op |-> o, l |-> a, name |-> x]
Cast(t, a)   == [k |-> "cast", ty |-> t, l |-> a]
Call(f, as)  == [k |-> "call", name |-> IF f.k = "var" THEN f.name ELSE "", callee |-> f, args |-> as]
Tern(c, a, b) == [k |-> "tern", c |-> c, l |-> a, r |-> b]
VaArg(a, t)  == [k |-> "vaarg", l |-> a, ty |-> t]

\* ++x is (x = x + 1); x++ is (x = x + 1) - 1.
node_step(lv, op) == Asg(lv, Bin(op, lv, Num(1)))

---------------------------------------------------------------------------
(* infer_type: the type of an expression without generating it.  sizeof    *)
(* and ?: use it.  no_type stands for the error exits.                     *)

OrError(t, u) == IF t = no_type THEN no_type ELSE u

RECURSIVE infer_type(_, _)
infer_type(s, n) ==
    CASE n.k = "fnum"  -> type_float
      [] n.k = "str"   -> type_ptr(type_char)
      [] n.k = "var"   -> IF Lookup(s, n.name).ok THEN Lookup(s, n.name).sym.ty
                          ELSE IF find_func(s, n.name) > 0 THEN type_ptr(type_void) ELSE no_type
      [] n.k = "addr"  -> IF n.l.k = "var" /\ find_func(s, n.l.name) > 0 THEN type_ptr(type_void)
                          ELSE LET t == infer_type(s, n.l) IN OrError(t, type_ptr(t))
      [] n.k = "deref" -> IF is_ptr(infer_type(s, n.l)) THEN Base(infer_type(s, n.l)) ELSE no_type
      [] n.k = "index" -> LET t == decay_array(infer_type(s, n.l)) IN IF is_ptr(t) THEN Base(t) ELSE no_type
      [] n.k = "member" ->
            LET t == infer_type(s, n.l)
                r == IF is_ptr(t) THEN Base(t) ELSE t
            IN IF is_record(r) /\ find_field(s, r, n.name) > 0
               THEN s.structs[r.sd].fields[find_field(s, r, n.name)].ty ELSE no_type
      [] n.k \in {"cast", "vaarg"} -> n.ty
      [] n.k = "call"  -> IF find_func(s, n.name) > 0 THEN s.funcs[find_func(s, n.name)].ret ELSE type_int
      [] n.k \in {"bin", "assign", "un"} ->
            LET t == infer_type(s, n.l) IN OrError(t, IF t.u THEN type_uint ELSE type_int)
      [] n.k = "tern"  -> LET ta == decay_array(infer_type(s, n.l))
                              tb == decay_array(infer_type(s, n.r))
                          IN CASE no_type \in {ta, tb} -> no_type
                               [] is_ptr(ta) /\ is_ptr(tb) -> ta
                               [] is_float(ta) \/ is_float(tb) -> type_float
                               [] ta.u \/ tb.u -> type_uint
                               [] OTHER -> type_int
      [] OTHER -> type_int

---------------------------------------------------------------------------
(* eval_const: [ok, v] for an expression of literals.                      *)

FoldOp(op, a, b) ==
    CASE op = "+" -> ToInt(a + b)
      [] op = "-" -> ToInt(a - b)
      [] op = "*" -> ToInt(a * b)
      [] op = "/" -> ToInt(TDiv(a, b))
      [] op = "%" -> TMod(a, b)
      [] op = "<<" -> ToInt(a * 2 ^ (b % WORD_BITS))
      [] op = ">>" -> a \div 2 ^ (b % WORD_BITS)
      [] op = "&" -> ToInt(ToWord(a) & ToWord(b))
      [] op = "|" -> ToInt(ToWord(a) | ToWord(b))
      [] op = "^" -> ToInt(ToWord(a) ^^ ToWord(b))
      [] op = "<" -> Bool01(a < b)
      [] op = "<=" -> Bool01(a <= b)
      [] op = ">" -> Bool01(a > b)
      [] op = ">=" -> Bool01(a >= b)
      [] op = "==" -> Bool01(a = b)
      [] op = "!=" -> Bool01(a # b)
      [] op = "&&" -> Bool01(a # 0 /\ b # 0)
      [] OTHER     -> Bool01(a # 0 \/ b # 0)

NotConst == [ok |-> FALSE, v |-> 0]
Const(v) == [ok |-> TRUE, v |-> v]

RECURSIVE eval_const(_)
eval_const(n) ==
    CASE n.k = "num"  -> Const(n.v)
      [] n.k = "cast" -> eval_const(n.l)
      [] n.k = "un"   -> LET a == eval_const(n.l)
                         IN CASE ~a.ok -> NotConst
                              [] n.op = "-" -> Const(ToInt(-a.v))
                              [] n.op = "!" -> Const(Bool01(a.v = 0))
                              [] OTHER -> Const(ToInt(-a.v - 1))
      [] n.k = "tern" -> LET c == eval_const(n.c)
                         IN IF c.ok THEN eval_const(IF c.v # 0 THEN n.l ELSE n.r) ELSE NotConst
      [] n.k = "bin"  -> LET a == eval_const(n.l)
                             b == eval_const(n.r)
                         IN CASE ~a.ok -> NotConst
                              [] n.op = "&&" /\ a.v = 0 -> Const(0)
                              [] n.op = "||" /\ a.v # 0 -> Const(1)
                              [] ~b.ok \/ (n.op \in {"/", "%"} /\ b.v = 0) -> NotConst
                              [] OTHER -> Const(FoldOp(n.op, a.v, b.v))
      [] OTHER -> NotConst

---------------------------------------------------------------------------
(* Expressions.                                                            *)

\* The binary levels of parse_mul .. parse_lor, tightest first.
Levels == << {"*", "/", "%"}, {"+", "-"}, {"<<", ">>"}, {"<", "<=", ">", ">="}, {"==", "!="},
             {"&"}, {"^"}, {"|"}, {"&&"}, {"||"} >>

\* Parse(what, s): the functions of the recursive descent that call one another.
RECURSIVE Parse(_, _)
RECURSIVE parse_level(_, _), parse_level_rest(_, _), parse_postfix_rest(_), parse_args(_, _), parse_enum_list(_, _),
          parse_fields(_, _, _), parse_dims(_, _)

parse_primary(s) ==
    LET id == Found(s.enums, Val(s)) IN
    CASE Tk(s) = "(" -> expect(Parse("expr", Next1(s)), ")")
      [] Tk(s) \in {"num", "chr"} -> [Next1(s) EXCEPT !.n = Num(Val(s))]
      [] Tk(s) = "fnum" -> [Next1(s) EXCEPT !.n = FNum(Val(s))]
      [] Tk(s) = "str" -> [Next1(s) EXCEPT !.n = Str(Val(s))]
      [] Tk(s) = "id" -> [Next1(s) EXCEPT !.n = IF id > 0 THEN Num(s.enums[id].val) ELSE Var(Val(s))]
      [] OTHER -> Err(s)

parse_args(s, as) ==
    LET a == Parse("expr", s)
    IN IF Tk(a) = "," THEN parse_args(Next1(a), Append(as, a.n))
       ELSE [expect(a, ")") EXCEPT !.args = Append(as, a.n)]

parse_pointers(s) ==
    LET RECURSIVE P(_)
        P(x) == IF Tk(x) = "*" THEN P([skip_cv(Next1(x)) EXCEPT !.ty = type_ptr(x.ty)]) ELSE x
    IN P(s)

parse_type_name(s) ==
    LET t == Parse("type_spec", s) IN IF t.ty = no_type THEN Err(t) ELSE parse_pointers(t)

parse_postfix_rest(s) ==
    LET x == Next1(s) IN
    CASE Tk(s) = "(" /\ Tk(x) = ")" -> parse_postfix_rest([Next1(x) EXCEPT !.n = Call(s.n, <<>>)])
      [] Tk(s) = "(" /\ s.n.k = "var" /\ s.n.name = "va_arg" ->
            LET ap == expect(Parse("expr", x), ",")
                t  == parse_type_name(ap)
            IN parse_postfix_rest([expect(t, ")") EXCEPT !.n = VaArg(ap.n, t.ty)])
      [] Tk(s) = "(" -> LET a == parse_args(x, <<>>)
                        IN parse_postfix_rest([a EXCEPT !.n = Call(s.n, a.args)])
      [] Tk(s) = "[" -> LET e == Parse("expr", x)
                        IN parse_postfix_rest([expect(e, "]") EXCEPT !.n = Index(s.n, e.n)])
      [] Tk(s) \in {".", "->"} ->
            parse_postfix_rest([Check(Next1(x), Tk(x) = "id") EXCEPT !.n = Member(Tk(s), s.n, Val(x))])
      [] Tk(s) = "++" -> parse_postfix_rest([x EXCEPT !.n = Bin("-", node_step(s.n, "+"), Num(1))])
      [] Tk(s) = "--" -> parse_postfix_rest([x EXCEPT !.n = Bin("+", node_step(s.n, "-"), Num(1))])
      [] OTHER -> s

parse_postfix(s) == parse_postfix_rest(parse_primary(s))

\* sizeof and casts try a type first and go back to the "(" when there is none.
parse_sizeof(s) ==
    LET t == parse_pointers(Parse("type_spec", Next1(s)))
        e == IF Tk(s) = "(" THEN expect(Parse("expr", Next1(s)), ")") ELSE Parse("unary", s)
    IN IF Tk(s) = "(" /\ Parse("type_spec", Next1(s)).ty # no_type
       THEN [expect(t, ")") EXCEPT !.n = Num(type_size(s, t.ty))]
       ELSE LET u == infer_type(e, e.n) IN [Check(e, u # no_type) EXCEPT !.n = Num(type_size(s, u))]

parse_unary(s) ==
    LET x == Next1(s)
        Wrap1(F(_)) == LET u == Parse("unary", x) IN [u EXCEPT !.n = F(u.n)]
        t == Parse("type_spec", x)
        c == parse_pointers(t)
    IN CASE Tk(s) = "++" -> Wrap1(LAMBDA n: node_step(n, "+"))
         [] Tk(s) = "--" -> Wrap1(LAMBDA n: node_step(n, "-"))
         [] Tk(s) = "sizeof" -> parse_sizeof(x)
         [] Tk(s) \in {"-", "!", "~"} -> Wrap1(LAMBDA n: Un(Tk(s), n))
         [] Tk(s) = "+" -> Parse("unary", x)
         [] Tk(s) = "&" -> Wrap1(LAMBDA n: Addr(n))
         [] Tk(s) = "*" -> Wrap1(LAMBDA n: Deref(n))
         [] Tk(s) = "(" /\ t.ty # no_type /\ Tk(c) = ")" ->
               LET u == Parse("unary", Next1(c)) IN [u EXCEPT !.n = Cast(c.ty, u.n)]
         [] OTHER -> parse_postfix(s)

parse_level(l, s) == IF l = 0 THEN Parse("unary", s) ELSE parse_level_rest(l, parse_level(l - 1, s))

\* Mutant: operators of one level group to the right.
ParseLevelRestRight(l, s) ==
    IF Tk(s) \in Levels[l]
    THEN LET r == parse_level(l, Next1(s)) IN [r EXCEPT !.n = Bin(Tk(s), s.n, r.n)]
    ELSE s

\* Left associative: the operands met so far are the left operand of the next.
parse_level_rest(l, s) ==
    IF Tk(s) \in Levels[l]
    THEN LET r == parse_level(l - 1, Next1(s))
         IN parse_level_rest(l, [r EXCEPT !.n = Bin(Tk(s), s.n, r.n)])
    ELSE s

parse_cond(s) ==
    LET c == parse_level(10, s)
        t == Parse("expr", Next1(c))
        f == Parse("cond", expect(t, ":"))
    IN IF Tk(c) = "?" THEN [f EXCEPT !.n = Tern(c.n, t.n, f.n)] ELSE c

parse_expr(s) ==
    LET l == Parse("cond", s)
        r == Parse("expr", Next1(l))
    IN CASE Tk(l) = "="   -> [r EXCEPT !.n = Asg(l.n, r.n)]
         [] Tk(l) = "op=" -> [r EXCEPT !.n = Asg(l.n, Bin(Val(l), l.n, r.n))]
         [] OTHER -> l

---------------------------------------------------------------------------
(* Types in declarations.                                                  *)

EnumNumber(s) == [Check(Next1(s), Tk(s) \in {"num", "chr"}) EXCEPT !.n = Num(Val(s))]

\* The value after a name: as written, or val when there is none.
EnumValue(s, val) ==
    CASE Tk(s) # "=" -> [s EXCEPT !.n = Num(val)]
      [] Tk(Next1(s)) # "-" -> EnumNumber(Next1(s))
      [] OTHER -> LET x == EnumNumber(Next1(Next1(s))) IN IF x.err THEN x ELSE [x EXCEPT !.n.v = -@]

SetEnum(s, name, v) ==
    LET old == Found(s.enums, name)
    IN IF old > 0 THEN [s EXCEPT !.enums[old].val = v] ELSE [s EXCEPT !.enums = Append(@, [name |-> name, val |-> v])]

parse_enum_list(s, val) ==
    LET y == EnumValue(Check(Next1(s), Tk(s) = "id"), val)
        z == SetEnum(y, Val(s), y.n.v)
    IN CASE y.err -> y
         [] Tk(z) = "," /\ Tk(Next1(z)) # "}" -> parse_enum_list(Next1(z), y.n.v + 1)
         [] Tk(z) = "," -> Next1(Next1(z))
         [] OTHER -> expect(z, "}")

add_struct(s, name, union) ==
    LET i == IF name = "" THEN 0 ELSE Found(s.structs, name)
    IN IF i > 0 THEN Check([s EXCEPT !.sd = i], s.structs[i].union = union)
       ELSE [s EXCEPT !.structs = Append(@, [name |-> name, union |-> union, fields |-> <<>>, size |-> 0, align |-> 1]),
                      !.sd = Len(s.structs) + 1]

\* Fields up to "}"; ft is the type the declarators of one line share.
parse_fields(s, sd, ft) ==
    LET d == Parse("declarator", [s EXCEPT !.ty = ft])
        e == [d EXCEPT !.structs[sd].fields = Append(@, [name |-> d.id, ty |-> d.ty, off |-> 0])]
        f == expect(e, ";")
        t == Parse("type_spec", f)
    IN CASE e.err -> e
         [] Tk(e) = "," -> parse_fields(Next1(e), sd, ft)
         [] Tk(f) = "}" \/ f.err -> Next1(f)
         [] OTHER -> parse_fields(Check(t, t.ty # no_type), sd, t.ty)

\* The fields after "{", and the layout they give record sd.
StructBody(s, sd) ==
    LET t == Parse("type_spec", s)
        Lay(f) == [f EXCEPT !.structs[sd] = struct_layout(f, f.structs[sd])]
    IN Lay(IF Tk(s) = "}" THEN Next1(s) ELSE parse_fields(Check(t, t.ty # no_type), sd, t.ty))

\* a: the record is in the table and s.sd is its place.
StructRest(a, kind, named) ==
    [(IF Tk(a) = "{" THEN StructBody([Next1(a) EXCEPT !.structs[a.sd].fields = <<>>], a.sd) ELSE Check(a, named))
     EXCEPT !.ty = type_record(kind, a.sd)]

parse_struct_spec(s, kind) ==
    IF Tk(s) = "id" THEN StructRest(add_struct(Next1(s), Val(s), kind = "union"), kind, TRUE)
    ELSE StructRest(add_struct(s, "", kind = "union"), kind, FALSE)

Qualifiers == {"const", "volatile", "unsigned", "signed", "long", "short"}

parse_type_spec(s) ==
    LET j   == SelectInSubSeq(s.toks, s.i, Len(s.toks), LAMBDA t: t.k \notin Qualifiers)
        q   == [m \in 1..(j - s.i) |-> s.toks[s.i + m - 1].k]
        uns == \E m \in DOMAIN q : q[m] = "unsigned" /\ \A l \in (m + 1)..Len(q) : q[l] # "signed"
        has == \E m \in DOMAIN q : q[m] \in {"unsigned", "signed", "long", "short"}
        x   == [s EXCEPT !.i = j]
        Is(t) == [skip_cv(Next1(x)) EXCEPT !.ty = t]
        td  == Found(s.typedefs, Val(x))
    IN CASE "short" \in {q[m] : m \in DOMAIN q} ->
              [skip_cv(IF Tk(x) = "int" THEN Next1(x) ELSE x) EXCEPT !.ty = IF uns THEN type_ushort ELSE type_short]
         [] Tk(x) = "int"   -> Is(IF uns THEN type_uint ELSE type_int)
         [] Tk(x) = "float" -> Is(type_float)
         [] Tk(x) = "char"  -> Is(IF uns THEN type_uchar ELSE type_char)
         [] Tk(x) = "bool"  -> Is(type_bool)
         [] Tk(x) = "void"  -> Is(type_void)
         [] Tk(x) \in {"struct", "union"} -> parse_struct_spec(Next1(x), Tk(x))
         [] Tk(x) = "enum"  -> LET y == IF Tk(Next1(x)) = "id" THEN Next1(Next1(x)) ELSE Next1(x)
                               IN [IF Tk(y) = "{" THEN parse_enum_list(Next1(y), 0) ELSE y EXCEPT !.ty = type_int]
         [] has -> [skip_cv(x) EXCEPT !.ty = IF uns THEN type_uint ELSE type_int]
         [] Tk(x) = "id" /\ td > 0 -> Is(s.typedefs[td].ty)
         [] OTHER -> [x EXCEPT !.ty = no_type]

is_type_start(s) ==
    \/ Tk(s) \in {"int", "float", "char", "bool", "void", "struct", "union", "enum", "unsigned", "signed",
                  "short", "long", "const", "volatile", "static", "extern", "typedef", "register", "auto"}
    \/ Tk(s) = "id" /\ Found(s.typedefs, Val(s)) > 0

\* The array suffixes, in the order they are written.
parse_dims(s, dims) ==
    LET x == Next1(s)
        e == Parse("cond", x)
        c == eval_const(e.n)
        y == Check(expect(e, "]"), c.ok /\ c.v >= 0 /\ Len(dims) < 8)
    IN CASE Tk(s) # "[" -> [s EXCEPT !.dims = dims]
         [] Tk(x) = "]" -> parse_dims(Next1(x), Append(dims, 0))
         [] OTHER       -> IF y.err THEN y ELSE parse_dims(y, Append(dims, c.v))

\* The last suffix wraps the base first: in x[2][3] the first is the outermost.
WrapDims(d) == IF d.err THEN d ELSE [d EXCEPT !.ty = FoldRight(LAMBDA n, b: type_array(b, n), d.dims, @)]

\* The parameter list of a function pointer is skipped up to its ")".
skip_parens(s) ==
    LET Depth(j) == Len(SelectSeq(SubSeq(s.toks, s.i, j), LAMBDA t: t.k = "("))
                    - Len(SelectSeq(SubSeq(s.toks, s.i, j), LAMBDA t: t.k = ")"))
        ends == {j \in s.i..Len(s.toks) : Depth(j) = 0}
    IN IF ends = {} THEN Err(s) ELSE [s EXCEPT !.i = (CHOOSE j \in ends : \A k \in ends : j <= k) + 1]

DeclaredName(s) == Check([Next1(s) EXCEPT !.id = Val(s)], Tk(s) = "id")

\* The name, or a name in parentheses as pointers to functions have it.
NameOrParens(s) ==
    IF Tk(s) # "(" THEN DeclaredName(s)
    ELSE LET x == expect(DeclaredName(parse_pointers(Next1(s))), ")")
         IN IF Tk(x) = "(" THEN skip_parens(x) ELSE x

parse_declarator(s) == WrapDims(parse_dims(NameOrParens(parse_pointers(s)), <<>>))

Parse(what, s) ==
    CASE what = "expr"       -> parse_expr(s)
      [] what = "cond"       -> parse_cond(s)
      [] what = "unary"      -> parse_unary(s)
      [] what = "type_spec"  -> parse_type_spec(s)
      [] what = "declarator" -> parse_declarator(s)
=============================================================================
