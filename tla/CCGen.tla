------------------------------- MODULE CCGen -------------------------------
(***************************************************************************)
(* The back half of src/user/cc.c: code for expressions, declarations,     *)
(* statements, functions and globals.  The code generator reads tokens and *)
(* emits in one pass; s.code is what emit8/emit32 wrote, one tuple per x86 *)
(* instruction or per fixed group of instructions.                         *)
(* Values live on the machine stack: gen_expr leaves one word there.       *)
(***************************************************************************)
EXTENDS CCFront

Emit(s, c) == [s EXCEPT !.code = @ \o c]
Typed(s, t) == [s EXCEPT !.ty = t]

PushA == <<"push">>
PopA  == <<"pop", "eax">>
PopB  == <<"pop", "ebx">>

\* Labels are numbered; set_label binds one to the next instruction.
new_label(s) == [s EXCEPT !.labels = Append(@, 0)]
NewLabels(s, n) == [s EXCEPT !.labels = @ \o [i \in 1..n |-> 0]]
set_label(s, l) == [s EXCEPT !.labels[l] = Len(s.code) + 1]
jmp(l) == <<"jmp", l>>
je(l)  == <<"je", l>>

---------------------------------------------------------------------------
(* Conversions of the value on top of the stack.                           *)

conv_stack_to_float(d) == << <<"fild", d>>, <<"fstp", d>> >>

\* The control word is switched to chop for the one fistp and put back.
conv_stack_to_int(d) == << <<"fld", d>>, <<"fistp_chop", d>> >>

Conv(to, from) == CASE is_float(to) /\ ~is_float(from) -> conv_stack_to_float(0)
                    [] ~is_float(to) /\ is_float(from) -> conv_stack_to_int(0)
                    [] OTHER -> <<>>

\* add esp, 4 comes between the test and the instruction that reads its flags.
FloatTest == << <<"fld", 0>>, <<"ftst">>, <<"addesp", 4>> >>
IntTest   == << PopA, <<"cmpi", 0>> >>
TruthTest(t) == IF is_float(t) THEN FloatTest ELSE IntTest

emit_boolify(t) == TruthTest(t) \o << <<"set", "ne">>, PushA >>

\* What an assignment or an initialiser does to its value before the store.
ConvForStore(to, from) == IF to.k = "bool" THEN emit_boolify(from) ELSE Conv(to, from)

ternary_common_type(ta, tb) ==
    CASE is_ptr(ta) /\ is_ptr(tb) -> ta
      [] is_float(ta) \/ is_float(tb) -> type_float
      [] ta.u \/ tb.u -> type_uint
      [] OTHER -> type_int

MemSize(t) == IF is_byte(t) THEN 1 ELSE IF t.k = "short" THEN 2 ELSE 4

emit_load_addr(s, sym) ==
    Emit(s, << IF sym.alias > 0 THEN <<"glob", sym.alias>> ELSE <<"lea", sym.off>>, PushA >>)

emit_load_from_addr(t) == << PopA, <<"load", MemSize(t), ~t.u>>, PushA >>

\* The value pushed back is eax as it was: it is not cut to the size stored.
emit_store_to_addr(t) == << PopA, PopB, <<"store", MemSize(t)>>, PushA >>

arg_slot_bytes(s, t) == IF is_record(t) THEN align_to(type_size(s, t), 4) ELSE 4

VaStep(s, t) == IF type_size(s, t) < 4 THEN 4 ELSE align_to(type_size(s, t), 4)

---------------------------------------------------------------------------
(* Calls.                                                                  *)

\* The calls the compiler turns into int 0x80: name, number, arguments.
Builtins == <<
    <<"sys_write", 0, 3>>, <<"sys_read", 1, 3>>, <<"sys_list", 2, 2>>, <<"sys_load", 3, 3>>,
    <<"sys_save", 4, 3>>, <<"sys_exec", 5, 1>>, <<"sys_exit", 6, 1>>, <<"sys_sbrk", 7, 1>>,
    <<"sys_rename", 8, 2>>, <<"sys_delete", 9, 1>>, <<"sys_getkey", 10, 0>>, <<"sys_cls", 11, 0>>,
    <<"sys_setcursor", 12, 2>>, <<"sys_vmode", 13, 1>>, <<"sys_blit", 14, 1>>, <<"sys_palette", 15, 2>>,
    <<"sys_gfxinfo", 21, 2>>, <<"sys_vbemodes", 22, 2>>, <<"sys_getkey_nb", 23, 0>>, <<"sys_ticks", 24, 0>>,
    <<"sys_thread_create", 25, 2>>, <<"sys_thread_exit", 26, 0>>, <<"sys_sleep", 27, 1>>,
    <<"sys_sleepf", 28, 1>>, <<"sys_gfx_fbinfo", 29, 2>>, <<"sys_keystate", 30, 1>>,
    <<"sys_getcwd", 35, 2>>, <<"sys_setcwd", 36, 1>>, <<"sys_poweroff", 37, 0>>, <<"sys_meminfo", 38, 2>>,
    <<"sys_storage", 39, 2>>, <<"sys_sync", 40, 0>>, <<"sys_io_in", 41, 2>>, <<"sys_io_out", 42, 3>>,
    <<"sys_pci_read", 43, 2>>, <<"sys_pci_write", 44, 3>>, <<"sys_map_phys", 45, 3>>,
    <<"sys_dma_alloc", 46, 2>>, <<"sys_irq_wait", 47, 2>> >>

builtin_index(name) == SelectInSeq(Builtins, LAMBDA b: b[1] = name)

ArgRegs == <<"ebx", "ecx", "edx", "esi">>

emit_syscall_builtin(s, no, argc) ==
    Typed(Emit(s, [i \in 1..argc |-> <<"pop", ArgRegs[i]>>] \o << <<"movi", "eax", no>>, <<"int80">>, PushA >>),
          type_int)

emit_syscall_runtime(s, argc) ==
    Typed(Emit(s, <<PopA>> \o [i \in 1..(argc - 1) |-> <<"pop", ArgRegs[i]>>] \o << <<"int80">>, PushA >>), type_int)

add_func(s, name, ret) ==
    LET i == find_func(s, name)
        f == [name |-> name, ret |-> ret, params |-> <<>>, varargs |-> FALSE, declared |-> FALSE,
              defined |-> FALSE, label |-> Len(s.labels) + 1]
    IN IF i > 0 THEN [s EXCEPT !.funcs[i].ret = ret]
       ELSE [new_label(s) EXCEPT !.funcs = Append(@, f)]

\* Gen(what, s, a): the code generators that call one another.
RECURSIVE Gen(_, _, _)
RECURSIVE gen_args_rev(_, _, _), gen_call_args(_, _, _, _, _)

gen_args_rev(s, args, i) == IF i = 0 THEN s ELSE gen_args_rev(Gen("value", s, args[i]), args, i - 1)

gen_va_start(s, n) ==
    LET ap   == Lookup(s, n.args[1].name)
        last == Lookup(s, n.args[2].name)
    IN IF Len(n.args) # 2 \/ \E i \in 1..2 : n.args[i].k # "var" THEN Err(s)
       ELSE Typed(Emit(emit_load_addr(emit_load_addr(Check(s, ap.ok /\ last.ok), ap.sym), last.sym),
                  << PopA, <<"addi", VaStep(s, last.sym.ty)>>, PopB, <<"store", 4>>, <<"movi", "eax", 0>>, PushA >>),
                  type_int)

\* The arguments from the last to the first, each converted to its parameter.
gen_call_args(s, args, f, i, bytes) ==
    IF i = 0 THEN [s EXCEPT !.bytes = bytes]
    ELSE LET a  == Gen("value", s, args[i])
             va == i > Len(f.params)
             pt == IF va THEN type_int ELSE f.params[i]
             b  == CASE is_record(pt) ->
                          Emit(Check(a, is_record(a.ty) /\ type_size(a, a.ty) = type_size(a, pt)),
                               << <<"spush", type_size(a, pt)>> >>)
                     [] va -> a
                     [] OTHER -> Emit(a, Conv(pt, a.ty))
         IN gen_call_args(b, args, f, i - 1, bytes + arg_slot_bytes(s, pt))

ArityFits(f, argc) == f.declared => IF f.varargs THEN argc >= Len(f.params) ELSE argc = Len(f.params)

EmitCall(s, name) == Emit(s, << <<"call", name>> >> \o (IF s.bytes > 0 THEN << <<"addesp", s.bytes>> >> ELSE <<>>))

PushResult(s, ret) ==
    IF is_float(ret) THEN Typed(Emit(s, << <<"addesp", -4>>, <<"fstp", 0>> >>), type_float)
    ELSE Typed(Emit(s, <<PushA>>), IF ret.k = "void" THEN type_int ELSE ret)

CallFunc(s, n, f) ==
    PushResult(EmitCall(gen_call_args(Check(s, ArityFits(f, Len(n.args))), n.args, f, Len(n.args), 0), n.name), f.ret)

\* A function nobody declared is declared by its first call.
gen_direct_call(s, n) ==
    LET x == IF find_func(s, n.name) > 0 THEN s ELSE add_func(s, n.name, type_int)
    IN CallFunc(x, n, x.funcs[find_func(x, n.name)])

\* Mutant: the arguments of a call through a pointer stay on the stack.
IndirectCallKeepsArgs(s, n) ==
    LET s1 == Gen("value", gen_args_rev(s, n.args, Len(n.args)), n.callee)
    IN Typed(Emit(s1, << PopA, <<"calla">>, PushA >>), type_int)

gen_indirect_call(s, n) ==
    LET s1 == Gen("value", gen_args_rev(s, n.args, Len(n.args)), n.callee)
        pop == IF n.args # <<>> THEN << <<"addesp", 4 * Len(n.args)>> >> ELSE <<>>
    IN Typed(Emit(s1, << PopA, <<"calla">> >> \o pop \o <<PushA>>), type_int)

gen_call(s, n) ==
    LET argc == Len(n.args)
        b == builtin_index(n.name)
    IN CASE n.name = "syscall" -> IF argc \in 1..4 THEN emit_syscall_runtime(gen_args_rev(s, n.args, argc), argc) ELSE Err(s)
         [] b > 0 -> IF argc = Builtins[b][3]
                     THEN emit_syscall_builtin(gen_args_rev(s, n.args, argc), Builtins[b][2], argc) ELSE Err(s)
         [] n.name = "va_start" -> gen_va_start(s, n)
         [] n.name = "va_end" -> Typed(Emit(s, << <<"movi", "eax", 0>>, PushA >>), type_int)
         [] n.callee.k # "var" \/ Lookup(s, n.name).ok -> gen_indirect_call(s, n)
         [] OTHER -> gen_direct_call(s, n)

---------------------------------------------------------------------------
(* Addresses and expressions.                                              *)

gen_addr(s, n) ==
    CASE n.k = "var" ->
           LET l == Lookup(s, n.name)
           IN CASE l.ok -> Typed(emit_load_addr(s, l.sym), l.sym.ty)
                [] find_func(s, n.name) > 0 -> Typed(Emit(s, << <<"fun", n.name>>, PushA >>), type_void)
                [] OTHER -> Err(s)
      [] n.k = "deref" ->
           LET a == Gen("value", s, n.l) IN Typed(Check(a, is_ptr(decay_array(a.ty))), Base(a.ty))
      [] n.k = "index" ->
           LET a  == Gen("value", s, n.l)
               bt == decay_array(a.ty)
               b  == Gen("value", Check(a, is_ptr(bt)), n.r)
               sz == type_size(s, Base(bt))
               conv == IF is_float(b.ty) THEN conv_stack_to_int(0) ELSE <<>>
               scale == IF sz > 1 THEN << PopA, <<"imul", sz>>, PushA >> ELSE <<>>
           IN Typed(Emit(b, conv \o scale \o << PopB, PopA, <<"alu", "+">>, PushA >>), Base(bt))
      [] n.k = "member" ->
           LET a  == IF n.op = "." THEN Gen("address", s, n.l) ELSE Gen("value", s, n.l)
               bt == IF n.op = "." THEN a.ty ELSE Base(decay_array(a.ty))
               ok == is_record(bt) /\ find_field(s, bt, n.name) > 0
               f  == s.structs[bt.sd].fields[find_field(s, bt, n.name)]
           IN IF a.err \/ ~ok THEN Err(a)
              ELSE Typed(Emit(a, <<PopA>> \o (IF f.off # 0 THEN << <<"addi", f.off>> >> ELSE <<>>) \o <<PushA>>), f.ty)
      [] OTHER -> Err(s)

\* The value at an address: arrays and records stay addresses.
ValueOf(a) == CASE is_array(a.ty) -> Typed(a, type_ptr(Base(a.ty)))
                [] is_record(a.ty) -> a
                [] OTHER -> Typed(Emit(a, emit_load_from_addr(a.ty)), promote(a.ty))

gen_assign(s, n) ==
    LET a == Gen("address", s, n.l)
        b == Gen("value", a, n.r)
    IN CASE a.err \/ is_array(a.ty) -> Err(a)
         [] is_record(a.ty) -> Typed(Emit(Check(b, is_record(b.ty) /\ type_size(b, b.ty) = type_size(b, a.ty)),
                                          << <<"copy", type_size(b, a.ty)>> >>), a.ty)
         [] OTHER -> Typed(Emit(b, ConvForStore(a.ty, b.ty) \o emit_store_to_addr(a.ty)), promote(a.ty))

\* The value on top made a ct: what both branches of a conditional become.
ToCommon(x, ct) == Emit(x, CASE ct = type_float /\ ~is_float(x.ty) -> conv_stack_to_float(0)
                             [] ct # type_float /\ is_float(x.ty) -> conv_stack_to_int(0)
                             [] OTHER -> <<>>)

TernBranches(s, n, ct) ==
    LET lf == Len(s.labels) + 1
        a == ToCommon(Gen("value", Gen("jump", NewLabels(s, 2), <<n.c, lf>>), n.l), ct)
        b == ToCommon(Gen("value", set_label(Emit(a, <<jmp(lf + 1)>>), lf), n.r), ct)
    IN Typed(set_label(b, lf + 1), ct)

gen_tern(s, n) ==
    LET Typed2(tt, tf) == IF is_record(tt) \/ is_record(tf) \/ no_type \in {tt, tf} THEN Err(s)
                          ELSE TernBranches(s, n, ternary_common_type(tt, tf))
    IN Typed2(decay_array(infer_type(s, n.l)), decay_array(infer_type(s, n.r)))

gen_vaarg(s, n) ==
    LET l == Lookup(s, n.l.name)
    IN IF n.l.k # "var" \/ is_record(n.ty) \/ is_array(n.ty) THEN Err(s)
       ELSE Typed(Emit(emit_load_addr(Check(s, l.ok), l.sym),
                       << PopB, <<"vaload", IF is_byte(n.ty) THEN 1 ELSE 4, VaStep(s, n.ty)>>, PushA >>), n.ty)

\* A cast to a narrower integer cuts the word in eax.
gen_cast(s, n) ==
    LET a == Gen("value", s, n.l)
        cut == IF n.ty.k \in {"short", "char"} THEN << PopA, <<"ext", MemSize(n.ty), ~n.ty.u>>, PushA >> ELSE <<>>
    IN Typed(Emit(a, ConvForStore(n.ty, a.ty) \o cut), n.ty)

gen_unary(s, n) ==
    LET a == Gen("value", s, n.l)
        t == IF a.ty.u THEN type_uint ELSE type_int
    IN CASE n.op = "-" /\ ~is_float(a.ty) -> Typed(Emit(a, << PopA, <<"neg">>, PushA >>), t)
         [] n.op = "-" -> Typed(Emit(a, << <<"fld", 0>>, <<"fchs">>, <<"fstp", 0>> >>), type_float)
         [] n.op = "!" -> Typed(Emit(a, TruthTest(a.ty) \o << <<"set", "e">>, PushA >>), type_int)
         [] OTHER      -> Typed(Emit(Check(a, ~is_float(a.ty)), << PopA, <<"not">>, PushA >>), t)

Compares == {"<", "<=", ">", ">=", "==", "!="}
CC(op, u) == CASE op = "==" -> "e"
               [] op = "!=" -> "ne"
               [] op = "<"  -> IF u THEN "b" ELSE "l"
               [] op = "<=" -> IF u THEN "be" ELSE "le"
               [] op = ">"  -> IF u THEN "a" ELSE "g"
               [] OTHER     -> IF u THEN "ae" ELSE "ge"

\* Both operands of an x87 operation as floats, the right one on top.
BothFloat(lt, rt) == (IF is_float(rt) THEN <<>> ELSE conv_stack_to_float(0))
                     \o (IF is_float(lt) THEN <<>> ELSE conv_stack_to_float(4))

\* && and || as a value: gen_logical emits both operands itself.
gen_logical_value(s, n) ==
    LET lt == Len(s.labels) + 1
        a  == Gen("logical", NewLabels(s, 2), <<n, lt, lt + 1>>)
        b  == NewLabels(Emit(set_label(a, lt), << <<"pushi", 1>> >>), 1)
        le == Len(b.labels)
        c  == Emit(set_label(Emit(b, <<jmp(le)>>), lt + 1), << <<"pushi", 0>> >>)
    IN Typed(set_label(c, le), type_int)

\* fcompp compares st(0) with st(1), so the left operand is loaded last.
FloatCompare(op) == << <<"fld", 0>>, <<"fld", 4>>, <<"fcompp">>, <<"set", CC(op, TRUE)>>, <<"addesp", 8>>, PushA >>

\* The stack holds both operands; x is the state after them.
gen_compare(x, n, lt, rt, u) ==
    CASE is_float(lt) \/ is_float(rt) ->
           Typed(Emit(Check(x, ~is_ptr(lt) /\ ~is_ptr(rt)), BothFloat(lt, rt) \o FloatCompare(n.op)), type_int)
      [] OTHER -> Typed(Emit(x, << PopB, PopA, <<"cmp">>, <<"set", CC(n.op, u)>>, PushA >>), type_int)

gen_bitop(x, n, lt, rt, u) ==
    Typed(Emit(Check(x, ~is_float(lt) /\ ~is_float(rt) /\ ~is_ptr(lt) /\ ~is_ptr(rt)),
               << PopB, PopA, <<"alu", IF u /\ n.op \in {">>", "%"} THEN n.op \o "u" ELSE n.op>>, PushA >>),
          IF u THEN type_uint ELSE type_int)

\* Pointer arithmetic scales the integer by the size of the pointer's base.
gen_ptr_arith(x, n, lt, rt) ==
    LET sz == type_size(x, Base(IF is_ptr(lt) THEN lt ELSE rt))
        scale == IF sz > 1 THEN << <<"imul", sz>> >> ELSE <<>>
    IN CASE is_ptr(lt) /\ ~is_ptr(rt) ->
              Typed(Emit(x, (IF sz > 1 THEN <<PopA>> \o scale \o <<PushA>> ELSE <<>>)
                            \o << PopB, PopA, <<"alu", n.op>>, PushA >>), lt)
         [] ~is_ptr(lt) -> Typed(Emit(x, <<PopB, PopA>> \o scale \o << <<"alu", "+">>, PushA >>), rt)
         [] OTHER -> Typed(Emit(x, << PopB, PopA, <<"alu", "-">> >>
                                   \o (IF sz > 1 THEN << <<"idivi", sz>> >> ELSE <<>>) \o <<PushA>>), type_int)

gen_arith(x, n, lt, rt, u) ==
    IF is_float(lt) \/ is_float(rt)
    THEN Typed(Emit(Check(x, ~is_ptr(lt) /\ ~is_ptr(rt)),
                    BothFloat(lt, rt) \o << <<"fld", 4>>, <<"fld", 0>>, <<"fop", n.op>>, <<"fstp", 4>>, <<"addesp", 4>> >>),
               type_float)
    ELSE Typed(Emit(x, << PopB, PopA, <<"alu", IF u /\ n.op = "/" THEN "/u" ELSE n.op>>, PushA >>),
               IF u THEN type_uint ELSE type_int)

gen_bin(s, n) ==
    LET a  == Gen("value", s, n.l)
        b  == Gen("value", a, n.r)
        lt == promote(decay_array(a.ty))
        rt == promote(decay_array(b.ty))
        u  == lt.u \/ rt.u \/ is_ptr(lt) \/ is_ptr(rt)
        x  == Check(b, ~(n.op \in {"/", "%"} /\ n.r = Num(0)))
        IntLike(t) == t.k \in {"int", "short", "char", "bool"}
    IN CASE n.op \in {"&&", "||"} -> gen_logical_value(s, n)
         [] n.op \in {"&", "|", "^", "<<", ">>", "%"} -> gen_bitop(x, n, lt, rt, u)
         [] n.op \in Compares -> gen_compare(x, n, lt, rt, u)
         [] \/ n.op \in {"+", "-"} /\ is_ptr(lt) /\ IntLike(rt)
            \/ n.op = "+" /\ is_ptr(rt) /\ IntLike(lt)
            \/ n.op = "-" /\ is_ptr(lt) /\ is_ptr(rt) -> gen_ptr_arith(x, n, lt, rt)
         [] OTHER -> gen_arith(x, n, lt, rt, u)

\* A string goes to rodata with its NUL; the address is fixed at link time.
AddString(s, str) == [s EXCEPT !.rodata = @ \o Append(str, 0)]

gen_expr(s, n) ==
    CASE s.err          -> s
      [] n.k = "num"    -> Typed(Emit(s, << <<"pushi", ToWord(n.v)>> >>), type_int)
      [] n.k = "fnum"   -> Typed(Emit(s, << <<"pushi", ToWord(n.v)>> >>), type_float)
      [] n.k = "str"    -> Typed(Emit(AddString(s, n.v), << <<"strlit", Len(s.rodata)>>, PushA >>), type_ptr(type_char))
      [] n.k = "var"    -> IF Lookup(s, n.name).ok THEN ValueOf(Gen("address", s, n))
                           ELSE Typed(Gen("address", s, n), type_ptr(type_void))
      [] n.k = "addr"   -> LET a == Gen("address", s, n.l) IN Typed(a, type_ptr(a.ty))
      [] n.k = "deref"  -> LET a == Gen("address", s, n) IN IF is_array(a.ty) THEN a ELSE ValueOf(a)
      [] n.k \in {"index", "member"} -> ValueOf(Gen("address", s, n))
      [] n.k = "assign" -> gen_assign(s, n)
      [] n.k = "tern"   -> gen_tern(s, n)
      [] n.k = "vaarg"  -> gen_vaarg(s, n)
      [] n.k = "call"   -> gen_call(s, n)
      [] n.k = "cast"   -> gen_cast(s, n)
      [] n.k = "un"     -> gen_unary(s, n)
      [] OTHER          -> gen_bin(s, n)

IsLogical(e) == e.k = "bin" /\ e.op \in {"&&", "||"}

\* Falls through when e is true, jumps to lf when it is false.
gen_cond(s, e, lf) ==
    IF IsLogical(e)
    THEN LET lt == Len(s.labels) + 1 IN set_label(Gen("logical", new_label(s), <<e, lt, lf>>), lt)
    ELSE LET a == Gen("value", s, e) IN Emit(a, TruthTest(a.ty) \o <<je(lf)>>)

\* Jumps to lt or to lf; the right operand of && and || is reached at mid.
gen_logical(s, e, lt, lf) ==
    IF IsLogical(e)
    THEN LET mid == Len(s.labels) + 1
             a   == IF e.op = "&&" THEN Gen("logical", new_label(s), <<e.l, mid, lf>>)
                                   ELSE Gen("logical", new_label(s), <<e.l, lt, mid>>)
         IN Gen("logical", set_label(a, mid), <<e.r, lt, lf>>)
    ELSE LET a == Gen("value", s, e) IN Emit(a, TruthTest(a.ty) \o <<je(lf), jmp(lt)>>)

Gen(what, s, a) ==
    CASE what = "value"   -> gen_expr(s, a)
      [] what = "address" -> gen_addr(s, a)
      [] what = "jump"    -> gen_cond(s, a[1], a[2])
      [] OTHER            -> gen_logical(s, a[1], a[2], a[3])
=============================================================================
