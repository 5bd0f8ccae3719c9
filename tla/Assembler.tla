----------------------------- MODULE Assembler ------------------------------
(***************************************************************************)
(* user/as.c: the two-pass x86-32 assembler.  A source is a sequence of    *)
(* lines already split into operands and expressions; what each line does  *)
(* to the sections and to the symbol table, and every byte it emits, is    *)
(* modelled.                                                               *)
(***************************************************************************)
EXTENDS ElfImage, FiniteSets, TLC

CONSTANTS MAX_TEXT, MAX_DATA,     \* bytes text_buf and data_buf hold
          MAX_SYM                 \* symbols the table holds

\* Expressions, operands and lines of a source.
Num(v)      == [k |-> "num", v |-> v]
Sym(x)      == [k |-> "sym", x |-> x]
Dot         == [k |-> "dot"]
Neg(a)      == [k |-> "neg", a |-> a]
Plus(a, b)  == [k |-> "+", a |-> a, b |-> b]
Minus(a, b) == [k |-> "-", a |-> a, b |-> b]
Reg(r)            == [k |-> "reg", r |-> r]
Imm(e)            == [k |-> "imm", e |-> e]
Mem(e, b, i, s)   == [k |-> "mem", e |-> e, b |-> b, i |-> i, s |-> s]
Label(x)          == [k |-> "label", x |-> x]
Section(s)        == [k |-> "section", s |-> s]
Data(w, es)       == [k |-> "data", w |-> w, es |-> es]
Strings(ss, z)    == [k |-> "strings", ss |-> ss, z |-> z]
Space(n, f)       == [k |-> "space", n |-> n, f |-> f]
Align(a)          == [k |-> "align", a |-> a, p2 |-> FALSE]
P2Align(a)        == [k |-> "align", a |-> a, p2 |-> TRUE]
Ignored           == [k |-> "ignored"]
Equ(x, e)         == [k |-> "equ", x |-> x, e |-> e]
InsW(m, w, ops)   == [k |-> "ins", m |-> m, cc |-> "", w |-> w, ops |-> ops]
Ins(m, ops)       == InsW(m, 0, ops)
InsCC(m, cc, ops) == [k |-> "ins", m |-> m, cc |-> cc, w |-> 0, ops |-> ops]

---------------------------------------------------------------------------
(* State of one run: text, data and bss_len of the pass under way, the     *)
(* symbols, and whether err was called.                                    *)

Sections == {"text", "data", "bss"}
StartState == [pass |-> 1, sec |-> "text", text |-> <<>>, data |-> <<>>, bss |-> 0,
               base |-> [s \in Sections |-> 0], syms |-> <<>>, err |-> FALSE]

Err(st) == [st EXCEPT !.err = TRUE]

\* sym_find / sym_intern: the table maps the names met so far.
sym_find(st, x) == x \in DOMAIN st.syms
Intern(st, x, rec) ==
    IF ~sym_find(st, x) /\ Cardinality(DOMAIN st.syms) >= MAX_SYM THEN Err(st)
    ELSE [st EXCEPT !.syms = (x :> rec) @@ @]

emit8(st, b) ==
    CASE st.sec = "text" -> IF st.pass = 2 /\ Len(st.text) >= MAX_TEXT THEN Err(st) ELSE [st EXCEPT !.text = Append(@, b % 256)]
      [] st.sec = "data" -> IF st.pass = 2 /\ Len(st.data) >= MAX_DATA THEN Err(st) ELSE [st EXCEPT !.data = Append(@, b % 256)]
      [] OTHER -> Err(st)

Emit(st, bytes) == FoldLeft(emit8, st, bytes)
emit32(st, v) == Emit(st, Word32(v))
emit16(st, v) == Emit(st, SubSeq(Word32(v), 1, 2))
EmitN(st, v, n) == Emit(st, SubSeq(Word32(v), 1, n))

sec_len(st) == CASE st.sec = "text" -> Len(st.text) [] st.sec = "data" -> Len(st.data) [] OTHER -> st.bss
cur_addr(st) == st.base[st.sec] + sec_len(st)

\* A value, and whether a symbol took part: sizes may depend on the second only.
Value(v, s, b) == [val |-> v, has_sym |-> s, bad |-> b]

RECURSIVE parse_expr(_, _)
parse_expr(st, e) ==
    CASE e.k = "num" -> Value(e.v, FALSE, FALSE)
      [] e.k = "dot" -> Value(cur_addr(st), TRUE, FALSE)
      [] e.k = "sym" -> IF st.pass = 1 THEN Value(0, TRUE, FALSE)
                        ELSE IF sym_find(st, e.x) THEN Value(st.syms[e.x].addr, TRUE, FALSE) ELSE Value(0, TRUE, TRUE)
      [] e.k = "neg" -> LET a == parse_expr(st, e.a) IN [a EXCEPT !.val = -@]
      [] OTHER -> LET a == parse_expr(st, e.a)
                      b == parse_expr(st, e.b)
                  IN Value(IF e.k = "-" THEN a.val - b.val ELSE a.val + b.val, a.has_sym \/ b.has_sym, a.bad \/ b.bad)

reg32 == << "eax", "ecx", "edx", "ebx", "esp", "ebp", "esi", "edi" >>
reg8  == << "al", "cl", "dl", "bl", "ah", "ch", "dh", "bh" >>
reg16 == << "ax", "cx", "dx", "bx", "sp", "bp", "si", "di" >>
RegTable == << reg32, reg8, reg16 >>
RegWidth == << 4, 1, 2 >>

\* A register's number and width; number -1 for a name that is none.
reg_lookup(r) ==
    IF \E t \in 1 .. 3, i \in 1 .. 8 : RegTable[t][i] = r
    THEN LET q == CHOOSE q \in (1 .. 3) \X (1 .. 8) : RegTable[q[1]][q[2]] = r IN [reg |-> q[2] - 1, size |-> RegWidth[q[1]]]
    ELSE [reg |-> -1, size |-> 0]

\* Base and index: absent ("") is -1; ok unless the register is unusable there.
AddressReg(r) == IF r = "" THEN [reg |-> -1, size |-> 4] ELSE reg_lookup(r)
NoVal == Value(0, FALSE, FALSE)

\* The operand as asm_insn sees it; ok is parse_operand's return value, bad
\* an error that does not stop the line.
parse_operand(st, o) ==
    LET r == IF o.k = "reg" THEN reg_lookup(o.r) ELSE [reg |-> -1, size |-> 0]
        b == IF o.k = "mem" THEN AddressReg(o.b) ELSE [reg |-> -1, size |-> 4]
        i == IF o.k = "mem" THEN AddressReg(o.i) ELSE [reg |-> -1, size |-> 4]
        d == IF o.k = "reg" THEN NoVal ELSE parse_expr(st, o.e)
        s == IF o.k = "mem" /\ o.i # "" THEN parse_expr(st, o.s) ELSE Value(1, FALSE, FALSE)
    IN [kind |-> o.k, reg |-> r.reg, size |-> r.size, base |-> b.reg, index |-> i.reg, scale |-> s.val, disp |-> d,
        ok |-> (o.k = "reg" => r.reg >= 0) /\ b.size = 4 /\ i.size = 4 /\ i.reg # 4, bad |-> d.bad \/ s.bad]

---------------------------------------------------------------------------
(* Encoding.                                                               *)

IsReg(o) == o.kind = "reg"
IsImm(o) == o.kind = "imm"
IsMem(o) == o.kind = "mem"
IsAbs(o) == IsMem(o) /\ o.base < 0 /\ o.index < 0
IsAcc(o) == IsReg(o) /\ o.reg = 0

ScaleBits == (1 :> 0) @@ (2 :> 1) @@ (4 :> 2) @@ (8 :> 3)
scale_bits(s) == IF s \in DOMAIN ScaleBits THEN ScaleBits[s] ELSE 0
BadScale(o) == IsMem(o) /\ o.index >= 0 /\ o.scale \notin DOMAIN ScaleBits

ModOf(o) == IF o.disp.has_sym THEN 2
            ELSE IF o.disp.val = 0 /\ o.base # 5 THEN 0
            ELSE IF o.disp.val \in -128 .. 127 THEN 1 ELSE 2

\* ModRM, SIB and displacement of o, with reg (or an opcode digit) in the middle.
emit_modrm(st, reg, o) ==
    LET mid == (reg % 8) * 8
        checked == IF BadScale(o) THEN Err(st) ELSE st
        sib(base) == scale_bits(o.scale) * 64 + (IF o.index < 0 THEN 4 ELSE o.index) * 8 + base
        head == IF o.index >= 0 \/ o.base = 4 THEN << ModOf(o) * 64 + mid + 4, sib(o.base) >> ELSE << ModOf(o) * 64 + mid + o.base >>
    IN CASE IsReg(o) -> Emit(st, << 192 + mid + o.reg >>)
         [] ~IsReg(o) /\ ~IsMem(o) -> Err(st)
         [] IsAbs(o) -> emit32(Emit(st, << mid + 5 >>), o.disp.val)
         [] IsMem(o) /\ ~IsAbs(o) /\ o.base < 0 -> emit32(Emit(checked, << mid + 4, sib(5) >>), o.disp.val)
         [] OTHER -> CASE ModOf(o) = 0 -> Emit(checked, head)
                       [] ModOf(o) = 1 -> Emit(checked, head \o << o.disp.val >>)
                       [] OTHER -> emit32(Emit(checked, head), o.disp.val)

\* Mutant: the value alone chooses the form.
ImmFitsByValue(o) == o.disp.val \in -128 .. 127

\* An imm8 form is only safe when pass 1 could already see the value.
imm_fits8(o) == ~o.disp.has_sym /\ o.disp.val \in -128 .. 127

emit_rel32(st, target) == emit32(st, IF st.pass = 2 THEN target.val - (cur_addr(st) + 4) ELSE 0)

\* The opcode of the byte form or of the wide form.
ByWidth(size, narrow, wide) == IF size = 1 THEN narrow ELSE wide
EmitImm(st, size, o) == IF size = 1 THEN Emit(st, << o.disp.val >>) ELSE emit32(st, o.disp.val)
OpModRM(st, opcode, reg, o) == emit_modrm(Emit(st, << opcode >>), reg, o)

alu_ops == << "add", "or", "adc", "sbb", "and", "sub", "xor", "cmp" >>

AsmAlu(st, digit, src, dst, size) ==
    LET base == digit * 8
    IN CASE IsImm(src) /\ size = 1 ->
                Emit(IF IsAcc(dst) THEN Emit(st, << base + 4 >>) ELSE OpModRM(st, 128, digit, dst), << src.disp.val >>)
         [] IsImm(src) /\ size # 1 /\ imm_fits8(src) -> Emit(OpModRM(st, 131, digit, dst), << src.disp.val >>)
         [] IsImm(src) /\ size # 1 /\ ~imm_fits8(src) ->
                emit32(IF IsAcc(dst) THEN Emit(st, << base + 5 >>) ELSE OpModRM(st, 129, digit, dst), src.disp.val)
         [] IsReg(src) -> OpModRM(st, base + ByWidth(size, 0, 1), src.reg, dst)
         [] IsMem(src) /\ IsReg(dst) -> OpModRM(st, base + ByWidth(size, 2, 3), dst.reg, src)
         [] OTHER -> Err(st)

AsmMov(st, src, dst, size) ==
    CASE IsAbs(src) /\ IsAcc(dst) -> emit32(Emit(st, << ByWidth(size, 160, 161) >>), src.disp.val)
      [] IsAcc(src) /\ IsAbs(dst) -> emit32(Emit(st, << ByWidth(size, 162, 163) >>), dst.disp.val)
      [] IsImm(src) /\ IsReg(dst) -> EmitImm(Emit(st, << ByWidth(size, 176, 184) + dst.reg >>), size, src)
      [] IsImm(src) /\ ~IsReg(dst) -> EmitImm(OpModRM(st, ByWidth(size, 198, 199), 0, dst), size, src)
      [] IsReg(src) /\ ~(IsAcc(src) /\ IsAbs(dst)) -> OpModRM(st, ByWidth(size, 136, 137), src.reg, dst)
      [] IsMem(src) /\ IsReg(dst) /\ ~(IsAbs(src) /\ IsAcc(dst)) -> OpModRM(st, ByWidth(size, 138, 139), dst.reg, src)
      [] OTHER -> Err(st)

AsmTest(st, src, dst, size) ==
    CASE IsImm(src) /\ IsAcc(dst) -> EmitImm(Emit(st, << ByWidth(size, 168, 169) >>), size, src)
      [] IsImm(src) /\ ~IsAcc(dst) -> EmitImm(OpModRM(st, ByWidth(size, 246, 247), 0, dst), size, src)
      [] IsReg(src) -> OpModRM(st, ByWidth(size, 132, 133), src.reg, dst)
      [] IsMem(src) /\ IsReg(dst) -> OpModRM(st, ByWidth(size, 132, 133), dst.reg, src)
      [] OTHER -> Err(st)

AsmXchg(st, a, b, size) ==
    CASE size = 4 /\ IsReg(a) /\ IsReg(b) /\ (a.reg = 0 \/ b.reg = 0) -> Emit(st, << 144 + (IF a.reg = 0 THEN b.reg ELSE a.reg) >>)
      [] IsReg(a) /\ ~(size = 4 /\ IsReg(b) /\ (a.reg = 0 \/ b.reg = 0)) -> OpModRM(st, 135, a.reg, b)
      [] ~IsReg(a) /\ IsReg(b) -> OpModRM(st, 135, b.reg, a)
      [] OTHER -> Err(st)

AsmPush(st, o) ==
    CASE IsReg(o) -> Emit(st, << 80 + o.reg >>)
      [] IsImm(o) -> IF imm_fits8(o) THEN Emit(st, << 106, o.disp.val >>) ELSE emit32(Emit(st, << 104 >>), o.disp.val)
      [] OTHER -> OpModRM(st, 255, 6, o)

AsmPop(st, o) == IF IsReg(o) THEN Emit(st, << 88 + o.reg >>) ELSE OpModRM(st, 143, 0, o)

AsmIncDec(st, digit, o, size) ==
    IF IsReg(o) /\ size = 4 THEN Emit(st, << 64 + 8 * digit + o.reg >>) ELSE OpModRM(st, ByWidth(size, 254, 255), digit, o)

unary_digits == ("not" :> 2) @@ ("neg" :> 3) @@ ("mul" :> 4) @@ ("div" :> 6) @@ ("idiv" :> 7)

AsmImul(st, ops) ==
    CASE Len(ops) = 1 -> OpModRM(st, 247, 5, ops[1])
      [] Len(ops) = 2 /\ IsReg(ops[2]) -> OpModRM(Emit(st, << 15 >>), 175, ops[2].reg, ops[1])
      [] Len(ops) = 3 /\ IsImm(ops[1]) /\ IsReg(ops[3]) ->
            IF imm_fits8(ops[1]) THEN Emit(OpModRM(st, 107, ops[3].reg, ops[2]), << ops[1].disp.val >>)
            ELSE emit32(OpModRM(st, 105, ops[3].reg, ops[2]), ops[1].disp.val)
      [] OTHER -> Err(st)

shift_digits == ("shl" :> 4) @@ ("sal" :> 4) @@ ("shr" :> 5) @@ ("sar" :> 7) @@ ("rol" :> 0) @@ ("ror" :> 1)

AsmShift(st, digit, ops, size) ==
    LET cnt == ops[1]
        ByOne == Len(ops) = 2 /\ IsImm(cnt) /\ ~cnt.disp.has_sym /\ cnt.disp.val = 1
    IN CASE Len(ops) = 1 \/ ByOne -> OpModRM(st, ByWidth(size, 208, 209), digit, Last(ops))
         [] Len(ops) = 2 /\ IsImm(cnt) /\ ~ByOne -> Emit(OpModRM(st, ByWidth(size, 192, 193), digit, ops[2]), << cnt.disp.val >>)
         [] Len(ops) = 2 /\ IsReg(cnt) /\ cnt.reg = 1 /\ cnt.size = 1 -> OpModRM(st, ByWidth(size, 210, 211), digit, ops[2])
         [] OTHER -> Err(st)

\* jmp and call: a bare symbol is relative, anything else indirect.
AsmBranch(st, rel, digit, o) ==
    IF IsAbs(o) THEN emit_rel32(Emit(st, << rel >>), o.disp) ELSE OpModRM(st, 255, digit, o)

cc_ops == ("o" :> 0) @@ ("no" :> 1) @@ ("b" :> 2) @@ ("nae" :> 2) @@ ("c" :> 2) @@ ("ae" :> 3) @@ ("nb" :> 3) @@ ("nc" :> 3)
          @@ ("e" :> 4) @@ ("z" :> 4) @@ ("ne" :> 5) @@ ("nz" :> 5) @@ ("be" :> 6) @@ ("na" :> 6) @@ ("a" :> 7) @@ ("nbe" :> 7)
          @@ ("s" :> 8) @@ ("ns" :> 9) @@ ("p" :> 10) @@ ("np" :> 11) @@ ("l" :> 12) @@ ("nge" :> 12) @@ ("ge" :> 13) @@ ("nl" :> 13)
          @@ ("le" :> 14) @@ ("ng" :> 14) @@ ("g" :> 15) @@ ("nle" :> 15)

\* jcc, setcc and cmovcc.
AsmCond(st, m, cc, ops) ==
    CASE m = "j" /\ Len(ops) = 1 -> emit_rel32(Emit(st, << 15, 128 + cc >>), ops[1].disp)
      [] m = "set" /\ Len(ops) = 1 -> OpModRM(Emit(st, << 15 >>), 144 + cc, 0, ops[1])
      [] m = "cmov" /\ Len(ops) = 2 -> IF IsReg(ops[2]) THEN OpModRM(Emit(st, << 15 >>), 64 + cc, ops[2].reg, ops[1]) ELSE Err(st)
      [] OTHER -> Err(st)

extend_ops == ("movzbl" :> 182) @@ ("movsbl" :> 190) @@ ("movzwl" :> 183) @@ ("movswl" :> 191)
plain_ops == ("ret" :> 195) @@ ("leave" :> 201) @@ ("nop" :> 144) @@ ("hlt" :> 244) @@ ("cdq" :> 153) @@ ("cltd" :> 153)
             @@ ("cwde" :> 152) @@ ("cwtl" :> 152) @@ ("pushal" :> 96) @@ ("pusha" :> 96) @@ ("popal" :> 97) @@ ("popa" :> 97)
             @@ ("pushfl" :> 156) @@ ("pushf" :> 156) @@ ("popfl" :> 157) @@ ("popf" :> 157)
TwoOperands == Range(alu_ops) \cup {"mov", "test", "xchg", "lea"} \cup DOMAIN extend_ops
OneOperand == {"push", "pop", "inc", "dec", "jmp", "call", "int"} \cup DOMAIN unary_digits

asm_insn(st, m, cc, ops, size) ==
    CASE m \in TwoOperands /\ Len(ops) # 2 -> Err(st)
      [] m \in OneOperand /\ Len(ops) # 1 -> Err(st)
      [] m \in Range(alu_ops) /\ Len(ops) = 2 -> AsmAlu(st, (CHOOSE i \in 1 .. 8 : alu_ops[i] = m) - 1, ops[1], ops[2], size)
      [] m = "mov" /\ Len(ops) = 2 -> AsmMov(st, ops[1], ops[2], size)
      [] m \in DOMAIN extend_ops /\ Len(ops) = 2 ->
            IF IsReg(ops[2]) THEN OpModRM(Emit(st, << 15 >>), extend_ops[m], ops[2].reg, ops[1]) ELSE Err(st)
      [] m = "lea" /\ Len(ops) = 2 -> IF IsMem(ops[1]) /\ IsReg(ops[2]) THEN OpModRM(st, 141, ops[2].reg, ops[1]) ELSE Err(st)
      [] m = "test" /\ Len(ops) = 2 -> AsmTest(st, ops[1], ops[2], size)
      [] m = "xchg" /\ Len(ops) = 2 -> AsmXchg(st, ops[1], ops[2], size)
      [] m = "push" /\ Len(ops) = 1 -> AsmPush(st, ops[1])
      [] m = "pop" /\ Len(ops) = 1 -> AsmPop(st, ops[1])
      [] m \in {"inc", "dec"} /\ Len(ops) = 1 -> AsmIncDec(st, IF m = "dec" THEN 1 ELSE 0, ops[1], size)
      [] m \in DOMAIN unary_digits /\ Len(ops) = 1 -> OpModRM(st, ByWidth(size, 246, 247), unary_digits[m], ops[1])
      [] m = "imul" -> AsmImul(st, ops)
      [] m \in DOMAIN shift_digits -> IF ops = <<>> THEN Err(st) ELSE AsmShift(st, shift_digits[m], ops, size)
      [] m = "jmp" /\ Len(ops) = 1 -> AsmBranch(st, 233, 4, ops[1])
      [] m = "call" /\ Len(ops) = 1 -> AsmBranch(st, 232, 2, ops[1])
      [] m \in {"j", "set", "cmov"} /\ cc \in DOMAIN cc_ops -> AsmCond(st, m, cc_ops[cc], ops)
      [] m \in DOMAIN plain_ops -> Emit(st, << plain_ops[m] >>)
      [] m = "int" /\ Len(ops) = 1 -> IF IsImm(ops[1]) THEN Emit(st, << 205, ops[1].disp.val >>) ELSE Err(st)
      [] OTHER -> Err(st)

---------------------------------------------------------------------------
(* Lines.                                                                  *)

\* Mutant: a label may be defined again.
LabelAgain(st, x) ==
    IF st.pass # 1 THEN st ELSE Intern(st, x, [section |-> st.sec, offset |-> sec_len(st), addr |-> 0, abs |-> FALSE])

AsmLabel(st, x) ==
    IF st.pass # 1 THEN st
    ELSE Intern(IF sym_find(st, x) THEN Err(st) ELSE st, x,
                [section |-> st.sec, offset |-> sec_len(st), addr |-> 0, abs |-> sym_find(st, x) /\ st.syms[x].abs])

DirData(st, w, es) == FoldLeft(LAMBDA s, e: LET v == parse_expr(s, e) IN EmitN(IF v.bad THEN Err(s) ELSE s, v.val, w), st, es)

\* .ascii, and .asciz with its terminator.
emit_string(st, ss, z) == FoldLeft(LAMBDA s, b: Emit(s, IF z THEN Append(b, 0) ELSE b), st, ss)

DirSpace(st, n, f) ==
    LET v == parse_expr(st, n)
    IN IF v.has_sym THEN Err(st)
       ELSE IF st.sec = "bss" THEN [st EXCEPT !.bss = @ + v.val]
       ELSE Emit(st, [i \in 1 .. v.val |-> f])

\* Padding up to a multiple of align of the section's own length.
DirAlign(st, a, p2) ==
    LET v == parse_expr(st, a)
        align == IF p2 THEN 2 ^ v.val ELSE v.val
        pad == IF align <= 1 THEN 0 ELSE (-sec_len(st)) % align
        s == IF v.bad THEN Err(st) ELSE st
    IN IF st.sec = "bss" THEN [s EXCEPT !.bss = @ + pad]
       ELSE Emit(s, [i \in 1 .. pad |-> IF st.sec = "text" THEN 144 ELSE 0])

DirEqu(st, x, e) ==
    LET v == parse_expr(st, e)
        old == IF sym_find(st, x) THEN st.syms[x] ELSE [section |-> "text", offset |-> 0, addr |-> 0, abs |-> TRUE]
    IN Intern(IF v.bad THEN Err(st) ELSE st, x, [old EXCEPT !.abs = TRUE, !.addr = v.val])

stems == Range(alu_ops) \cup DOMAIN unary_digits \cup DOMAIN shift_digits
         \cup {"mov", "test", "lea", "push", "pop", "inc", "dec", "imul", "xchg"}

\* The width: the suffix, or the last register operand, or 32 bits.
OperandWidth(w, ops) ==
    LET regs == SelectSeq(ops, IsReg)
    IN IF w # 0 THEN w ELSE IF regs = <<>> THEN 4 ELSE Last(regs).size

MAX_OPS == 3

AsmInstruction(st, l) ==
    LET ops == [i \in DOMAIN l.ops |-> parse_operand(st, l.ops[i])]
        s == IF \E i \in DOMAIN ops : ops[i].bad THEN Err(st) ELSE st
    IN IF (l.w # 0 /\ l.m \notin stems) \/ Len(ops) > MAX_OPS \/ \E i \in DOMAIN ops : ~ops[i].ok THEN Err(st)
       ELSE asm_insn(s, l.m, l.cc, ops, OperandWidth(l.w, ops))

asm_line(st, l) ==
    CASE l.k = "label"   -> AsmLabel(st, l.x)
      [] l.k = "section" -> [st EXCEPT !.sec = l.s]
      [] l.k = "data"    -> DirData(st, l.w, l.es)
      [] l.k = "strings" -> emit_string(st, l.ss, l.z)
      [] l.k = "ignored" -> st
      [] l.k = "space"   -> DirSpace(st, l.n, l.f)
      [] l.k = "align"   -> DirAlign(st, l.a, l.p2)
      [] l.k = "equ"     -> DirEqu(st, l.x, l.e)
      [] l.k = "ins"     -> AsmInstruction(st, l)
      [] OTHER -> Err(st)

run_pass(st, which, source) ==
    FoldLeft(asm_line, [st EXCEPT !.pass = which, !.sec = "text", !.text = <<>>, !.data = <<>>, !.bss = 0], source)

\* Between the passes: section bases from the sizes, addresses from the bases.
Resolve(st) ==
    LET base == [s \in Sections |-> CASE s = "text" -> HEADER [] s = "data" -> HEADER + Len(st.text)
                                      [] OTHER -> HEADER + Len(st.text) + Len(st.data)]
    IN [st EXCEPT !.base = base,
                  !.syms = [x \in DOMAIN @ |-> IF @[x].abs THEN @[x] ELSE [@[x] EXCEPT !.addr = base[st.syms[x].section] + st.syms[x].offset]]]

build_elf(st) ==
    LET entry == IF sym_find(st, "_start") THEN st.syms["_start"].addr
                 ELSE IF sym_find(st, "main") THEN st.syms["main"].addr ELSE st.base["text"]
    IN ElfFile(entry, st.text \o st.data, st.bss)
=============================================================================
