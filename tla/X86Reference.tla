---------------------------- MODULE X86Reference ----------------------------
(***************************************************************************)
(* What an assembly source means, read back from the loaded program: an    *)
(* x86 decoder, written from the processor's opcode map, finds out where   *)
(* each line of the source lies in memory, a label is the place of what    *)
(* follows it, and every line must decode to what was written.             *)
(***************************************************************************)
EXTENDS Assembler

\* Decoded operands.
R(w, n)          == << "reg", w, n >>
I(v)             == << "imm", v >>
M(b, i, s, d)    == << "mem", b, i, s, d >>
To(a)            == << "to", a >>
Signed8(b) == IF b >= 128 THEN b - 256 ELSE b
Disp(m, p, mod) == CASE mod = 0 -> 0 [] mod = 1 -> Signed8(At(m, p)) [] OTHER -> WordAt(m, p)
DispLen(mod) == CASE mod = 0 -> 0 [] mod = 1 -> 1 [] OTHER -> 4

\* ModRM at p: the middle field, the operand, and where the next byte is.
ModRM(m, p, w) ==
    LET mod == At(m, p) \div 64
        rm == At(m, p) % 8
        sib == At(m, p + 1)
        q == IF rm = 4 THEN p + 2 ELSE p + 1
        base == IF rm = 4 THEN sib % 8 ELSE rm
        index == IF rm = 4 /\ (sib \div 8) % 8 # 4 THEN (sib \div 8) % 8 ELSE -1
        bare == mod = 0 /\ base = 5
    IN [mid |-> (At(m, p) \div 8) % 8,
        o |-> IF mod = 3 THEN R(w, rm)
              ELSE M(IF bare THEN -1 ELSE base, index, IF index < 0 THEN 1 ELSE 2 ^ (sib \div 64), Disp(m, q, IF bare THEN 2 ELSE mod)),
        n |-> IF mod = 3 THEN p + 1 ELSE q + DispLen(IF bare THEN 2 ELSE mod)]

\* An instruction: its name, width, operands (source first) and end.
D(op, w, ops, n) == [op |-> op, w |-> w, ops |-> ops, n |-> n]
ImmOf(m, p, w) == IF w = 1 THEN I(At(m, p)) ELSE I(WordAt(m, p))

Alu == << "add", "or", "adc", "sbb", "and", "sub", "xor", "cmp" >>
Shifts == << "rol", "ror", "rcl", "rcr", "shl", "shr", "sal", "sar" >>
Group3 == << "test", "test", "not", "neg", "mul", "imul", "div", "idiv" >>
Plain == (195 :> "ret") @@ (201 :> "leave") @@ (244 :> "hlt") @@ (153 :> "cdq") @@ (152 :> "cwde")
         @@ (96 :> "pusha") @@ (97 :> "popa") @@ (156 :> "pushf") @@ (157 :> "popf")

TwoByte(m, p) ==
    LET b == At(m, p + 1)
        r(w) == ModRM(m, p + 2, w)
    IN CASE b \in 128 .. 143 -> D(<< "j", b - 128 >>, 4, << To(p + 6 + WordAt(m, p + 2)) >>, p + 6)
         [] b \in 144 .. 159 -> D(<< "set", b - 144 >>, 1, << r(1).o >>, r(1).n)
         [] b \in 64 .. 79   -> D(<< "cmov", b - 64 >>, 4, << r(4).o, R(4, r(4).mid) >>, r(4).n)
         [] b = 175          -> D("imul", 4, << r(4).o, R(4, r(4).mid) >>, r(4).n)
         [] b \in {182, 190} -> D(IF b = 182 THEN "movzbl" ELSE "movsbl", 4, << r(1).o, R(4, r(1).mid) >>, r(1).n)
         [] b \in {183, 191} -> D(IF b = 183 THEN "movzwl" ELSE "movswl", 4, << r(2).o, R(4, r(2).mid) >>, r(2).n)
         [] OTHER -> D("?", 0, <<>>, p + 2)

Decode(m, p) ==
    LET b == At(m, p)
        w == IF b % 2 = 0 THEN 1 ELSE 4
        r == ModRM(m, p + 1, w)
        r4 == ModRM(m, p + 1, 4)
    IN CASE b < 64 /\ b % 8 \in {0, 1} -> D(Alu[b \div 8 + 1], w, << R(w, r.mid), r.o >>, r.n)
         [] b < 64 /\ b % 8 \in {2, 3} -> D(Alu[b \div 8 + 1], w, << r.o, R(w, r.mid) >>, r.n)
         [] b < 64 /\ b % 8 \in {4, 5} -> D(Alu[b \div 8 + 1], w, << ImmOf(m, p + 1, w), R(w, 0) >>, p + 1 + w)
         [] b \in {128, 129} -> D(Alu[r.mid + 1], w, << ImmOf(m, r.n, w), r.o >>, r.n + w)
         [] b = 131          -> D(Alu[r4.mid + 1], 4, << I(Signed8(At(m, r4.n))), r4.o >>, r4.n + 1)
         [] b \in {136, 137} -> D("mov", w, << R(w, r.mid), r.o >>, r.n)
         [] b \in {138, 139} -> D("mov", w, << r.o, R(w, r.mid) >>, r.n)
         [] b \in {160, 161} -> D("mov", w, << M(-1, -1, 1, WordAt(m, p + 1)), R(w, 0) >>, p + 5)
         [] b \in {162, 163} -> D("mov", w, << R(w, 0), M(-1, -1, 1, WordAt(m, p + 1)) >>, p + 5)
         [] b \in 176 .. 183 -> D("mov", 1, << I(At(m, p + 1)), R(1, b - 176) >>, p + 2)
         [] b \in 184 .. 191 -> D("mov", 4, << I(WordAt(m, p + 1)), R(4, b - 184) >>, p + 5)
         [] b \in {198, 199} -> D("mov", w, << ImmOf(m, r.n, w), r.o >>, r.n + w)
         [] b = 141          -> D("lea", 4, << r4.o, R(4, r4.mid) >>, r4.n)
         [] b \in {132, 133} -> D("test", w, << R(w, r.mid), r.o >>, r.n)
         [] b \in {168, 169} -> D("test", w, << ImmOf(m, p + 1, w), R(w, 0) >>, p + 1 + w)
         [] b \in {134, 135} -> D("xchg", w, << R(w, r.mid), r.o >>, r.n)
         [] b = 144          -> D("nop", 4, <<>>, p + 1)
         [] b \in 145 .. 151 -> D("xchg", 4, << R(4, 0), R(4, b - 144) >>, p + 1)
         [] b \in 80 .. 87   -> D("push", 4, << R(4, b - 80) >>, p + 1)
         [] b \in 88 .. 95   -> D("pop", 4, << R(4, b - 88) >>, p + 1)
         [] b = 106          -> D("push", 4, << I(Signed8(At(m, p + 1))) >>, p + 2)
         [] b = 104          -> D("push", 4, << I(WordAt(m, p + 1)) >>, p + 5)
         [] b = 143          -> D("pop", 4, << r4.o >>, r4.n)
         [] b \in 64 .. 79   -> D(IF b < 72 THEN "inc" ELSE "dec", 4, << R(4, b % 8) >>, p + 1)
         [] b \in {246, 247} -> IF r.mid < 2 THEN D("test", w, << ImmOf(m, r.n, w), r.o >>, r.n + w)
                                ELSE D(Group3[r.mid + 1], w, << r.o >>, r.n)
         [] b \in {254, 255} -> CASE r.mid < 2 -> D(IF r.mid = 0 THEN "inc" ELSE "dec", w, << r.o >>, r.n)
                                  [] r.mid = 2 -> D("call", 4, << r4.o >>, r4.n)
                                  [] r.mid = 4 -> D("jmp", 4, << r4.o >>, r4.n)
                                  [] r.mid = 6 -> D("push", 4, << r4.o >>, r4.n)
                                  [] OTHER -> D("?", 0, <<>>, r.n)
         [] b = 107          -> D("imul", 4, << I(Signed8(At(m, r4.n))), r4.o, R(4, r4.mid) >>, r4.n + 1)
         [] b = 105          -> D("imul", 4, << I(WordAt(m, r4.n)), r4.o, R(4, r4.mid) >>, r4.n + 4)
         [] b \in {192, 193} -> D(Shifts[r.mid + 1], w, << I(At(m, r.n)), r.o >>, r.n + 1)
         [] b \in {208, 209} -> D(Shifts[r.mid + 1], w, << I(1), r.o >>, r.n)
         [] b \in {210, 211} -> D(Shifts[r.mid + 1], w, << R(1, 1), r.o >>, r.n)
         [] b \in {232, 233} -> D(IF b = 232 THEN "call" ELSE "jmp", 4, << To(p + 5 + WordAt(m, p + 1)) >>, p + 5)
         [] b = 205          -> D("int", 4, << I(At(m, p + 1)) >>, p + 2)
         [] b = 15           -> TwoByte(m, p)
         [] b \in DOMAIN Plain -> D(Plain[b], 4, <<>>, p + 1)
         [] OTHER -> D("?", 0, <<>>, p + 1)

---------------------------------------------------------------------------
(* Where each line of the source lies: section and offset.                 *)

LineLen(m, l, sec, off) ==
    CASE l.k = "ins" -> Decode(m, HEADER + off).n - HEADER - off
      [] l.k = "data" -> l.w * Len(l.es)
      [] l.k = "strings" -> FoldLeft(LAMBDA n, b: n + Len(b) + (IF l.z THEN 1 ELSE 0), 0, l.ss)
      [] l.k = "space" -> l.n.v
      [] l.k = "align" -> LET a == IF l.p2 THEN 2 ^ l.a.v ELSE l.a.v IN IF a <= 1 THEN 0 ELSE (-off) % a
      [] OTHER -> 0

Place(m, source) ==
    FoldLeft(LAMBDA st, l: IF l.k = "section" THEN [st EXCEPT !.sec = l.s, !.at = Append(@, << l.s, st.off[l.s] >>)]
                           ELSE [st EXCEPT !.at = Append(@, << st.sec, st.off[st.sec] >>), !.off[st.sec] = @ + LineLen(m, l, st.sec, @)],
             [sec |-> "text", off |-> [s \in Sections |-> 0], at |-> <<>>], source)

Bases(pl) == ("text" :> HEADER) @@ ("data" :> HEADER + pl.off["text"]) @@ ("bss" :> HEADER + pl.off["text"] + pl.off["data"])
AddrOf(pl, i) == Bases(pl)[pl.at[i][1]] + pl.at[i][2]

\* The value of an expression at line i: a name is its label or its .equ.
RECURSIVE ValueAt(_, _, _, _)
ValueAt(source, pl, i, e) ==
    CASE e.k = "num" -> e.v
      [] e.k = "dot" -> AddrOf(pl, i)
      [] e.k = "neg" -> -ValueAt(source, pl, i, e.a)
      [] e.k = "sym" -> LET j == CHOOSE j \in DOMAIN source : source[j].k \in {"label", "equ"} /\ source[j].x = e.x
                        IN IF source[j].k = "label" THEN AddrOf(pl, j) ELSE ValueAt(source, pl, j, source[j].e)
      [] e.k = "+" -> ValueAt(source, pl, i, e.a) + ValueAt(source, pl, i, e.b)
      [] OTHER -> ValueAt(source, pl, i, e.a) - ValueAt(source, pl, i, e.b)

\* Width: the suffix, the destination register, or 32 bits.
WidthOf(l) ==
    LET regs == SelectSeq(l.ops, LAMBDA o: o.k = "reg")
    IN CASE l.m \in DOMAIN extend_ops \cup {"cmov"} -> 4 [] l.m = "set" -> 1
         [] l.w # 0 -> l.w [] regs = <<>> -> 4 [] OTHER -> reg_lookup(Last(regs).r).size

Synonyms == ("sal" :> "shl") @@ ("cltd" :> "cdq") @@ ("cwtl" :> "cwde") @@ ("pushal" :> "pusha") @@ ("popal" :> "popa")
            @@ ("pushfl" :> "pushf") @@ ("popfl" :> "popf")
NumberOf(r) == IF r = "" THEN -1 ELSE reg_lookup(r).reg
Symmetric == {"test", "xchg"}

\* The instruction of line i as the decoder should see it.
WrittenOps(source, pl, i) ==
    LET l == source[i]
        v(e) == ValueAt(source, pl, i, e)
        operand(o) ==
            CASE o.k = "reg" -> LET r == reg_lookup(o.r) IN R(r.size, r.reg)
              [] o.k = "imm" -> I(IF WidthOf(l) = 1 \/ l.m \in DOMAIN shift_digits THEN v(o.e) % 256 ELSE v(o.e))
              [] l.m \in {"j", "jmp", "call"} /\ o.b = "" /\ o.i = "" -> To(v(o.e))
              [] OTHER -> M(NumberOf(o.b), NumberOf(o.i), IF o.i = "" THEN 1 ELSE v(o.s), v(o.e))
        ops == [j \in DOMAIN l.ops |-> operand(l.ops[j])]
    IN IF l.m \in DOMAIN shift_digits /\ Len(ops) = 1 THEN << I(1) >> \o ops ELSE ops

InstructionIsWritten(m, source, pl, i) ==
    LET l == source[i]
        d == Decode(m, AddrOf(pl, i))
        ops == WrittenOps(source, pl, i)
        name == IF l.cc # "" THEN << l.m, cc_ops[l.cc] >> ELSE IF l.m \in DOMAIN Synonyms THEN Synonyms[l.m] ELSE l.m
    IN \/ d.op = name /\ d.w = WidthOf(l) /\ (d.ops = ops \/ (l.m \in Symmetric /\ d.ops = Reverse(ops)))
       \/ d.op = "nop" /\ l.m = "xchg" /\ ops = << R(4, 0), R(4, 0) >>

DataIsWritten(m, source, pl, i) ==
    LET l == source[i]
        a == AddrOf(pl, i)
        bytes == CASE l.k = "data" -> FlattenSeq([j \in DOMAIN l.es |-> SubSeq(Word32(ValueAt(source, pl, i, l.es[j])), 1, l.w)])
                   [] l.k = "strings" -> FlattenSeq([j \in DOMAIN l.ss |-> IF l.z THEN Append(l.ss[j], 0) ELSE l.ss[j]])
                   [] OTHER -> [j \in 1 .. l.n.v |-> IF pl.at[i][1] = "bss" THEN 0 ELSE l.f]
    IN \A j \in DOMAIN bytes : At(m, a + j - 1) = bytes[j]

EntryOf(source, pl) ==
    LET has(x) == \E j \in DOMAIN source : source[j].k = "label" /\ source[j].x = x
        where(x) == AddrOf(pl, CHOOSE j \in DOMAIN source : source[j].k = "label" /\ source[j].x = x)
    IN IF has("_start") THEN where("_start") ELSE IF has("main") THEN where("main") ELSE HEADER

\* The loaded program is the source.
ProgramIsWritten(run, source) ==
    LET pl == Place(run.mem, source)
    IN /\ \A i \in DOMAIN source : source[i].k = "ins" => InstructionIsWritten(run.mem, source, pl, i)
       /\ \A i \in DOMAIN source : source[i].k \in {"data", "strings", "space"} => DataIsWritten(run.mem, source, pl, i)
       /\ run.entry = EntryOf(source, pl)
       /\ run.brk = Bases(pl)["bss"] + pl.off["bss"]

---------------------------------------------------------------------------
(* main: pass 1, addresses, pass 2 twice, the file; then the kernel loads  *)
(* it.                                                                     *)

VARIABLES asrc,   \* the source: ok, and its lines
          ast,    \* the assembler's state
          astep,  \* how far main got
          arun    \* the program in memory

avars == << asrc, ast, astep, arun >>
NoRun == [mem |-> <<>>, brk |-> 0, entry |-> 0]

AsInit(sources) ==
    /\ asrc \in sources
    /\ ast = StartState
    /\ astep = "size"
    /\ arun = NoRun

SizePass ==
    /\ astep = "size"
    /\ \E st \in {run_pass(ast, 1, asrc.lines)} :
          /\ ast' = IF st.err THEN st ELSE Resolve(st)
          /\ astep' = IF st.err THEN "refused" ELSE "settle"
    /\ UNCHANGED << asrc, arun >>

\* The first emit pass settles every .equ; its errors do not count.
SettlePass ==
    /\ astep = "settle"
    /\ ast' = [run_pass(ast, 2, asrc.lines) EXCEPT !.err = FALSE]
    /\ astep' = "emit"
    /\ UNCHANGED << asrc, arun >>

EmitPass ==
    /\ astep = "emit"
    /\ ast' = run_pass(ast, 2, asrc.lines)
    /\ astep' = IF ast'.err THEN "refused" ELSE "saved"
    /\ UNCHANGED << asrc, arun >>

RunAssembled ==
    /\ astep = "saved"
    /\ CanLoad(build_elf(ast))
    /\ arun' = Loaded(build_elf(ast))
    /\ astep' = "loaded"
    /\ UNCHANGED << asrc, ast >>

AsDone == astep \in {"refused", "loaded"} /\ UNCHANGED avars

AsNext == SizePass \/ SettlePass \/ EmitPass \/ RunAssembled \/ AsDone

\* Every instruction, datum and address of the source is in the loaded program
\* as it was written, at the place its labels name, whatever the order of
\* definitions and uses.
AssembledMeansSource == (asrc.ok /\ astep = "loaded") => ProgramIsWritten(arun, asrc.lines)

\* A source with a mistake of one of the kinds that as.c looks for (an
\* undefined name, a label defined twice, an unknown mnemonic, register or
\* condition, operands it has no encoding for, a full table or buffer, data in
\* .bss) yields no file; a source without a mistake yields one.
IllFormedAssemblyRefused == astep \in {"refused", "loaded"} => (astep = "loaded" <=> asrc.ok)
=============================================================================
