---------------------------- MODULE MCAssembler -----------------------------
(***************************************************************************)
(* Assembly sources: every instruction the assembler knows with every kind *)
(* of operand, and programs of labels, sections and symbols.               *)
(***************************************************************************)
EXTENDS X86Reference

Source(lines) == [ok |-> TRUE, lines |-> lines]
Wrong(lines) == [ok |-> FALSE, lines |-> lines]

n(v) == Num(v)
Regs == {Reg(r) : r \in {"eax", "ecx", "esp", "ebp"}}
Bytes == {Reg(r) : r \in {"al", "cl", "bh"}}
Imms == {Imm(n(v)) : v \in {0, 1, 127, 128, -128, -129, 70000}} \cup {Imm(Sym("x")), Imm(Sym("c"))}
ByteImms == {Imm(n(v)) : v \in {1, 200, -2}}
Mems == {Mem(n(0), "eax", "", n(1)), Mem(n(0), "ebp", "", n(1)), Mem(n(8), "esp", "", n(1)), Mem(n(-129), "ecx", "", n(1)),
         Mem(n(127), "ebp", "esi", n(4)), Mem(n(0), "esp", "ebp", n(2)), Mem(n(16), "", "edi", n(8)), Mem(n(4660), "", "", n(1)),
         Mem(Sym("x"), "", "", n(1)), Mem(Plus(Sym("x"), n(4)), "ebx", "", n(1)), Mem(Neg(Sym("c")), "eax", "eax", n(1))}
SomeMems == {Mem(n(0), "ebp", "", n(1)), Mem(n(300), "esp", "ecx", n(8)), Mem(Sym("x"), "", "", n(1))}

TwoOps == {"add", "cmp", "xor", "mov", "test"}
Instructions ==
    {Ins(op, << a, b >>) : op \in TwoOps, a \in Regs, b \in Regs \cup Mems}
    \cup {Ins(op, << a, b >>) : op \in TwoOps \cup {"lea"}, a \in Mems, b \in Regs}
    \cup {Ins(op, << a, b >>) : op \in TwoOps, a \in Imms, b \in Regs}
    \cup {InsW(op, 4, << a, b >>) : op \in TwoOps, a \in Imms, b \in SomeMems}
    \cup {InsW(op, 1, << a, b >>) : op \in TwoOps, a \in ByteImms, b \in SomeMems}
    \cup {Ins(op, << a, b >>) : op \in TwoOps, a \in ByteImms \cup Bytes \cup SomeMems, b \in Bytes}
    \cup {Ins(op, << a, b >>) : op \in TwoOps, a \in Bytes, b \in SomeMems}
    \cup {Ins(alu_ops[j], << a, Reg("edi") >>) : j \in 1 .. 8, a \in {Reg("esi"), Imm(n(5)), Imm(n(500))}}
    \cup {Ins("xchg", << a, b >>) : a \in Regs, b \in Regs \cup SomeMems}
    \cup {Ins("xchg", << a, b >>) : a \in SomeMems, b \in Regs}
    \cup {Ins(op, << a >>) : op \in {"push", "pop", "inc", "dec"} \cup DOMAIN unary_digits, a \in Regs \cup Mems}
    \cup {Ins("push", << a >>) : a \in Imms}
    \cup {InsW(op, 1, << a >>) : op \in {"inc", "dec"} \cup DOMAIN unary_digits, a \in Bytes \cup SomeMems}
    \cup {Ins("imul", << a >>) : a \in Regs} \cup {Ins("imul", << a, b >>) : a \in Regs \cup SomeMems, b \in Regs}
    \cup {Ins("imul", << a, b, c >>) : a \in Imms, b \in SomeMems, c \in Regs}
    \cup {Ins(op, << a, b >>) : op \in DOMAIN shift_digits, a \in {Imm(n(1)), Imm(n(5)), Imm(Sym("c")), Reg("cl")}, b \in Regs \cup Bytes}
    \cup {InsW(op, w, << a >>) : op \in DOMAIN shift_digits, w \in {1, 4}, a \in SomeMems}
    \cup {Ins(op, << a, b >>) : op \in DOMAIN extend_ops, a \in Mems, b \in Regs}
    \cup {Ins("movzbl", << a, b >>) : a \in Bytes, b \in Regs} \cup {Ins("movswl", << Reg("cx"), b >>) : b \in Regs}
    \cup {InsCC("set", cc, << a >>) : cc \in DOMAIN cc_ops, a \in Bytes \cup SomeMems}
    \cup {InsCC("cmov", cc, << a, Reg("ebx") >>) : cc \in DOMAIN cc_ops, a \in Regs \cup SomeMems}
    \cup {InsCC("j", cc, << Mem(Sym("top"), "", "", n(1)) >>) : cc \in DOMAIN cc_ops}
    \cup {Ins(op, << a >>) : op \in {"jmp", "call"}, a \in Regs \cup Mems}
    \cup {Ins(op, <<>>) : op \in DOMAIN plain_ops} \cup {Ins("int", << Imm(n(128)) >>)}

\* One instruction among others whose addresses depend on its length.
Around(in) == Source(<< Equ("c", n(300)), Label("top"), Ins("nop", <<>>), in, Label("_start"), InsCC("j", "ne", << Mem(Sym("top"), "", "", n(1)) >>),
                        Section("data"), Data(4, << Sym("_start") >>), Label("x"), Data(1, << n(7) >>) >>)
EachInstruction == {Around(in) : in \in Instructions}

\* Sections interleaved, forward .equ, alignment, the location counter.
Jump(m, x) == Ins(m, << Mem(Sym(x), "", "", n(1)) >>)
Programs ==
    {Source(<< Ignored, Jump("jmp", "main"), Section("data"), Label("msg"), Strings(<< << 1, 2, 3 >>, << 4 >> >>, z), al, Label("ptr"), Data(4, << Dot, Sym("msg"), Sym("buf") >>),
               Equ("len", Minus(Dot, Sym("msg"))), Section("text"), al, Label("main"), Ins("mov", << Imm(Sym("len")), Reg("edx") >>), Ins("mov", << Mem(Sym("ptr"), "", "", n(1)), Reg("eax") >>),
               Section("bss"), al, Label("pad"), Space(n(3), 0), al, Label("buf"), Space(n(5), 0), Section("text"), Ins("add", << Imm(Sym("len2")), Mem(Sym("buf"), "ebx", "ecx", n(4)) >>),
               Jump("call", "sub"), Ins("hlt", <<>>), Section("data"), Data(2, << n(513), Neg(n(2)) >>), Space(n(2), 9), Section("text"), al, Label("sub"), Ins("ret", <<>>),
               Equ("len2", Plus(Sym("len"), Minus(Sym("sub"), Sym("main")))) >>) :
        z \in BOOLEAN, al \in {Align(n(4)), P2Align(n(3)), Align(n(1)), Align(n(3))}}

\* Sources with a mistake that as.c looks for.  What it takes although no
\* processor has it is in the README.
Refused ==
    {Wrong(<< Label("a"), in >>) : in \in
        {Jump("jmp", "b"), Label("a"), Ins("mov", << Mem(n(0), "eax", "", n(1)), Mem(n(0), "ebx", "", n(1)) >>), Ins("mov", << Reg("eax") >>),
         Ins("mov", << Reg("eax"), Imm(n(1)) >>), Ins("lea", << Reg("eax"), Reg("ebx") >>), Ins("shl", << Reg("ecx"), Reg("eax") >>),
         Ins("add", << Reg("eax"), Mem(n(0), "eax", "esp", n(1)) >>), Ins("add", << Reg("eax"), Mem(n(0), "eax", "ebx", n(3)) >>),
         Ins("mov", << Reg("rax"), Reg("ebx") >>), Ins("fadd", <<>>), InsW("jmp", 4, << Mem(Sym("a"), "", "", n(1)) >>), Ins("push", << Mem(n(0), "al", "", n(1)) >>),
         Ins("imul", << Reg("eax"), Mem(n(0), "eax", "", n(1)) >>), Ins("xchg", << Mem(n(0), "eax", "", n(1)), Mem(n(0), "eax", "", n(1)) >>),
         Ins("int", << Reg("eax") >>), InsCC("j", "q", << Mem(Sym("a"), "", "", n(1)) >>), Ins("pop", << Imm(n(1)) >>), Space(Sym("a"), 0),
         Ins("test", << Mem(n(0), "eax", "", n(1)), Mem(n(0), "eax", "", n(1)) >>), Space(n(MAX_TEXT + 1), 0), Data(4, << Sym("zz") >>)}}
    \cup {Wrong([j \in 1 .. MAX_SYM + 1 |-> Label(ToString(j))])}
    \cup {Wrong(<< Section("bss"), in >>) : in \in {Data(1, << n(1) >>), Ins("nop", <<>>)}}

Assembly == EachInstruction \cup Programs \cup Refused
=============================================================================
