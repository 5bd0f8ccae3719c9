----------------------------- MODULE CCMachine -----------------------------
(***************************************************************************)
(* The programs that cc.c emits, run instruction by instruction.           *)
(* The processor is external: registers, memory of bytes, the flags that   *)
(* add, cmp, ftst and fcompp leave, and the register stack of the x87.     *)
(* A float is a number of halves, so that its bit pattern differs from     *)
(* that of the integer of the same value.                                  *)
(***************************************************************************)
EXTENDS CCProgram

VARIABLES
    src,    \* the source program, as given to the compiler
    cc,     \* the compiler's state at the end of the source
    m       \* the machine that runs the program

mvars == <<src, cc, m>>

CONSTANTS
    FPU_DEPTH,      \* registers of the x87 stack
    MAX_STEPS       \* instructions a program may take

FSCALE == 2
NAN == WMOD \div 2      \* pattern of the indefinite value

---------------------------------------------------------------------------
(* The image: rodata, data and bss from address 4, the stack from the top. *)

RoBase   == 4
DataBase(c) == align_to(RoBase + Len(c.rodata), 4)
BssBase(c)  == align_to(DataBase(c) + c.dlen, 4)

GlobalAddr(c, i) == c.globals[i].off + (IF c.globals[i].sec = "data" THEN DataBase(c) ELSE BssBase(c))

FixedData(c) ==
    FoldLeft(LAMBDA x, f: PutData(x, f[1], WordBytes(RoBase + f[2])), c, c.datafix).data

Image(c) ==
    LET d == FixedData(c)
    IN [a \in 0..(WMOD - 1) |->
          CASE a \in RoBase..(RoBase + Len(c.rodata) - 1) -> c.rodata[a - RoBase + 1]
            [] a \in DataBase(c)..(DataBase(c) + c.dlen - 1) -> d[a - DataBase(c) + 1]
            [] OTHER -> 0]

\* The start stub calls main and exits with what it returns.
StartStub == << <<"call", "main">>, <<"mov", "ebx", "eax">>, <<"movi", "eax", 6>>, <<"int80">> >>
Text(c) == c.code \o StartStub

Regs == {"eax", "ebx", "ecx", "edx", "esi", "esp", "ebp"}

Boot(c) == [mem |-> Image(c), r |-> [x \in Regs |-> IF x = "esp" THEN WMOD - 4 ELSE 0], pc |-> Len(c.code) + 1,
            fl |-> [zf |-> FALSE, cf |-> FALSE, lt |-> FALSE], fpu |-> <<>>, out |-> <<>>, halted |-> c.err, steps |-> 0]

---------------------------------------------------------------------------
(* One instruction.                                                        *)

Mem(x, a, n) == LET B(i) == x.mem[ToWord(a + i)] * BMOD ^ i
                IN CASE n = 1 -> B(0) [] n = 2 -> B(0) + B(1) [] OTHER -> B(0) + B(1) + B(2) + B(3)
SetMem(x, a, n, v) ==
    LET At(i) == ToWord(a + i)
        B(i)  == (v \div BMOD ^ i) % BMOD
    IN CASE n = 1 -> [x EXCEPT !.mem[At(0)] = B(0)]
         [] n = 2 -> [x EXCEPT !.mem[At(0)] = B(0), !.mem[At(1)] = B(1)]
         [] OTHER -> [x EXCEPT !.mem[At(0)] = B(0), !.mem[At(1)] = B(1), !.mem[At(2)] = B(2), !.mem[At(3)] = B(3)]

Reg(x, n, v) == [x EXCEPT !.r[n] = ToWord(v)]
Push(x, v)   == LET e == ToWord(x.r["esp"] - 4) IN SetMem(Reg(x, "esp", e), e, 4, v)
Top(x, d)    == Mem(x, x.r["esp"] + d, 4)
Pop(x, n)    == [Reg(x, "esp", x.r["esp"] + 4) EXCEPT !.r[n] = Top(x, 0)]
Extend(v, n, sg) == IF sg THEN SignedOf(v, n * BYTE_BITS) ELSE v % BMOD ^ n

Flags(x, a, b) == [x EXCEPT !.fl = [zf |-> a = b, cf |-> a < b, lt |-> ToInt(a) < ToInt(b)]]

Holds(x, c) ==
    CASE c = "e" -> x.fl.zf              [] c = "ne" -> ~x.fl.zf
      [] c = "b" -> x.fl.cf              [] c = "ae" -> ~x.fl.cf
      [] c = "be" -> x.fl.cf \/ x.fl.zf  [] c = "a" -> ~x.fl.cf /\ ~x.fl.zf
      [] c = "l" -> x.fl.lt              [] c = "ge" -> ~x.fl.lt
      [] c = "le" -> x.fl.lt \/ x.fl.zf  [] OTHER -> ~x.fl.lt /\ ~x.fl.zf

Alu(op, a, b) ==
    LET sh == b % WORD_BITS IN
    CASE op = "+" -> a + b      [] op = "-" -> a - b      [] op = "*" -> a * b
      [] op = "/" -> TDiv(ToInt(a), ToInt(b))             [] op = "/u" -> a \div b
      [] op = "%" -> TMod(ToInt(a), ToInt(b))             [] op = "%u" -> a % b
      [] op = "&" -> a & b      [] op = "|" -> a | b      [] op = "^" -> a ^^ b
      [] op = "<<" -> a * 2 ^ sh  [] op = ">>" -> ToInt(a) \div 2 ^ sh  [] OTHER -> a \div 2 ^ sh

\* The x87 stack: a load onto a full stack and a store from an empty one give NAN.
FPush(x, v) == IF Len(x.fpu) = FPU_DEPTH THEN [x EXCEPT !.fpu = <<NAN>> \o Front(@)] ELSE [x EXCEPT !.fpu = <<v>> \o @]
FTop(x) == IF x.fpu = <<>> THEN NAN ELSE x.fpu[1]
FPop(x) == IF x.fpu = <<>> THEN x ELSE [x EXCEPT !.fpu = Tail(@)]
FOp(op, a, b) == CASE op = "+" -> a + b [] op = "-" -> a - b [] op = "*" -> TDiv(a * b, FSCALE) [] OTHER -> TDiv(a * FSCALE, b)
FFlags(x, a, b) == [x EXCEPT !.fl = [zf |-> a = b \/ NAN \in {a, b}, cf |-> a < b \/ NAN \in {a, b}, lt |-> FALSE]]

CopyBytes(x, from, to, n) ==
    [x EXCEPT !.mem = [b \in DOMAIN @ |-> LET i == ToWord(b - to) IN IF i < n THEN @[ToWord(from + i)] ELSE @[b]]]

\* The kernel: SYS_EXIT stops the program; every other call is an event and returns 0.
Int80(x) ==
    LET no == x.r["eax"]
        b  == SelectInSeq(Builtins, LAMBDA e: e[2] = no)
        args == [i \in 1..(IF b > 0 THEN Builtins[b][3] ELSE 0) |-> x.r[ArgRegs[i]]]
        y  == [x EXCEPT !.out = Append(@, <<no>> \o args)]
    IN IF no = 6 THEN [y EXCEPT !.halted = TRUE] ELSE Reg(y, "eax", 0)

\* What an instruction does apart from moving on to the next one.
Effect(x, c, ins) ==
    LET op == ins[1]
        eax == x.r["eax"]
        ebx == x.r["ebx"]
        esp == x.r["esp"]
    IN CASE op = "pushi" -> Push(x, ins[2])
         [] op = "push"  -> Push(x, eax)
         [] op = "pop"   -> Pop(x, ins[2])
         [] op = "movi"  -> Reg(x, ins[2], ins[3])
         [] op = "mov"   -> Reg(x, ins[2], x.r[ins[3]])
         [] op = "glob"  -> Reg(x, "eax", GlobalAddr(c, ins[2]))
         [] op = "strlit" -> Reg(x, "eax", RoBase + ins[2])
         [] op = "fun"   -> Reg(x, "eax", c.labels[c.funcs[find_func(c, ins[2])].label])
         [] op = "lea"   -> Reg(x, "eax", x.r["ebp"] + ins[2])
         [] op = "load"  -> Reg(x, "eax", Extend(Mem(x, eax, ins[2]), ins[2], ins[3]))
         [] op = "store" -> SetMem(x, ebx, ins[2], eax)
         [] op = "ext"   -> Reg(x, "eax", Extend(eax, ins[2], ins[3]))
         [] op = "alu" /\ ins[2] \in {"/", "/u", "%", "%u"} /\ ebx = 0 ->       \* divide fault
               [x EXCEPT !.halted = TRUE, !.out = Append(@, <<-1>>)]
         [] op = "alu"   -> Reg(x, "eax", Alu(ins[2], eax, ebx))
         [] op = "imul"  -> Reg(x, "eax", eax * ins[2])
         [] op = "idivi" -> Reg(x, "eax", TDiv(ToInt(eax), ins[2]))
         [] op = "addi"  -> Reg(x, "eax", eax + ins[2])
         [] op = "neg"   -> Reg(x, "eax", -eax)
         [] op = "not"   -> Reg(x, "eax", -eax - 1)
         [] op = "cmp"   -> Flags(x, eax, ebx)
         [] op = "cmpi"  -> Flags(x, eax, ins[2])
         [] op = "set"   -> Reg(x, "eax", Bool01(Holds(x, ins[2])))
         [] op = "addesp" -> Flags(Reg(x, "esp", esp + ins[2]), ToWord(esp + ins[2]), 0)
         [] op = "fild"  -> FPush(x, ToInt(Top(x, ins[2])) * FSCALE)
         [] op = "fld"   -> FPush(x, ToInt(Top(x, ins[2])))
         [] op = "fstp"  -> FPop(SetMem(x, esp + ins[2], 4, ToWord(FTop(x))))
         [] op = "fistp_chop" -> FPop(SetMem(x, esp + ins[2], 4, ToWord(TDiv(FTop(x), FSCALE))))
         [] op = "ftst"  -> FFlags(x, FTop(x), 0)
         [] op = "fcompp" -> FPop(FPop(FFlags(x, FTop(x), FTop(FPop(x)))))
         [] op = "fop"   -> FPush(FPop(FPop(x)), FOp(ins[2], FTop(FPop(x)), FTop(x)))
         [] op = "fchs"  -> FPush(FPop(x), -FTop(x))
         [] op = "copy"  -> Reg(CopyBytes(x, Top(x, 0), Top(x, 4), ins[2]), "esp", esp + 4)
         [] op = "spush" -> LET to == ToWord(esp + 4 - align_to(ins[2], 4))
                            IN Reg(CopyBytes(x, Top(x, 0), to, ins[2]), "esp", to)
         [] op = "vaload" -> Reg(SetMem(x, ebx, 4, ToWord(Mem(x, ebx, 4) + ins[3])), "eax", Mem(x, Mem(x, ebx, 4), ins[2]))
         [] op = "zero"  -> [x EXCEPT !.mem = [b \in DOMAIN @ |-> IF ToWord(b - eax) < ins[2] THEN 0 ELSE @[b]]]
         [] op = "bytes" -> [x EXCEPT !.mem = [b \in DOMAIN @ |-> IF ToWord(b - eax) < Len(ins[2]) THEN ins[2][ToWord(b - eax) + 1] ELSE @[b]]]
         [] op = "movebp" -> SetMem(x, x.r["ebp"] + ins[2], 4, eax)
         [] op = "ldebp" -> Reg(x, "eax", Mem(x, x.r["ebp"] + ins[2], 4))
         [] op = "enter" -> LET y == Push(x, x.r["ebp"]) IN Reg(Reg(y, "ebp", y.r["esp"]), "esp", y.r["esp"] - ins[2])
         [] op = "leave" -> Pop(Reg(x, "esp", x.r["ebp"]), "ebp")
         [] op = "int80" -> Int80(x)
         [] OTHER -> x

\* "leave" is followed by ret; call pushes the address after it.
Step(x, c) ==
    LET ins == Text(c)[x.pc]
        y   == Effect(x, c, ins)
        FunAt(name) == c.labels[c.funcs[find_func(c, name)].label]
    IN CASE ins[1] = "jmp"   -> [y EXCEPT !.pc = c.labels[ins[2]]]
         [] ins[1] = "je"    -> [y EXCEPT !.pc = IF Holds(x, "e") THEN c.labels[ins[2]] ELSE @ + 1]
         [] ins[1] = "call"  -> [Push(y, y.pc + 1) EXCEPT !.pc = FunAt(ins[2])]
         [] ins[1] = "calla" -> [Push(y, y.pc + 1) EXCEPT !.pc = x.r["eax"]]
         [] ins[1] = "leave" -> [Reg(y, "esp", y.r["esp"] + 4) EXCEPT !.pc = Top(y, 0)]
         [] OTHER -> [y EXCEPT !.pc = @ + 1]
=============================================================================
