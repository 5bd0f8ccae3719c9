----------------------------- MODULE CCPreproc ------------------------------
(***************************************************************************)
(* The compiler's preprocessor (user/cc.c).  A file is a sequence of lines *)
(* split into tokens: names, numbers, quotes, blanks and single operator   *)
(* characters, because the preprocessor compares characters, not tokens:   *)
(* "&&" is two characters.  Buffers are long enough for every line here.   *)
(***************************************************************************)
EXTENDS Paths, TLC, Bitwise

CONSTANTS
    PP_MAX_DEPTH,       \* nesting of files
    MAX_MACRO,          \* macros the table holds
    MAX_MACRO_PARAMS,   \* parameters of one macro
    EXPAND_DEPTH,       \* nesting of expansions (8 in the code)
    PP_OUT_MAX,         \* cells of the output buffer
    MAX_LM_LINES,       \* lines the line map holds
    MAX_LM_FILES        \* files the line map tells apart

Id(x)   == [k |-> "id", v |-> x, n |-> 0]
NumT(v) == [k |-> "num", v |-> "", n |-> v]
Ch(c)   == [k |-> "ch", v |-> c, n |-> 0]
Blank   == Ch(" ")
Quote   == Ch("quote")
Apostrophe == Ch("'")
FileName(f) == [k |-> "file", v |-> f, n |-> 0]

Text(ts)      == [k |-> "text", ts |-> ts]
Include(p, q) == [k |-> "include", path |-> p, quoted |-> q]
Define(x, b)  == [k |-> "define", x |-> x, m |-> [is_func |-> FALSE, params |-> <<>>, body |-> b]]
DefineF(x, ps, b) == [k |-> "define", x |-> x, m |-> [is_func |-> TRUE, params |-> ps, body |-> b]]
Undef(x)      == [k |-> "undef", x |-> x]
Ifdef(x)      == [k |-> "ifdef", x |-> x]
Ifndef(x)     == [k |-> "ifndef", x |-> x]
If(ts)        == [k |-> "if", ts |-> ts]
Elif(ts)      == [k |-> "elif", ts |-> ts]
Else          == [k |-> "else"]
Endif         == [k |-> "endif"]
Pragma        == [k |-> "other"]

---------------------------------------------------------------------------
(* #if expressions.  A parser takes the rest of the line and returns the   *)
(* value and what it has not read.                                         *)

pp_find_macro(ms, x) == x \in DOMAIN ms

RECURSIVE pp_expr_skip(_)
pp_expr_skip(p) == IF p # <<>> /\ Head(p) = Blank THEN pp_expr_skip(Tail(p)) ELSE p

\* Whether the characters of op come next, and the rest after them.
pp_expr_match(p, op) == LET q == pp_expr_skip(p) IN [yes |-> IsPrefix(op, q), p |-> SubSeq(q, Len(op) + 1, Len(q))]
At1(p, t) == p # <<>> /\ Head(p) = t
After1(p, t) == IF At1(p, t) THEN Tail(p) ELSE p

pp_expr_number(p) ==
    LET q == pp_expr_skip(p)
        neg == At1(q, Ch("-"))
        r == After1(q, Ch("-"))
    IN IF r # <<>> /\ Head(r).k = "num" THEN [yes |-> TRUE, v |-> IF neg THEN -Head(r).n ELSE Head(r).n, p |-> Tail(r)]
       ELSE [yes |-> FALSE, v |-> 0, p |-> p]

\* A macro counts as the number its body starts with, any other as 1.
pp_macro_value(ms, x) ==
    IF ~pp_find_macro(ms, x) THEN 0
    ELSE LET n == pp_expr_number(ms[x].body) IN IF n.yes THEN n.v ELSE 1

Truth(b) == IF b THEN 1 ELSE 0
Quot(a, b) == IF (a < 0) = (b < 0) THEN (IF a < 0 THEN -a ELSE a) \div (IF b < 0 THEN -b ELSE b)
              ELSE -((IF a < 0 THEN -a ELSE a) \div (IF b < 0 THEN -b ELSE b))
Chars2(a, b) == << Ch(a), Ch(b) >>
Op1(c) == << Ch(c) >>

\* The levels from the tightest, their operators in the order they are tried.
PPLevels == << << Op1("*"), Op1("/"), Op1("%") >>, << Op1("+"), Op1("-") >>, << Chars2("<", "<"), Chars2(">", ">") >>,
               << Chars2("<", "="), Chars2(">", "="), Op1("<"), Op1(">") >>, << Chars2("=", "="), Chars2("!", "=") >>,
               << Op1("&") >>, << Op1("^") >>, << Op1("|") >>, << Chars2("&", "&") >>, << Chars2("|", "|") >> >>
LAND == 9
LOR == 10

PPApply(op, a, b) ==
    CASE op = Op1("*") -> a * b
      [] op = Op1("/") -> IF b = 0 THEN a ELSE Quot(a, b)
      [] op = Op1("%") -> IF b = 0 THEN a ELSE a - b * Quot(a, b)
      [] op = Op1("+") -> a + b
      [] op = Op1("-") -> a - b
      [] op = Chars2("<", "<") -> a * 2 ^ b
      [] op = Chars2(">", ">") -> a \div 2 ^ b
      [] op = Chars2("<", "=") -> Truth(a <= b)
      [] op = Chars2(">", "=") -> Truth(a >= b)
      [] op = Op1("<") -> Truth(a < b)
      [] op = Op1(">") -> Truth(a > b)
      [] op = Chars2("=", "=") -> Truth(a = b)
      [] op = Chars2("!", "=") -> Truth(a # b)
      [] op = Op1("&") -> a & b
      [] op = Op1("^") -> a ^^ b
      [] op = Op1("|") -> a | b
      [] OTHER -> Truth(b # 0)

RECURSIVE pp_parse(_, _, _), PPRest(_, _, _), pp_parse_unary(_, _)

\* defined NAME and defined(NAME).
PPDefined(ms, p) ==
    LET q == pp_expr_skip(p)
        par == At1(q, Ch("("))
        r == IF par THEN pp_expr_skip(Tail(q)) ELSE q
        x == IF r # <<>> /\ Head(r).k = "id" THEN Head(r).v ELSE ""
        s == IF x = "" THEN r ELSE Tail(r)
    IN [v |-> Truth(pp_find_macro(ms, x)), p |-> IF par THEN After1(pp_expr_skip(s), Ch(")")) ELSE s]

pp_parse_primary(ms, p) ==
    LET q == pp_expr_skip(p)
    IN CASE At1(q, Ch("(")) -> LET e == pp_parse(ms, Tail(q), LOR) IN [v |-> e.v, p |-> After1(pp_expr_skip(e.p), Ch(")"))]
         [] q # <<>> /\ Head(q).k = "id" -> IF Head(q).v = "defined" THEN PPDefined(ms, Tail(q))
                                            ELSE [v |-> pp_macro_value(ms, Head(q).v), p |-> Tail(q)]
         [] OTHER -> LET n == pp_expr_number(q) IN [v |-> n.v, p |-> n.p]

pp_parse_unary(ms, p) ==
    LET tried == SelectInSeq(<< "!", "~", "+", "-" >>, LAMBDA c: pp_expr_match(p, Op1(c)).yes)
        e == pp_parse_unary(ms, pp_expr_match(p, Op1(<< "!", "~", "+", "-" >>[tried])).p)
    IN CASE tried = 0 -> pp_parse_primary(ms, p)
         [] tried = 1 -> [e EXCEPT !.v = Truth(@ = 0)]
         [] tried = 2 -> [e EXCEPT !.v = -@ - 1]
         [] tried = 3 -> e
         [] OTHER -> [e EXCEPT !.v = -@]

\* The right operand of && and || is not even read when the left decides.
PPRest(ms, e, l) ==
    LET o == SelectInSeq(PPLevels[l], LAMBDA op: pp_expr_match(e.p, op).yes)
        op == PPLevels[l][o]
        rest == pp_expr_match(e.p, op).p
        r == pp_parse(ms, rest, l - 1)
    IN CASE o = 0 -> e
         [] o # 0 /\ l = LAND /\ e.v = 0 -> PPRest(ms, [v |-> 0, p |-> rest], l)
         [] o # 0 /\ l = LOR /\ e.v # 0 -> PPRest(ms, [v |-> 1, p |-> rest], l)
         [] OTHER -> PPRest(ms, [v |-> PPApply(op, e.v, r.v), p |-> r.p], l)

pp_parse(ms, p, l) == IF l = 0 THEN pp_parse_unary(ms, p) ELSE PPRest(ms, pp_parse(ms, p, l - 1), l)

pp_eval_if(ms, ts) == pp_parse(ms, ts, LOR).v # 0

---------------------------------------------------------------------------
(* Macro expansion.                                                        *)

\* The arguments from in[j] on, and the index behind the closing parenthesis.
RECURSIVE MacroArgs(_, _, _, _)
MacroArgs(in, j, nest, args) ==
    LET add == [args EXCEPT ![Len(args)] = Append(@, in[j])]
    IN CASE j > Len(in) -> [args |-> args, j |-> j]
         [] j <= Len(in) /\ in[j] = Ch(")") /\ nest = 1 -> [args |-> args, j |-> j + 1]
         [] j <= Len(in) /\ in[j] = Ch(",") /\ nest = 1 ->
              MacroArgs(in, j + 1, nest, IF Len(args) < MAX_MACRO_PARAMS THEN Append(args, <<>>) ELSE [args EXCEPT ![Len(args)] = <<>>])
         [] OTHER -> MacroArgs(in, j + 1, CASE in[j] = Ch("(") -> nest + 1 [] in[j] = Ch(")") -> nest - 1 [] OTHER -> nest, add)

\* The body with each parameter replaced by its argument, nothing for a
\* missing one.
Substitute(m, args) ==
    FlattenSeq([b \in DOMAIN m.body |->
        LET a == IF m.body[b].k = "id" THEN SelectInSeq(m.params, LAMBDA p: p = m.body[b].v) ELSE 0
        IN CASE a = 0 -> << m.body[b] >> [] a \in DOMAIN args -> args[a] [] OTHER -> <<>>])

Outside == Ch("")
RECURSIVE pp_expand_text(_, _, _, _), ExpandFrom(_, _, _, _, _, _)
pp_expand_text(ms, in, depth, where) == IF depth <= 0 THEN in ELSE ExpandFrom(ms, in, 1, Outside, depth, where)

\* in_str and in_chr: the quote that ends the literal i is in, Outside in none.
InLiteral(lit, t) ==
    CASE lit = Outside /\ t \in {Quote, Apostrophe} -> t
      [] lit # Outside /\ t = lit -> Outside
      [] OTHER -> lit

ExpandFrom(ms, in, i, lit, depth, where) ==
    LET t == in[i]
        rest(j, q) == ExpandFrom(ms, in, j, q, depth, where)
        m == ms[t.v]
        call == MacroArgs(in, i + 2, 1, << <<>> >>)
        args == [a \in DOMAIN call.args |-> pp_expand_text(ms, call.args[a], depth - 1, where)]
    IN CASE i > Len(in) -> <<>>
         [] i <= Len(in) /\ (lit # Outside \/ t.k # "id") -> << t >> \o rest(i + 1, InLiteral(lit, t))
         [] i <= Len(in) /\ lit = Outside /\ t.k = "id" ->
              CASE t.v = "__LINE__" -> << NumT(where.line) >> \o rest(i + 1, Outside)
                [] t.v = "__FILE__" -> << Quote, FileName(where.file), Quote >> \o rest(i + 1, Outside)
                [] t.v \notin DOMAIN ms /\ t.v \notin {"__LINE__", "__FILE__"} -> << t >> \o rest(i + 1, Outside)
                [] t.v \in DOMAIN ms /\ ~m.is_func -> pp_expand_text(ms, m.body, depth - 1, where) \o rest(i + 1, Outside)
                [] OTHER -> IF i + 1 > Len(in) \/ in[i + 1] # Ch("(") THEN << t >> \o rest(i + 1, Outside)
                            ELSE pp_expand_text(ms, Substitute(m, args), depth - 1, where) \o rest(call.j, Outside)
         [] OTHER -> <<>>

---------------------------------------------------------------------------
(* Lines and files.                                                        *)

\* The directories an include is looked for in, in turn; the first where the
\* file exists and is not empty wins, <<>> when none does.
load_include(disk, cwd, name, from, quoted) ==
    LET dirs == (IF quoted THEN (IF path_dir(from) = <<>> THEN <<>> ELSE << path_dir(from) >>) \o (IF cwd = <<>> THEN <<>> ELSE << cwd >>) ELSE <<>>)
                \o << <<>>, << "lib" >> >>
        found == SelectInSeq(dirs, LAMBDA d: path_fs(d, name) \in DOMAIN disk /\ disk[path_fs(d, name)] # <<>>)
    IN IF found = 0 THEN <<>> ELSE path_fs(dirs[found], name)

pp_define(ms, x, m) == IF x \in DOMAIN ms \/ Cardinality(DOMAIN ms) < MAX_MACRO THEN (x :> m) @@ ms ELSE ms
pp_undef(ms, x) == [y \in DOMAIN ms \ {x} |-> ms[y]]

\* Mutant: a line is put down to the file entered last.
LineOfNewestFile(st, file, line) ==
    LET new == ~\E f \in DOMAIN st.lm_files : st.lm_files[f] = file
        named == IF new /\ Len(st.lm_files) < MAX_LM_FILES THEN Append(st.lm_files, file) ELSE st.lm_files
    IN IF Len(st.lm) >= MAX_LM_LINES THEN st ELSE [st EXCEPT !.lm = Append(@, << Len(named), line >>), !.lm_files = named]

\* The line map: lines beyond its end are not entered, a file beyond the file
\* table's end counts as the first one.
lm_add(st, file, line) ==
    LET known == SelectInSeq(st.lm_files, LAMBDA f: f = file)
        new == known = 0 /\ Len(st.lm_files) < MAX_LM_FILES
        fi == CASE known # 0 -> known [] new -> Len(st.lm_files) + 1 [] OTHER -> 1
    IN IF Len(st.lm) >= MAX_LM_LINES THEN st
       ELSE [st EXCEPT !.lm = Append(@, << fi, line >>), !.lm_files = IF new THEN Append(@, file) ELSE @]

\* The conditional stack of one file: whether the group is active, and
\* whether one of its conditional's groups has been taken.
Active(cond) == \A i \in DOMAIN cond : cond[i].active
Open(cond, val) == Append(cond, [active |-> Active(cond) /\ val, taken |-> val])

\* Mutant: only the group before this one is looked at.
SwitchFromLast(cond, val) ==
    IF cond = <<>> THEN cond
    ELSE [cond EXCEPT ![Len(cond)] = [active |-> ~Last(cond).active /\ Active(Front(cond)) /\ val, taken |-> val]]

Switch(cond, val) ==
    IF cond = <<>> THEN cond
    ELSE IF Last(cond).taken THEN [cond EXCEPT ![Len(cond)].active = FALSE]
    ELSE [cond EXCEPT ![Len(cond)] = [active |-> Active(Front(cond)) /\ val, taken |-> val]]

---------------------------------------------------------------------------
(* One compilation of a file: the files being read, the innermost last,    *)
(* and what has come out of them.                                          *)

VARIABLES psrc,    \* disk, working directory, the file to compile, skip_stdio
          files,   \* the nested calls of pp_process: file, line, conditionals
          pp,      \* macros, output, its length, line map
          pstep    \* "run", "refused" or "done"

pvars == << psrc, files, pp, pstep >>

Reading(file) == [file |-> file, line |-> 1, cond |-> <<>>]

PPInit(sources) ==
    /\ psrc \in sources
    /\ files = << Reading(psrc.file) >>
    /\ pp = [ms |-> <<>>, out |-> <<>>, len |-> 0, lm |-> <<>>, lm_files |-> <<>>]
    /\ pstep = "run"

Here == Last(files)
Lines == psrc.disk[Here.file]
Line == Lines[Here.line]
AtDirective(k) == pstep = "run" /\ files # <<>> /\ Here.line <= Len(Lines) /\ Line.k = k
Depth == Len(files) - 1
On == Active(Here.cond)

\* The line is done; cond is the conditional stack after it.
StepOver(cond) == files' = [files EXCEPT ![Len(files)] = [@ EXCEPT !.line = @ + 1, !.cond = cond]]

IncludeSkipped ==
    /\ AtDirective("include")
    /\ ~On \/ (psrc.skip_stdio /\ Line.path.cs = << "stdio.c" >>)
    /\ StepOver(Here.cond)
    /\ UNCHANGED << psrc, pp, pstep >>

Included == load_include(psrc.disk, psrc.cwd, Line.path, Here.file, Line.quoted)

IncludeFile ==
    /\ AtDirective("include")
    /\ On /\ ~(psrc.skip_stdio /\ Line.path.cs = << "stdio.c" >>)
    /\ IF Depth + 1 >= PP_MAX_DEPTH \/ Included = <<>>
       THEN pstep' = "refused" /\ UNCHANGED files
       ELSE /\ files' = Append([files EXCEPT ![Len(files)].line = @ + 1], Reading(Included))
            /\ UNCHANGED pstep
    /\ UNCHANGED << psrc, pp >>

DefineMacro ==
    /\ AtDirective("define")
    /\ pp' = IF On THEN [pp EXCEPT !.ms = pp_define(@, Line.x, Line.m)] ELSE pp
    /\ StepOver(Here.cond)
    /\ UNCHANGED << psrc, pstep >>

UndefMacro ==
    /\ AtDirective("undef")
    /\ pp' = IF On THEN [pp EXCEPT !.ms = pp_undef(@, Line.x)] ELSE pp
    /\ StepOver(Here.cond)
    /\ UNCHANGED << psrc, pstep >>

OpenConditional ==
    /\ \/ AtDirective("ifdef") /\ StepOver(Open(Here.cond, pp_find_macro(pp.ms, Line.x)))
       \/ AtDirective("ifndef") /\ StepOver(Open(Here.cond, ~pp_find_macro(pp.ms, Line.x)))
       \/ AtDirective("if") /\ StepOver(Open(Here.cond, pp_eval_if(pp.ms, Line.ts)))
    /\ UNCHANGED << psrc, pp, pstep >>

NextGroup ==
    /\ \/ AtDirective("elif") /\ StepOver(Switch(Here.cond, pp_eval_if(pp.ms, Line.ts)))
       \/ AtDirective("else") /\ StepOver(Switch(Here.cond, TRUE))
    /\ UNCHANGED << psrc, pp, pstep >>

CloseConditional ==
    /\ AtDirective("endif")
    /\ StepOver(IF Here.cond = <<>> THEN <<>> ELSE Front(Here.cond))
    /\ UNCHANGED << psrc, pp, pstep >>

OtherDirective ==
    /\ AtDirective("other")
    /\ StepOver(Here.cond)
    /\ UNCHANGED << psrc, pp, pstep >>

\* A call of pp_process gets one cell less than its caller has left.
TextLine ==
    /\ AtDirective("text")
    /\ LET t == pp_expand_text(pp.ms, Line.ts, EXPAND_DEPTH, [file |-> Here.file, line |-> Here.line])
           full == pp.len + Len(t) + 2 >= PP_OUT_MAX - Depth
       IN CASE ~On -> StepOver(Here.cond) /\ UNCHANGED << pp, pstep >>
            [] On /\ full -> pstep' = "refused" /\ UNCHANGED << files, pp >>
            [] OTHER -> /\ pp' = lm_add([pp EXCEPT !.out = Append(@, t), !.len = @ + Len(t) + 1], Here.file, Here.line)
                        /\ StepOver(Here.cond)
                        /\ UNCHANGED pstep
    /\ UNCHANGED psrc

\* The end of a file, whatever conditionals it leaves open.
EndOfFile ==
    /\ pstep = "run" /\ files # <<>> /\ Here.line > Len(Lines)
    /\ files' = Front(files)
    /\ pstep' = IF Len(files) = 1 THEN "done" ELSE "run"
    /\ UNCHANGED << psrc, pp >>

PPDone == pstep \in {"refused", "done"} /\ UNCHANGED pvars

PPNext ==
    \/ IncludeSkipped \/ IncludeFile \/ DefineMacro \/ UndefMacro
    \/ OpenConditional \/ NextGroup \/ CloseConditional \/ OtherDirective
    \/ TextLine \/ EndOfFile \/ PPDone
=============================================================================
